--------------------------- MODULE CasConnProofs ---------------------------
(***************************************************************************)
(* Theorems about CasConn, for any number of contexts, watchers and        *)
(* handles and any bound on the requests.                                  *)
(***************************************************************************)
EXTENDS CasConn, SequenceTheorems, TLAPS

-----------------------------------------------------------------------------
(***************************************************************************)
(* Type correctness.                                                       *)
(***************************************************************************)

\* Trips makes a list of one round trip.
LEMMA TripsType ==
  ASSUME NEW fc \in FC, NEW h \in Opt(Handle)
  PROVE  Trips(fc, h) \in Seq(Trip) /\ Trips(fc, h) # <<>>
BY DEF Trips, Trip

LEMMA FollowUpType ==
  ASSUME NEW h \in Opt(Handle), NEW ins \in BOOLEAN
  PROVE  CloseOf(h) \in Seq(Trip) /\ LastIdIf(ins) \in Seq(Trip)
<1>1. CloseOf(h) \in Seq(Trip)
  BY TripsType DEF CloseOf, FC
<1>2. LastIdIf(ins) \in Seq(Trip)
  BY TripsType DEF LastIdIf, FC, Opt
<1> QED BY <1>1, <1>2

\* Continue keeps the caller's shape: a round trip to make, or none and the
\* call is on its way out.
LEMMA ContinueType ==
  ASSUME CallerType, NEW rest \in Seq(Trip), Continue(rest), call' \in Call
  PROVE  CallerType'
BY DEF CallerType, Continue, Finish

LEMMA FailType ==
  ASSUME CallerType, todo # <<>>, NEW transport \in BOOLEAN, Fail(transport)
  PROVE  CallerType'
<1>1. Tail(todo) \in Seq(Trip) /\ <<>> \in Seq(Trip)
  BY HeadTailProperties, EmptySeq DEF CallerType
<1>2. call' \in Call
  BY DEF Fail, CallerType, Call
<1> QED
  BY <1>1, <1>2, ContinueType DEF Fail

\* Every handler keeps the types, whatever the answer.
LEMMA HandlerType ==
  ASSUME TypeOK, pc = "body", NEW a \in Answer, Handler(a)
  PROVE  ObjsType' /\ CallerType'
<1> USE DEF TypeOK
<1>0. /\ todo # <<>> /\ Tail(todo) \in Seq(Trip) /\ <<>> \in Seq(Trip)
      /\ a.h \in Opt(Handle) /\ a.ins \in BOOLEAN /\ call.ins \in BOOLEAN
      /\ Own(a.h) \subseteq Handle /\ Own(Head(todo).h) \subseteq Handle
  <2>1. todo # <<>> /\ Tail(todo) \in Seq(Trip) /\ <<>> \in Seq(Trip) /\ Head(todo) \in Trip
    BY HeadTailProperties, EmptySeq DEF CallerType
  <2>2. Head(todo).h \in Opt(Handle)
    BY <2>1 DEF Trip
  <2> QED BY <2>1, <2>2 DEF CallerType, Answer, Call, Own, Opt
<1>1. CASE OnError(a)
  BY <1>1, <1>0, FailType DEF OnError, ObjsType, objs
<1>2. CASE OnQuery(a)
  <2>1. call' \in Call /\ ObjsType'
    BY <1>0, <1>2 DEF OnQuery, ObjsType, CallerType, Call
  <2> QED BY <2>1, <1>0, <1>2, ContinueType DEF OnQuery
<1>3. CASE OnExec(a)
  <2>1. call' \in Call /\ ObjsType'
    BY <1>0, <1>3 DEF OnExec, ObjsType, objs, CallerType, Call
  <2>2. LastIdIf(a.ins) \o CloseOf(a.h) \in Seq(Trip)
    BY <1>0, FollowUpType, ConcatProperties
  <2> QED BY <2>1, <2>2, <1>0, <1>3, ContinueType DEF OnExec
<1>4. CASE OnStmtExec(a)
  <2>1. call' \in Call /\ ObjsType'
    BY <1>0, <1>4 DEF OnStmtExec, ObjsType, objs, CallerType
  <2>2. (IF call.kind = "stmtExecArgs" THEN CloseOf(a.h) ELSE <<>>) \o LastIdIf(call.ins)
           \in Seq(Trip)
    <3>1. (IF call.kind = "stmtExecArgs" THEN CloseOf(a.h) ELSE <<>>) \in Seq(Trip)
      BY <1>0, FollowUpType
    <3>2. LastIdIf(call.ins) \in Seq(Trip)
      BY <1>0, FollowUpType
    <3> QED BY <3>1, <3>2, ConcatProperties
  <2> QED BY <2>1, <2>2, <1>4, ContinueType DEF OnStmtExec
<1>5. CASE OnStmtQuery(a)
  <2>1. call' \in Call /\ ObjsType'
    <3>1. call' \in Call /\ UNCHANGED <<closed, autoCommit, inTx, stmts>>
      BY <1>5 DEF OnStmtQuery, CallerType
    <3>2. cursors' \subseteq Handle /\ sharers' \subseteq Handle
      BY <1>0, <1>5 DEF OnStmtQuery, ObjsType
    <3> QED BY <3>1, <3>2 DEF ObjsType
  <2> QED BY <2>1, <1>0, <1>5, ContinueType DEF OnStmtQuery
<1>6. CASE OnLastId(a)
  <2>1. call' \in Call /\ ObjsType'
    BY <1>0, <1>6 DEF OnLastId, ObjsType, objs, CallerType, Call
  <2>2. CloseOf(a.h) \o Tail(todo) \in Seq(Trip)
    BY <1>0, FollowUpType, ConcatProperties
  <2> QED BY <2>1, <2>2, <1>6, ContinueType DEF OnLastId
<1>7. CASE OnPrepare(a)
  <2>1. call' \in Call /\ ObjsType'
    BY <1>0, <1>7 DEF OnPrepare, ObjsType, CallerType
  <2> QED BY <2>1, <1>0, <1>7, ContinueType DEF OnPrepare
<1>8. CASE OnEndTran(a)
  <2>1. call' \in Call /\ ObjsType'
    BY <1>0, <1>8 DEF OnEndTran, ObjsType, CallerType
  <2> QED BY <2>1, <1>0, <1>8, ContinueType DEF OnEndTran
<1>9. CASE OnOther(a)
  <2>1. call' \in Call /\ ObjsType'
    BY <1>0, <1>9 DEF OnOther, ObjsType, objs, CallerType
  <2> QED BY <2>1, <1>0, <1>9, ContinueType DEF OnOther
<1> QED BY <1>1, <1>2, <1>3, <1>4, <1>5, <1>6, <1>7, <1>8, <1>9 DEF Handler

LEMMA EnterType ==
  ASSUME CallerType, NEW kind \in Kinds, NEW ins \in BOOLEAN, NEW fc \in FC,
         NEW h \in Opt(Handle), Enter(kind, ins, Trips(fc, h))
  PROVE  CallerType'
BY TripsType DEF CallerType, Enter, Call, Opt

LEMMA RefuseType ==
  ASSUME CallerType, pc = "idle", NEW kind \in Kinds,
         NEW err \in {"nil", "err", "ctx", "badconn"}, Refuse(kind, err)
  PROVE  CallerType'
BY DEF CallerType, Refuse, Call, Opt

LEMMA QuietType ==
  ASSUME SockType, NetType, Quiet
  PROVE  SockType' /\ NetType'
BY DEF SockType, NetType, Quiet, net

\* Entering any call keeps the types.
LEMMA CallCtxType ==
  ASSUME TypeOK, NEW kind \in CtxKinds, NEW c \in Ctx, NEW ins \in BOOLEAN,
         CallCtx(kind, c, ins)
  PROVE  TypeOK'
<1> USE DEF TypeOK
<1>1. ObjsType' /\ NetType'
  BY DEF CallCtx, ObjsType, NetType, objs, net
<1>2. CallerType'
  <2>1. CASE \E err \in {"ctx", "badconn"} : Refuse(kind, err)
    BY <2>1, RefuseType DEF CallCtx, Ready, CtxKinds, Kinds
  <2>2. CASE ~closed /\ ~CtxDone(c) /\ pc' = "check"
    <3>1. call' \in Call /\ call'.kind = kind
      <4>1. PICK w \in Opt(Watcher) :
               call' = [kind |-> kind, ctx |-> c, w |-> w, ins |-> ins,
                        err |-> "nil"]
        BY <2>2 DEF CallCtx, Opt
      <4>2. kind \in Kinds /\ c \in Opt(Ctx)
        BY DEF CtxKinds, Kinds, Opt
      <4> QED BY <4>1, <4>2 DEF Call
    <3>2. todo' = IF kind = "beginTx" THEN <<>> ELSE Trips("PAE", None)
      BY <2>2 DEF CallCtx, Ready, Refuse
    <3>3. <<>> \in Seq(Trip) /\ Trips("PAE", None) \in Seq(Trip) /\ Trips("PAE", None) # <<>>
      BY TripsType, EmptySeq DEF FC, Opt
    <3> QED BY <2>2, <3>1, <3>2, <3>3 DEF CallerType
  <2> QED BY <2>1, <2>2 DEF CallCtx, Ready
<1>3. SockType'
  <2>1. frame' \in Nat /\ nreq' \in Nat /\ orphaned' \subseteq Nat
        /\ ctx' \in [Ctx -> {"live", "due", "done"}]
    BY DEF CallCtx, DeadlineOf, SockType
  <2>2. deadline' \in {"zero", "timer", "past"}
    BY DEF CallCtx, DeadlineOf, SockType
  <2>3. watch' \in [Watcher -> Watch]
    <3> DEFINE on == [st |-> "select", ctx |-> c, stop |-> FALSE]
    <3>1. on \in Watch
      BY DEF Watch, Opt
    <3>2. watch' = watch \/ \E w \in Watcher : watch' = [watch EXCEPT ![w] = on]
      BY DEF CallCtx
    <3> QED BY <3>1, <3>2 DEF SockType
  <2> QED BY <2>1, <2>2, <2>3 DEF SockType
<1> QED BY <1>1, <1>2, <1>3

LEMMA CheckedType ==
  ASSUME TypeOK, NEW kind \in Kinds, NEW ins \in BOOLEAN, NEW fc \in FC,
         NEW h \in Opt(Handle), CallChecked(kind, ins, Trips(fc, h))
  PROVE  TypeOK'
<1>1. ObjsType' /\ SockType' /\ NetType'
  BY QuietType DEF CallChecked, TypeOK, ObjsType, objs
<1>2. CallerType'
  BY EnterType, RefuseType DEF CallChecked, TypeOK, Ready
<1> QED BY <1>1, <1>2 DEF TypeOK

LEMMA UncheckedType ==
  ASSUME TypeOK, NEW kind \in Kinds, NEW fc \in FC, NEW h \in Opt(Handle),
         CallUnchecked(kind, Trips(fc, h)), ObjsType'
  PROVE  TypeOK'
<1>1. SockType' /\ NetType'
  BY QuietType DEF CallUnchecked, TypeOK
<1>2. CallerType'
  BY EnterType DEF CallUnchecked, TypeOK
<1> QED BY <1>1, <1>2 DEF TypeOK

LEMMA BadArgsType ==
  ASSUME TypeOK, NEW kind \in Kinds, CallBadArgs(kind)
  PROVE  TypeOK'
<1>1. ObjsType' /\ SockType' /\ NetType'
  BY QuietType DEF CallBadArgs, TypeOK, ObjsType, objs
<1>2. CallerType'
  BY RefuseType DEF CallBadArgs, TypeOK, Ready
<1> QED BY <1>1, <1>2 DEF TypeOK

LEMMA StartType ==
  ASSUME TypeOK, Start
  PROVE  TypeOK'
<1> USE DEF Opt, Kinds, CtxKinds, FC
<1>1. CASE \E c \in Ctx : \/ CallCtx("query", c, FALSE)
                          \/ \E ins \in BOOLEAN : CallCtx("exec", c, ins)
                          \/ CallCtx("beginTx", c, FALSE)
  BY <1>1, CallCtxType
<1>2. ASSUME NEW h \in Handle, NEW ins \in BOOLEAN, StmtExec(h, ins)
      PROVE  TypeOK'
  BY <1>2, CheckedType DEF StmtExec
<1>3. ASSUME NEW h \in Handle, NEW ins \in BOOLEAN, StmtExecArgs(h, ins)
      PROVE  TypeOK'
  BY <1>3, CheckedType, BadArgsType DEF StmtExecArgs
<1>4. ASSUME NEW h \in Handle, StmtQuery(h)
      PROVE  TypeOK'
  BY <1>4, CheckedType DEF StmtQuery
<1>5. ASSUME NEW h \in Handle, StmtQueryArgs(h)
      PROVE  TypeOK'
  BY <1>5, CheckedType, BadArgsType DEF StmtQueryArgs
<1>6. ASSUME NEW h \in Handle, StmtClose(h)
      PROVE  TypeOK'
  <2>1. ObjsType'
    BY <1>6 DEF StmtClose, ObjsType, TypeOK
  <2> QED BY <1>6, <2>1, UncheckedType DEF StmtClose
<1>7. ASSUME NEW h \in Handle, RowsFetch(h)
      PROVE  TypeOK'
  <2>1. ObjsType'
    BY <1>7 DEF RowsFetch, ObjsType, TypeOK, objs
  <2> QED BY <1>7, <2>1, UncheckedType DEF RowsFetch
<1>8. ASSUME NEW h \in Handle, RowsClose(h)
      PROVE  TypeOK'
  <2>1. ObjsType'
    BY <1>8 DEF RowsClose, ObjsType, TypeOK
  <2> QED BY <1>8, <2>1, UncheckedType DEF RowsClose
<1>9. CASE Prepare
  BY <1>9, CheckedType DEF Prepare
<1>10. CASE Ping
  BY <1>10, CheckedType DEF Ping
<1>11. CASE ServerVersion
  <2>1. ObjsType'
    BY <1>11 DEF ServerVersion, ObjsType, TypeOK, objs
  <2> QED BY <1>11, <2>1, UncheckedType DEF ServerVersion
<1>12. CASE EndTran
  <2>1. ObjsType'
    BY <1>12 DEF EndTran, ObjsType, TypeOK
  <2> QED BY <1>12, <2>1, UncheckedType DEF EndTran
<1>13. CASE Begin
  <2>1. ObjsType'
    BY <1>13 DEF Begin, ObjsType, TypeOK
  <2>2. CallerType'
    BY <1>13, RefuseType DEF Begin, TypeOK, Ready
  <2> QED BY <1>13, <2>1, <2>2, QuietType DEF Begin, TypeOK
<1>14. CASE Close
  <2>1. ObjsType' /\ SockType'
    BY <1>14 DEF Close, ObjsType, SockType, TypeOK
  <2>2. CallerType'
    BY <1>14, RefuseType DEF Close, TypeOK, Ready
  <2>3. NetType'
    BY <1>14, EmptySeq DEF Close, NetType
  <2> QED BY <2>1, <2>2, <2>3 DEF TypeOK
<1>15. ASSUME NEW h \in Handle, RowsForget(h)
       PROVE  TypeOK'
  BY <1>15, QuietType DEF RowsForget, ObjsType, CallerType, TypeOK
<1> QED
  BY <1>1, <1>2, <1>3, <1>4, <1>5, <1>6, <1>7, <1>8, <1>9, <1>10, <1>11, <1>12, <1>13, <1>14, <1>15
     DEF Start

\* Reads and what they leave of the input.
LEMMA TornType ==
  ASSUME NEW s \in Seq(Unit), s # <<>>
  PROVE  Torn(s) \in Seq(Unit) /\ Len(Torn(s)) = Len(s)
<1>1. 1 \in 1..Len(s) /\ s[1] \in Unit
  BY EmptySeq, ElementOfSeq
<1>2. [part |-> "rest", a |-> s[1].a] \in Unit
  BY <1>1 DEF Unit
<1> QED BY <1>1, <1>2, ExceptSeq DEF Torn

LEMMA PartlyType ==
  ASSUME NEW s \in Seq(Unit), NEW t \in Partly(s)
  PROVE  t \in Seq(Unit)
BY TornType DEF Partly

LEMMA SuffixType ==
  ASSUME NEW s \in Seq(Unit), NEW k \in 0..Len(s)
  PROVE  /\ SubSeq(s, 1, k) \in Seq(Unit) /\ Len(SubSeq(s, 1, k)) = k
         /\ SubSeq(s, k + 1, Len(s)) \in Seq(Unit)
         /\ \A i \in 1..k : SubSeq(s, 1, k)[i] = s[i]
<1>0. Len(s) \in Nat /\ \A i \in 1..Len(s) : s[i] \in Unit
  BY LenProperties, ElementOfSeq
<1>1. SubSeq(s, 1, k) \in Seq(Unit) /\ Len(SubSeq(s, 1, k)) = (IF 1 <= k THEN k - 1 + 1 ELSE 0)
      /\ \A i \in 1..(k - 1 + 1) : SubSeq(s, 1, k)[i] = s[1 + i - 1]
  BY <1>0, SubSeqProperties
<1>2. SubSeq(s, k + 1, Len(s)) \in Seq(Unit)
  BY <1>0, SubSeqProperties
<1> QED BY <1>0, <1>1, <1>2

\* The caller's own steps keep the types.
LEMMA StepType ==
  ASSUME TypeOK, Step \/ RecvJunk
  PROVE  TypeOK'
<1> USE DEF TypeOK
<1>1. CASE Check
  <2>1. ObjsType' /\ SockType' /\ NetType'
    BY <1>1, QuietType DEF Check, ObjsType
  <2>2. <<>> \in Seq(Trip) /\ call' \in Call
    BY <1>1, EmptySeq DEF Check, CallerType, Call
  <2>3. CASE Continue(<<>>)
    BY <2>1, <2>2, <2>3, ContinueType
  <2>4. CASE call.kind # "beginTx" /\ pc' = "send" /\ UNCHANGED <<call, todo>>
    BY <1>1, <2>1, <2>4 DEF Check, CallerType
  <2> QED BY <1>1, <2>3, <2>4 DEF Check
<1>2. CASE Send
  <2>1. ObjsType' /\ SockType'
    BY <1>2 DEF Send, ObjsType, SockType, objs
  <2>2. CallerType'
    BY <1>2 DEF Send, CallerType
  <2>3. NetType'
    <3> DEFINE q == [id |-> nreq + 1, fc |-> Head(todo).fc, h |-> Head(todo).h,
                     ac |-> autoCommit \/ Head(todo).fc = "VERSION",
                     ins |-> call.ins /\ Head(todo).fc = "PAE"]
    <3>1. Head(todo) \in Trip
      BY <1>2, HeadTailProperties DEF Send, CallerType
    <3>2. q \in Request
      BY <3>1 DEF Trip, Request, ObjsType, SockType
    <3>3. toSrv' \in Seq(Request)
      BY <1>2, <3>2 DEF Send, NetType
    <3> QED BY <1>2, <3>3 DEF Send, NetType
  <2> QED BY <2>1, <2>2, <2>3
<1>3. CASE SendFail
  <2>1. ObjsType' /\ SockType' /\ NetType'
    BY <1>3, QuietType DEF SendFail, ObjsType, objs
  <2>2. CallerType'
    BY <1>3, FailType DEF SendFail, CallerType
  <2> QED BY <2>1, <2>2
<1>4. CASE RecvLen
  <2>0. Head(toCli) \in Unit /\ Tail(toCli) \in Seq(Unit) /\ Torn(toCli) \in Seq(Unit)
    BY <1>4, HeadTailProperties, TornType DEF RecvLen, NetType
  <2>1. ObjsType' /\ CallerType'
    BY <1>4 DEF RecvLen, ObjsType, CallerType, objs
  <2>2. SockType'
    BY <1>4, <2>0 DEF RecvLen, SockType, Unit, Answer
  <2>3. NetType'
    BY <1>4, <2>0 DEF RecvLen, NetType
  <2> QED BY <2>1, <2>2, <2>3
<1>5. CASE RecvTimeout
  <2>1. ObjsType' /\ SockType'
    BY <1>5 DEF RecvTimeout, ObjsType, SockType, objs
  <2>2. CallerType'
    BY <1>5, FailType DEF RecvTimeout, CallerType, Waiting
  <2>3. NetType'
    BY <1>5, PartlyType DEF RecvTimeout, NetType
  <2> QED BY <2>1, <2>2, <2>3
<1>6. CASE RecvEOF
  <2>1. ObjsType' /\ SockType'
    BY <1>6 DEF RecvEOF, ObjsType, SockType, objs
  <2>2. CallerType'
    BY <1>6, FailType DEF RecvEOF, CallerType, Waiting
  <2>3. NetType'
    BY <1>6, EmptySeq DEF RecvEOF, NetType
  <2> QED BY <2>1, <2>2, <2>3
<1>7. CASE RecvBody
  <2>0. Head(toCli) \in Unit /\ Tail(toCli) \in Seq(Unit)
    BY <1>7, HeadTailProperties DEF RecvBody, NetType
  <2>1. PICK ok \in BOOLEAN : Handler([Head(toCli).a EXCEPT !.ok = ok])
    BY <1>7, <2>0 DEF RecvBody, Unit, Answer
  <2>2. [Head(toCli).a EXCEPT !.ok = ok] \in Answer
    BY <2>0 DEF Unit, Answer
  <2>3. ObjsType' /\ CallerType'
    BY <1>7, <2>1, <2>2, HandlerType DEF RecvBody
  <2>4. SockType'
    BY <1>7 DEF RecvBody, SockType
  <2>5. NetType'
    BY <1>7, <2>0 DEF RecvBody, NetType
  <2> QED BY <2>3, <2>4, <2>5
<1>8. CASE RecvJunk
  <2>1. PICK a \in [id : {0}, ok : BOOLEAN, h : Opt(Handle), ins : BOOLEAN] : Handler(a)
    BY <1>8 DEF RecvJunk
  <2>2. a \in Answer
    BY DEF Answer
  <2>3. ObjsType' /\ CallerType'
    BY <1>8, <2>1, <2>2, HandlerType DEF RecvJunk
  <2>4. SockType'
    BY <1>8 DEF RecvJunk, SockType
  <2>5. NetType'
    <3>1. toCli' \in Seq(Unit)
      BY <1>8, SuffixType, PartlyType DEF RecvJunk, NetType
    <3> QED BY <1>8, <3>1 DEF RecvJunk, NetType
  <2> QED BY <2>3, <2>4, <2>5
<1>9. CASE Reset
  <2>1. ObjsType' /\ SockType' /\ NetType'
    BY <1>9 DEF Reset, ObjsType, SockType, NetType, objs, net
  <2>2. CallerType'
    BY <1>9, ZenonT(40) DEF Reset, Return, CallerType, Call, Opt
  <2> QED BY <2>1, <2>2
<1>10. CASE Stop
  <2>1. ObjsType' /\ NetType'
    BY <1>10 DEF Stop, ObjsType, NetType, objs, net
  <2>2. CallerType'
    BY <1>10 DEF Stop, Return, CallerType, Call, Opt
  <2>3. SockType'
    BY <1>10, ZenonT(40) DEF Stop, SockType, Watch
  <2> QED BY <2>1, <2>2, <2>3
<1> QED
  BY <1>1, <1>2, <1>3, <1>4, <1>5, <1>6, <1>7, <1>8, <1>9, <1>10 DEF Step

\* Watchers, contexts, clock and server keep the types.
LEMMA EnvironmentType ==
  ASSUME TypeOK,
         \/ \E w \in Watcher : WatchStep(w)
         \/ \E c \in Ctx : Cancel(c) \/ TimePasses(c) \/ Expire(c)
  PROVE  TypeOK'
<1> USE DEF TypeOK
<1>1. ASSUME NEW w \in Watcher, WatchStep(w)
      PROVE  TypeOK'
  <2>1. ObjsType' /\ CallerType' /\ NetType'
    BY <1>1 DEF WatchStep, WatchFire, WatchQuit, WatchSet, ObjsType, CallerType, NetType, objs, net
  <2>2. Off \in Watch
    BY DEF Off, Watch, Opt
  <2>3. SockType'
    BY <1>1, <2>2 DEF WatchStep, WatchFire, WatchQuit, WatchSet, SockType, Watch
  <2> QED BY <2>1, <2>3
<1>2. ASSUME NEW c \in Ctx, Cancel(c) \/ TimePasses(c) \/ Expire(c)
      PROVE  TypeOK'
  <2>1. ObjsType' /\ CallerType' /\ NetType'
    BY <1>2 DEF Cancel, TimePasses, Expire, ObjsType, CallerType, NetType, objs, net
  <2>2. SockType'
    BY <1>2 DEF Cancel, TimePasses, Expire, SockType
  <2> QED BY <2>1, <2>2
<1> QED BY <1>1, <1>2

LEMMA ReplyType ==
  ASSUME NetType, toSrv # <<>>, NEW ok \in BOOLEAN, NEW h \in Opt(Handle),
         Reply(Head(toSrv), ok, h)
  PROVE  toSrv' \in Seq(Request) /\ toCli' \in Seq(Unit)
<1> DEFINE q == Head(toSrv)
           a == [id |-> q.id, ok |-> ok, h |-> h, ins |-> q.ins]
           l == [part |-> "len", a |-> a]
           b == [part |-> "body", a |-> a]
<1>1. q \in Request /\ Tail(toSrv) \in Seq(Request)
  BY HeadTailProperties DEF NetType
<1>2. a \in Answer
  BY <1>1 DEF Request, Answer
<1>3. l \in Unit /\ b \in Unit
  BY <1>2 DEF Unit
<1>4. <<l, b>> \in Seq(Unit)
  BY <1>3
<1>5. toCli \o <<l, b>> \in Seq(Unit)
  BY <1>4, ConcatProperties DEF NetType
<1> QED BY <1>1, <1>5 DEF Reply

LEMMA ServerType ==
  ASSUME TypeOK, Cas \/ Crash
  PROVE  TypeOK'
<1> USE DEF TypeOK
<1>0. None \in Opt(Handle) /\ Handle \subseteq Opt(Handle)
  BY DEF Opt
<1>1. CASE Cas
  <2>1. ObjsType' /\ CallerType' /\ SockType'
    BY <1>1, ZenonT(40) DEF Cas, CasRejects, CasAllocates, CasUses, CasSession, CasIdle,
                ObjsType, CallerType, SockType, objs
  <2>2. toSrv' \in Seq(Request) /\ toCli' \in Seq(Unit)
    <3>1. \E ok \in BOOLEAN, h \in Opt(Handle) : toSrv # <<>> /\ Reply(Head(toSrv), ok, h)
      BY <1>0, <1>1 DEF Cas, CasRejects, CasAllocates, CasUses, CasSession
    <3> QED BY <3>1, ReplyType
  <2>3. open' \subseteq Handle /\ tran' \in BOOLEAN /\ srvUp' \in BOOLEAN
    <3>1. Head(toSrv).ac \in BOOLEAN
      <4>1. toSrv # <<>>
        BY <1>1 DEF Cas, CasRejects, CasAllocates, CasUses, CasSession
      <4>2. Head(toSrv) \in Request
        BY <4>1, HeadTailProperties DEF NetType
      <4> QED BY <4>2 DEF Request
    <3> QED BY <1>1, <3>1
            DEF Cas, CasRejects, CasAllocates, CasUses, CasSession, CasIdle, NetType
  <2> QED BY <2>1, <2>2, <2>3 DEF NetType
<1>2. CASE Crash
  <2>1. ObjsType' /\ CallerType' /\ SockType'
    BY <1>2 DEF Crash, ObjsType, CallerType, SockType, objs
  <2>2. toCli' \in Seq(Unit)
    BY <1>2, SuffixType DEF Crash, NetType
  <2> QED BY <1>2, <2>1, <2>2, EmptySeq DEF Crash, NetType
<1> QED BY <1>1, <1>2

LEMMA InitType == Init => TypeOK
<1> SUFFICES ASSUME Init PROVE TypeOK
  OBVIOUS
<1>1. ObjsType
  BY DEF Init, ObjsType
<1>2. CallerType
  BY EmptySeq DEF Init, CallerType, Call, Opt, Kinds, CtxKinds
<1>3. SockType
  BY DEF Init, SockType, Off, Watch, Opt
<1>4. NetType
  BY EmptySeq DEF Init, NetType
<1> QED BY <1>1, <1>2, <1>3, <1>4 DEF TypeOK

LEMMA NextType == TypeOK /\ [Next]_vars => TypeOK'
<1> SUFFICES ASSUME TypeOK, [Next]_vars PROVE TypeOK'
  OBVIOUS
<1>1. CASE UNCHANGED vars
  BY <1>1 DEF vars, objs, net, TypeOK, ObjsType, CallerType, SockType, NetType
<1>2. CASE Next
  BY <1>2, StartType, StepType, EnvironmentType, ServerType DEF Next
<1> QED BY <1>1, <1>2

\* Whatever the calls, the server, the clock and the watchers do, the state
\* stays well typed, and a driver call (conn.go, stmt.go, rows.go, tx.go)
\* never reaches a send or a read without a round trip to make, nor returns
\* with one left over.
THEOREM TypeCorrect == Spec => []TypeOK
BY InitType, NextType, PTL DEF Spec

-----------------------------------------------------------------------------
(***************************************************************************)
(* The connection stays in step.                                           *)
(***************************************************************************)
Alone(s) == Len(s) = 1 /\ s[1].id = nreq

\* The invariant behind InStep: while no answer was given up, at most one
\* request or its answer is in flight, and it is the one the caller waits for.
OneInFlight ==
  /\ Waiting => nreq # 0
  /\ ~srvUp => toSrv = <<>>
  /\ orphaned = {} =>
       /\ ~Waiting => toSrv = <<>> /\ toCli = <<>>
       /\ pc = "len" =>
            \/ toSrv = <<>> /\ toCli = <<>>
            \/ Alone(toSrv) /\ toCli = <<>>
            \/ /\ toSrv = <<>> /\ Len(toCli) \in {1, 2}
               /\ toCli[1].part = "len" /\ toCli[1].a.id = nreq
       /\ pc = "body" => frame = nreq /\ toSrv = <<>> /\ Len(toCli) <= 1

LEMMA ShortSeq ==
  ASSUME NEW S, NEW s \in Seq(S)
  PROVE  Len(s) = 0 <=> s = <<>>
BY EmptySeq

\* Steps that touch neither the socket nor the caller's place in a read.
LEMMA SocketUntouched ==
  ASSUME OneInFlight, UNCHANGED <<toSrv, toCli, srvUp, nreq, orphaned, frame>>,
         pc' = pc \/ (~Waiting /\ ~Waiting')
  PROVE  OneInFlight'
BY DEF OneInFlight, Waiting, Alone

\* Continue and Fail leave the read.
LEMMA LeavesRead ==
  ASSUME NEW rest, NEW t, Continue(rest) \/ Fail(t)
  PROVE  ~Waiting'
BY DEF Continue, Fail, Finish, Waiting

LEMMA HandlerLeavesRead ==
  ASSUME NEW a, Handler(a)
  PROVE  ~Waiting'
<1> SUFFICES \E rest, t : Continue(rest) \/ Fail(t)
  BY LeavesRead
<1> QED
  BY DEF Handler, OnError, OnQuery, OnExec, OnStmtExec, OnStmtQuery, OnLastId, OnPrepare,
         OnEndTran, OnOther

LEMMA StartInStep ==
  ASSUME TypeOK, OneInFlight, Start
  PROVE  OneInFlight'
<1>1. ASSUME NEW kind, NEW c, NEW ins, CallCtx(kind, c, ins)
      PROVE  OneInFlight'
  <2>1. UNCHANGED <<toSrv, toCli, srvUp, nreq, orphaned, frame>>
    BY <1>1 DEF CallCtx, net
  <2>2. ~Waiting /\ ~Waiting'
    BY <1>1 DEF CallCtx, Ready, Refuse, Waiting
  <2> QED BY <2>1, <2>2, SocketUntouched
<1>2. ASSUME NEW kind, NEW ins, NEW trips,
             CallChecked(kind, ins, trips) \/ CallUnchecked(kind, trips) \/ CallBadArgs(kind)
      PROVE  OneInFlight'
  <2>1. UNCHANGED <<toSrv, toCli, srvUp, nreq, orphaned, frame>>
    BY <1>2 DEF CallChecked, CallUnchecked, CallBadArgs, Quiet, net
  <2>2. ~Waiting /\ ~Waiting'
    BY <1>2 DEF CallChecked, CallUnchecked, CallBadArgs, Ready, Refuse, Enter, Waiting
  <2> QED BY <2>1, <2>2, SocketUntouched
<1>3. CASE Begin
  <2>1. UNCHANGED <<toSrv, toCli, srvUp, nreq, orphaned, frame, pc>>
    BY <1>3 DEF Begin, Refuse, Quiet, net
  <2> QED BY <2>1, SocketUntouched
<1>4. CASE Close
  BY <1>4 DEF Close, Ready, Refuse, OneInFlight, Waiting
<1>5. CASE \E h \in Handle : \/ \E ins \in BOOLEAN : StmtExec(h, ins) \/ StmtExecArgs(h, ins)
                             \/ StmtQuery(h) \/ StmtQueryArgs(h)
  BY <1>2, <1>5 DEF StmtExec, StmtExecArgs, StmtQuery, StmtQueryArgs
<1>6. CASE \E h \in Handle : StmtClose(h) \/ RowsFetch(h) \/ RowsClose(h)
  BY <1>2, <1>6 DEF StmtClose, RowsFetch, RowsClose
<1>7. CASE Prepare \/ Ping \/ ServerVersion \/ EndTran
  BY <1>2, <1>7 DEF Prepare, Ping, ServerVersion, EndTran
<1>8. CASE \E h \in Handle : RowsForget(h)
  <2>1. UNCHANGED <<toSrv, toCli, srvUp, nreq, orphaned, frame, pc>>
    BY <1>8 DEF RowsForget, Quiet, net
  <2> QED BY <2>1, SocketUntouched
<1> QED BY <1>1, <1>3, <1>4, <1>5, <1>6, <1>7, <1>8 DEF Start

LEMMA StepInStep ==
  ASSUME TypeOK, OneInFlight, Step \/ RecvJunk
  PROVE  OneInFlight'
<1>0. toSrv \in Seq(Request) /\ toCli \in Seq(Unit) /\ nreq \in Nat
  BY DEF TypeOK, NetType, SockType
<1>1. CASE Check
  <2>1. UNCHANGED <<toSrv, toCli, srvUp, nreq, orphaned, frame>>
    BY <1>1 DEF Check, Quiet, net
  <2>2. ~Waiting /\ ~Waiting'
    BY <1>1 DEF Check, Continue, Finish, Waiting
  <2> QED BY <2>1, <2>2, SocketUntouched
<1>2. CASE Send
  <2> DEFINE q == [id |-> nreq + 1, fc |-> Head(todo).fc, h |-> Head(todo).h,
                   ac |-> autoCommit \/ Head(todo).fc = "VERSION",
                   ins |-> call.ins /\ Head(todo).fc = "PAE"]
  <2>1. pc' = "len" /\ nreq' = nreq + 1 /\ UNCHANGED <<toCli, srvUp, orphaned>>
        /\ toSrv' = IF srvUp THEN Append(toSrv, q) ELSE toSrv
    BY <1>2 DEF Send
  <2>2. orphaned = {} => toSrv = <<>> /\ toCli = <<>>
    BY <1>2 DEF Send, OneInFlight, Waiting
  <2>3. Len(Append(<<>>, q)) = 1 /\ Append(<<>>, q)[1].id = nreq + 1
    OBVIOUS
  <2> QED BY <1>0, <2>1, <2>2, <2>3 DEF OneInFlight, Waiting, Alone
<1>3. CASE SendFail
  <2>1. UNCHANGED <<toSrv, toCli, srvUp, nreq, orphaned, frame>>
    BY <1>3 DEF SendFail, Quiet, net
  <2>2. ~Waiting /\ ~Waiting'
    BY <1>3, LeavesRead DEF SendFail, Waiting
  <2> QED BY <2>1, <2>2, SocketUntouched
<1>4. CASE RecvLen
  <2>1. pc = "len" /\ pc' = "body" /\ toCli # <<>> /\ UNCHANGED <<toSrv, srvUp, nreq, orphaned>>
    BY <1>4 DEF RecvLen
  <2>2. ASSUME orphaned = {}
        PROVE  frame' = nreq /\ toSrv = <<>> /\ Len(toCli') <= 1
    <3>1. toSrv = <<>> /\ Len(toCli) \in {1, 2} /\ toCli[1].part = "len" /\ toCli[1].a.id = nreq
      BY <2>1, <2>2 DEF OneInFlight, Waiting
    <3>2. Head(toCli) = toCli[1] /\ Len(Tail(toCli)) = Len(toCli) - 1
      BY <1>0, <2>1, HeadTailProperties
    <3> QED BY <1>4, <3>1, <3>2 DEF RecvLen
  <2> QED BY <2>1, <2>2 DEF OneInFlight, Waiting
<1>5. CASE RecvTimeout
  <2>1. ~Waiting' /\ orphaned' # {} /\ UNCHANGED <<toSrv, srvUp, nreq>>
    BY <1>5, LeavesRead DEF RecvTimeout
  <2> QED BY <2>1 DEF OneInFlight
<1>6. CASE RecvEOF
  <2>1. ~Waiting' /\ toCli' = <<>> /\ ~srvUp /\ UNCHANGED <<toSrv, srvUp, nreq, orphaned>>
    BY <1>6, LeavesRead DEF RecvEOF
  <2> QED BY <2>1 DEF OneInFlight, Waiting
<1>7. CASE RecvBody
  <2>1. ~Waiting' /\ toCli' = Tail(toCli) /\ toCli # <<>> /\ pc = "body"
        /\ UNCHANGED <<toSrv, srvUp, nreq>>
        /\ orphaned' = IF frame = nreq THEN orphaned ELSE orphaned \cup {nreq}
    BY <1>7, HandlerLeavesRead DEF RecvBody
  <2>2. ASSUME orphaned' = {}
        PROVE  toSrv = <<>> /\ toCli' = <<>>
    <3>1. orphaned = {}
      BY <2>1, <2>2
    <3>2. toSrv = <<>> /\ Len(toCli) <= 1
      BY <2>1, <3>1 DEF OneInFlight, Waiting
    <3>3. Tail(toCli) \in Seq(Unit) /\ Len(Tail(toCli)) = 0
      <4>1. Len(toCli) \in Nat \ {0}
        BY <1>0, <2>1, EmptySeq
      <4>2. Tail(toCli) \in Seq(Unit) /\ Len(Tail(toCli)) = Len(toCli) - 1
        BY <1>0, <2>1, HeadTailProperties
      <4> QED BY <3>2, <4>1, <4>2
    <3> QED BY <2>1, <3>2, <3>3, ShortSeq
  <2> QED BY <2>1, <2>2 DEF OneInFlight, Waiting
<1>8. CASE RecvJunk
  <2>1. ~Waiting' /\ orphaned' # {} /\ UNCHANGED <<toSrv, srvUp, nreq>>
    BY <1>8, HandlerLeavesRead DEF RecvJunk
  <2> QED BY <2>1 DEF OneInFlight
<1>9. CASE Reset \/ Stop
  <2>1. UNCHANGED <<toSrv, toCli, srvUp, nreq, orphaned, frame>>
    BY <1>9 DEF Reset, Stop, net
  <2>2. ~Waiting /\ ~Waiting'
    BY <1>9 DEF Reset, Stop, Return, Waiting
  <2> QED BY <2>1, <2>2, SocketUntouched
<1> QED
  BY <1>1, <1>2, <1>3, <1>4, <1>5, <1>6, <1>7, <1>8, <1>9 DEF Step

LEMMA ServerInStep ==
  ASSUME TypeOK, OneInFlight, Cas \/ Crash
  PROVE  OneInFlight'
<1>0. toSrv \in Seq(Request) /\ toCli \in Seq(Unit)
  BY DEF TypeOK, NetType
<1>1. CASE Cas
  <2>1. srvUp /\ toSrv # <<>> /\ UNCHANGED <<pc, frame, nreq, srvUp, orphaned>>
    BY <1>1 DEF Cas, CasRejects, CasAllocates, CasUses, CasSession, CasIdle
  <2>2. PICK ok, h : Reply(Head(toSrv), ok, h)
    BY <1>1 DEF Cas, CasRejects, CasAllocates, CasUses, CasSession
  <2>3. ASSUME orphaned = {}
        PROVE  /\ pc = "len" /\ toSrv' = <<>>
               /\ Len(toCli') = 2 /\ toCli'[1].part = "len" /\ toCli'[1].a.id = nreq
    <3> DEFINE a == [id |-> Head(toSrv).id, ok |-> ok, h |-> h, ins |-> Head(toSrv).ins]
               l == [part |-> "len", a |-> a]
               b == [part |-> "body", a |-> a]
    <3>1. pc = "len" /\ Alone(toSrv) /\ toCli = <<>>
      BY <2>1, <2>3 DEF OneInFlight, Waiting, TypeOK, CallerType
    <3>2. Head(toSrv) = toSrv[1] /\ Tail(toSrv) \in Seq(Request) /\ Len(Tail(toSrv)) = Len(toSrv) - 1
      BY <1>0, <2>1, HeadTailProperties
    <3>3. Tail(toSrv) = <<>>
      <4>1. Len(Tail(toSrv)) = 0
        BY <3>1, <3>2 DEF Alone
      <4> QED BY <3>2, <4>1, ShortSeq
    <3>4. <<>> \o <<l, b>> = <<l, b>>
      <4>1. <<l, b>> \in Seq({l, b})
        OBVIOUS
      <4> QED BY <4>1, ConcatEmptySeq
    <3>5. toCli' = <<l, b>>
      BY <2>2, <3>1, <3>4 DEF Reply
    <3>6. a.id = nreq
      BY <3>1, <3>2 DEF Alone
    <3> QED BY <2>2, <3>1, <3>3, <3>5, <3>6 DEF Reply
  <2> QED BY <2>1, <2>3 DEF OneInFlight, Waiting
<1>2. CASE Crash
  <2>1. toSrv' = <<>> /\ UNCHANGED <<pc, frame, nreq, orphaned>>
    BY <1>2 DEF Crash
  <2>2. PICK k \in 0..Len(toCli) : toCli' = SubSeq(toCli, 1, k)
    BY <1>2 DEF Crash
  <2>3. toCli' \in Seq(Unit) /\ Len(toCli') = k /\ Len(toCli) \in Nat
        /\ \A i \in 1..k : toCli'[i] = toCli[i]
    BY <1>0, <2>2, SuffixType, LenProperties
  <2>4. k = 0 => toCli' = <<>>
    BY <2>3, ShortSeq
  <2>5. toCli = <<>> => k = 0
    BY <1>0, <2>2, ShortSeq
  <2>6. ASSUME orphaned = {}, pc = "len", k # 0
        PROVE  Len(toCli') \in {1, 2} /\ toCli'[1].part = "len" /\ toCli'[1].a.id = nreq
    <3>1. Len(toCli) \in {1, 2} /\ toCli[1].part = "len" /\ toCli[1].a.id = nreq
      BY <2>5, <2>6 DEF OneInFlight, Waiting
    <3> QED BY <2>2, <2>3, <2>6, <3>1
  <2>7. ASSUME orphaned = {}, ~Waiting
        PROVE  toCli' = <<>>
    BY <2>4, <2>5, <2>7 DEF OneInFlight
  <2>8. ASSUME orphaned = {}, pc = "body"
        PROVE  frame = nreq /\ Len(toCli') <= 1
    BY <2>2, <2>3, <2>8 DEF OneInFlight
  <2> QED BY <2>1, <2>4, <2>6, <2>7, <2>8 DEF OneInFlight, Waiting
<1> QED BY <1>1, <1>2

LEMMA NextInStep == TypeOK /\ OneInFlight /\ [Next]_vars => OneInFlight'
<1> SUFFICES ASSUME TypeOK, OneInFlight, [Next]_vars PROVE OneInFlight'
  OBVIOUS
<1>1. CASE UNCHANGED vars
  BY <1>1, SocketUntouched DEF vars, net
<1>2. CASE \/ \E w \in Watcher : WatchStep(w)
           \/ \E c \in Ctx : Cancel(c) \/ TimePasses(c) \/ Expire(c)
  BY <1>2, SocketUntouched
     DEF WatchStep, WatchFire, WatchQuit, WatchSet, Cancel, TimePasses, Expire, net
<1>3. CASE Next
  BY <1>2, <1>3, StartInStep, StepInStep, ServerInStep DEF Next
<1> QED BY <1>1, <1>3

\* sendAndRecv keeps requests and answers paired on every path of the driver,
\* whatever fails and whatever is cancelled, until the first read that is
\* given up at its deadline: up to then a call reads the answer to its own
\* request, and nothing is in flight between round trips.
THEOREM StaysInStep == Spec => []InStep
<1>1. Init => OneInFlight
  BY DEF Init, OneInFlight, Waiting
<1>2. OneInFlight => InStep
  BY DEF OneInFlight, InStep
<1> QED BY <1>1, <1>2, InitType, NextType, NextInStep, PTL DEF Spec

-----------------------------------------------------------------------------
(***************************************************************************)
(* Deadlines left on the socket.                                           *)
(***************************************************************************)

\* The invariant behind StaleDeadlineOnlyByCancel: a watcher that is about to
\* set the deadline saw its context done, and outside a call with a context
\* (or once it ran its deferred reset) only such a watcher set it.
DeadlineOwned ==
  /\ \A w \in Watcher : watch[w].st = "fire" => \E c \in Ctx : ctx[c] = "done"
  /\ (call.ctx = None \/ pc = "stop") /\ deadline # "zero" =>
       deadline = "past" /\ \E c \in Ctx : ctx[c] = "done"
  /\ pc = "idle" => call.ctx = None

\* Steps that leave deadline, contexts and watchers alone and move the caller
\* on within its call.
LEMMA SameCall ==
  ASSUME DeadlineOwned, UNCHANGED <<deadline, ctx, watch>>, call'.ctx = call.ctx,
         pc' # "stop", pc' = "idle" => call.ctx = None
  PROVE  DeadlineOwned'
BY DEF DeadlineOwned

LEMMA ContinueInCall ==
  ASSUME NEW rest, Continue(rest)
  PROVE  pc' # "stop" /\ (pc' = "idle" => call.ctx = None)
BY DEF Continue, Finish

LEMMA FailInCall ==
  ASSUME call \in Call, NEW t, Fail(t)
  PROVE  call'.ctx = call.ctx /\ pc' # "stop" /\ (pc' = "idle" => call.ctx = None)
BY ContinueInCall DEF Fail, Call

LEMMA HandlerInCall ==
  ASSUME call \in Call, NEW a, Handler(a)
  PROVE  call'.ctx = call.ctx /\ pc' # "stop" /\ (pc' = "idle" => call.ctx = None)
<1>1. CASE OnError(a)
  BY <1>1, FailInCall DEF OnError
<1>2. CASE ~OnError(a)
  <2>1. call'.ctx = call.ctx
    BY <1>2 DEF Handler, OnQuery, OnExec, OnStmtExec, OnStmtQuery, OnLastId, OnPrepare,
                OnEndTran, OnOther, Call
  <2>2. \E rest : Continue(rest)
    BY <1>2 DEF Handler, OnQuery, OnExec, OnStmtExec, OnStmtQuery, OnLastId, OnPrepare,
                OnEndTran, OnOther
  <2> QED BY <2>1, <2>2, ContinueInCall
<1> QED BY <1>1, <1>2

\* A call without a context, or one that is refused, starts from idle.
LEMMA StartDeadline ==
  ASSUME TypeOK, DeadlineOwned, Start
  PROVE  DeadlineOwned'
<1>0. None \notin Ctx
  BY ConnAssumption
<1>1. ASSUME NEW kind, NEW c \in Ctx, NEW ins, CallCtx(kind, c, ins)
      PROVE  DeadlineOwned'
  <2>1. CASE \E err : Refuse(kind, err) /\ UNCHANGED <<deadline, watch>>
    BY <1>1, <2>1 DEF CallCtx, DeadlineOf, Ready, Refuse, DeadlineOwned
  <2>2. CASE pc' = "check" /\ call'.ctx = c
    <3> DEFINE on == [st |-> "select", ctx |-> c, stop |-> FALSE]
    <3>1. watch' = watch \/ \E w \in Watcher : watch' = [watch EXCEPT ![w] = on]
      BY <1>1 DEF CallCtx, DeadlineOf
    <3>2. UNCHANGED ctx
      BY <1>1 DEF CallCtx, DeadlineOf
    <3>3. \A w \in Watcher : watch'[w].st = "fire" => watch[w].st = "fire"
      BY <3>1 DEF TypeOK, SockType
    <3> QED BY <1>0, <2>2, <3>2, <3>3 DEF DeadlineOwned
  <2> QED BY <1>1, <2>1, <2>2 DEF CallCtx
<1>2. ASSUME NEW kind, NEW ins, NEW trips,
             CallChecked(kind, ins, trips) \/ CallUnchecked(kind, trips) \/ CallBadArgs(kind)
      PROVE  DeadlineOwned'
  BY <1>2 DEF CallChecked, CallUnchecked, CallBadArgs, Ready, Refuse, Enter, Quiet, DeadlineOwned
<1>3. CASE Begin \/ Close
  BY <1>3 DEF Begin, Close, Ready, Refuse, Quiet, DeadlineOwned
<1>5. CASE \E h \in Handle : \/ \E ins \in BOOLEAN : StmtExec(h, ins) \/ StmtExecArgs(h, ins)
                             \/ StmtQuery(h) \/ StmtQueryArgs(h)
  BY <1>2, <1>5 DEF StmtExec, StmtExecArgs, StmtQuery, StmtQueryArgs
<1>6. CASE \E h \in Handle : StmtClose(h) \/ RowsFetch(h) \/ RowsClose(h)
  BY <1>2, <1>6 DEF StmtClose, RowsFetch, RowsClose
<1>7. CASE Prepare \/ Ping \/ ServerVersion \/ EndTran
  BY <1>2, <1>7 DEF Prepare, Ping, ServerVersion, EndTran
<1>8. CASE \E h \in Handle : RowsForget(h)
  BY <1>8 DEF RowsForget, Quiet, DeadlineOwned
<1> QED BY <1>1, <1>3, <1>5, <1>6, <1>7, <1>8 DEF Start

LEMMA StepDeadline ==
  ASSUME TypeOK, DeadlineOwned, Step \/ RecvJunk
  PROVE  DeadlineOwned'
<1>0. call \in Call
  BY DEF TypeOK, CallerType
<1>1. CASE Check
  <2>1. call'.ctx = call.ctx /\ UNCHANGED <<deadline, ctx, watch>>
    BY <1>0, <1>1 DEF Check, Quiet, Call
  <2>2. pc' = "send" \/ \E rest : Continue(rest)
    BY <1>1 DEF Check
  <2> QED BY <2>1, <2>2, ContinueInCall, SameCall
<1>2. CASE Send \/ RecvLen
  BY <1>2, SameCall DEF Send, RecvLen
<1>3. CASE SendFail \/ RecvTimeout \/ RecvEOF
  <2>1. UNCHANGED <<deadline, ctx, watch>> /\ Fail(TRUE)
    BY <1>3 DEF SendFail, RecvTimeout, RecvEOF, Quiet
  <2> QED BY <1>0, <2>1, FailInCall, SameCall
<1>4. CASE RecvBody \/ RecvJunk
  <2>1. UNCHANGED <<deadline, ctx, watch>> /\ \E a : Handler(a)
    BY <1>4 DEF RecvBody, RecvJunk
  <2> QED BY <1>0, <2>1, HandlerInCall, SameCall
<1>5. CASE Reset
  BY <1>0, <1>5 DEF Reset, Return, DeadlineOwned, Call
<1>6. CASE Stop
  <2>1. call'.ctx = None /\ pc = "stop" /\ pc' = "idle" /\ UNCHANGED <<deadline, ctx>>
    BY <1>0, <1>6 DEF Stop, Return, Call
  <2>2. \A w \in Watcher : watch'[w].st = watch[w].st
    BY <1>6 DEF Stop, TypeOK, SockType, Watch
  <2> QED BY <2>1, <2>2 DEF DeadlineOwned
<1> QED BY <1>1, <1>2, <1>3, <1>4, <1>5, <1>6 DEF Step

LEMMA EnvironmentDeadline ==
  ASSUME TypeOK, DeadlineOwned,
         \/ \E w \in Watcher : WatchStep(w)
         \/ \E c \in Ctx : Cancel(c) \/ TimePasses(c) \/ Expire(c)
  PROVE  DeadlineOwned'
<1>0. watch \in [Watcher -> Watch] /\ ctx \in [Ctx -> {"live", "due", "done"}] /\ None \notin Ctx
  BY ConnAssumption DEF TypeOK, SockType
<1>1. ASSUME NEW w \in Watcher, WatchStep(w)
      PROVE  DeadlineOwned'
  <2>0. watch[w].ctx \in Opt(Ctx)
    BY <1>0 DEF Watch
  <2>1. CASE WatchFire(w)
    <3>1. \E c \in Ctx : ctx[c] = "done"
      BY <2>0, <2>1 DEF WatchFire, CtxDone, Opt
    <3> QED BY <2>1, <3>1 DEF WatchFire, DeadlineOwned
  <2>2. CASE WatchQuit(w)
    <3>1. \A v \in Watcher : watch'[v].st = "fire" => watch[v].st = "fire"
      BY <1>0, <2>2 DEF WatchQuit, Off
    <3> QED BY <2>2, <3>1 DEF WatchQuit, DeadlineOwned
  <2>3. CASE WatchSet(w)
    <3>1. \A v \in Watcher : watch'[v].st = "fire" => watch[v].st = "fire"
      BY <1>0, <2>3 DEF WatchSet, Off
    <3> QED BY <2>3, <3>1 DEF WatchSet, DeadlineOwned
  <2> QED BY <1>1, <2>1, <2>2, <2>3 DEF WatchStep
<1>2. ASSUME NEW c \in Ctx, Cancel(c) \/ Expire(c)
      PROVE  DeadlineOwned'
  <2>1. \E d \in Ctx : ctx'[d] = "done"
    BY <1>0, <1>2 DEF Cancel, Expire
  <2> QED BY <1>2, <2>1 DEF Cancel, Expire, DeadlineOwned
<1>3. ASSUME NEW c \in Ctx, TimePasses(c)
      PROVE  DeadlineOwned'
  <2>1. \A d \in Ctx : ctx[d] = "done" => ctx'[d] = "done"
    BY <1>0, <1>3 DEF TimePasses
  <2> QED BY <1>0, <1>3, <2>1 DEF TimePasses, DeadlineOwned
<1> QED BY <1>1, <1>2, <1>3

LEMMA NextDeadline == TypeOK /\ DeadlineOwned /\ [Next]_vars => DeadlineOwned'
<1> SUFFICES ASSUME TypeOK, DeadlineOwned, [Next]_vars PROVE DeadlineOwned'
  OBVIOUS
<1>1. CASE UNCHANGED vars
  BY <1>1 DEF vars, DeadlineOwned
<1>2. CASE Cas \/ Crash
  BY <1>2 DEF Cas, CasRejects, CasAllocates, CasUses, CasSession, CasIdle, Crash, DeadlineOwned
<1>3. CASE Next
  BY <1>2, <1>3, StartDeadline, StepDeadline, EnvironmentDeadline DEF Next
<1> QED BY <1>1, <1>3

\* A deadline that is left on an idle socket has passed, and some context is
\* done; the deadline of a context never outlives its call (the deferred
\* SetDeadline of QueryContext and ExecContext).
THEOREM StaleDeadlineNeedsCancel == Spec => []StaleDeadlineOnlyByCancel
<1>1. Init => DeadlineOwned
  BY DEF Init, DeadlineOwned, Off
<1>2. DeadlineOwned => StaleDeadlineOnlyByCancel
  BY ConnAssumption DEF DeadlineOwned, StaleDeadlineOnlyByCancel, CtxDone
<1> QED BY <1>1, <1>2, InitType, NextType, NextDeadline, PTL DEF Spec

-----------------------------------------------------------------------------
(***************************************************************************)
(* Elements of sequences.                                                  *)
(***************************************************************************)

LEMMA DomainOf == ASSUME NEW S, NEW s \in Seq(S) PROVE DOMAIN s = 1..Len(s) /\ Len(s) \in Nat
OBVIOUS

LEMMA TailFacts ==
  ASSUME NEW S, NEW s \in Seq(S), s # <<>>
  PROVE  /\ 1 \in DOMAIN s /\ Head(s) = s[1] /\ s[1] \in S
         /\ Tail(s) \in Seq(S) /\ Len(Tail(s)) = Len(s) - 1
         /\ \A i \in DOMAIN Tail(s) : i \in Nat \ {0} /\ i + 1 \in DOMAIN s /\ Tail(s)[i] = s[i + 1]
<1>1. Len(s) \in Nat /\ Len(s) # 0 /\ DOMAIN s = 1..Len(s)
  BY EmptySeq
<1>2. Head(s) = s[1] /\ Tail(s) \in Seq(S) /\ Len(Tail(s)) = Len(s) - 1
      /\ \A i \in 1..Len(Tail(s)) : Tail(s)[i] = s[i + 1]
  BY HeadTailProperties
<1>3. DOMAIN Tail(s) = 1..Len(Tail(s)) /\ s[1] \in S
  BY <1>1, <1>2
<1> QED BY <1>1, <1>2, <1>3

LEMMA AppendFacts ==
  ASSUME NEW S, NEW s \in Seq(S), NEW x \in S
  PROVE  /\ Append(s, x) \in Seq(S)
         /\ \A i \in DOMAIN Append(s, x) :
              \/ i \in DOMAIN s /\ Append(s, x)[i] = s[i]
              \/ i \notin DOMAIN s /\ i = Len(s) + 1 /\ Append(s, x)[i] = x
<1>1. Append(s, x) \in Seq(S) /\ Len(Append(s, x)) = Len(s) + 1
      /\ DOMAIN Append(s, x) = 1..(Len(s) + 1) /\ DOMAIN s = 1..Len(s) /\ Len(s) \in Nat
      /\ \A i \in 1..Len(s) : Append(s, x)[i] = s[i]
      /\ Append(s, x)[Len(s) + 1] = x
  OBVIOUS
<1> QED BY <1>1

LEMMA PairFacts ==
  ASSUME NEW S, NEW s \in Seq(S), NEW x \in S, NEW y \in S
  PROVE  /\ s \o <<x, y>> \in Seq(S) /\ Len(s \o <<x, y>>) = Len(s) + 2
         /\ \A i \in DOMAIN (s \o <<x, y>>) :
              \/ i \in DOMAIN s /\ (s \o <<x, y>>)[i] = s[i]
              \/ i \notin DOMAIN s /\ i = Len(s) + 1 /\ (s \o <<x, y>>)[i] = x
              \/ i \notin DOMAIN s /\ i = Len(s) + 2 /\ (s \o <<x, y>>)[i] = y
<1> DEFINE p == <<x, y>>
<1>1. p \in Seq(S) /\ Len(p) = 2 /\ p[1] = x /\ p[2] = y
  OBVIOUS
<1> HIDE DEF p
<1>0. s \o p \in Seq(S) /\ Len(s \o p) = Len(s) + Len(p)
      /\ \A i \in 1..(Len(s) + Len(p)) : (s \o p)[i] = IF i <= Len(s) THEN s[i] ELSE p[i - Len(s)]
  BY <1>1, ConcatProperties
<1>2. s \o p \in Seq(S) /\ Len(s \o p) = Len(s) + 2 /\ Len(s) \in Nat
      /\ \A i \in 1..(Len(s) + 2) : (s \o p)[i] = IF i <= Len(s) THEN s[i] ELSE p[i - Len(s)]
  BY <1>0, <1>1
<1>3. DOMAIN (s \o p) = 1..(Len(s) + 2) /\ DOMAIN s = 1..Len(s)
  BY <1>2
<1>4. ASSUME NEW i \in 1..(Len(s) + 2)
      PROVE  \/ i \in 1..Len(s) /\ (s \o p)[i] = s[i]
             \/ i \notin 1..Len(s) /\ i = Len(s) + 1 /\ (s \o p)[i] = x
             \/ i \notin 1..Len(s) /\ i = Len(s) + 2 /\ (s \o p)[i] = y
  <2>1. i <= Len(s) \/ i = Len(s) + 1 \/ i = Len(s) + 2
    BY <1>2
  <2> QED BY <1>1, <1>2, <2>1
<1> QED BY <1>2, <1>3, <1>4 DEF p

LEMMA TornFacts ==
  ASSUME NEW s \in Seq(Unit), s # <<>>
  PROVE  /\ Torn(s) \in Seq(Unit) /\ DOMAIN Torn(s) = DOMAIN s
         /\ \A i \in DOMAIN s : /\ Torn(s)[i].a = s[i].a
                                /\ Torn(s)[i].part = "len" => s[i].part = "len"
BY TornType DEF Torn

\* What is left of the input: its units, or what remains of them.
LEMMA PartlyFacts ==
  ASSUME NEW s \in Seq(Unit), NEW t \in Partly(s)
  PROVE  t \in Seq(Unit) /\ \A i \in DOMAIN t : \E j \in DOMAIN s : t[i].a = s[j].a
BY TornFacts DEF Partly

LEMMA SuffixFacts ==
  ASSUME NEW s \in Seq(Unit), NEW k \in 0..Len(s)
  PROVE  /\ SubSeq(s, k + 1, Len(s)) \in Seq(Unit)
         /\ \A i \in DOMAIN SubSeq(s, k + 1, Len(s)) :
              \E j \in DOMAIN s : SubSeq(s, k + 1, Len(s))[i] = s[j]
<1> DEFINE u == SubSeq(s, k + 1, Len(s))
<1>1. Len(s) \in Nat /\ DOMAIN s = 1..Len(s) /\ u \in Seq(Unit) /\ \A i \in 1..Len(s) : s[i] \in Unit
  BY SuffixType, ElementOfSeq
<1> DEFINE n == Len(s)
           m == k + 1
<1>2. k \in Nat /\ n \in Nat /\ m \in Int /\ k <= n /\ u = SubSeq(s, m, n) /\ DOMAIN s = 1..n
      /\ \A i \in m..n : s[i] \in Unit
  BY <1>1
<1>3. k + 1 = m
  OBVIOUS
<1> HIDE DEF u, m, n
<1>4. Len(u) = (IF m <= n THEN n - m + 1 ELSE 0) /\ \A i \in 1..(n - m + 1) : u[i] = s[m + i - 1]
  BY <1>2, SubSeqProperties
<1>5. DOMAIN u = 1..Len(u)
  BY <1>1
<1>6. ASSUME NEW i \in DOMAIN u
      PROVE  m + i - 1 \in DOMAIN s /\ u[i] = s[m + i - 1]
  <2>1. i \in 1..(n - m + 1)
    BY <1>2, <1>4, <1>5
  <2>2. m + i - 1 \in 1..n
    BY <1>2, <1>3, <2>1
  <2> QED BY <1>2, <1>4, <2>1, <2>2
<1> QED BY <1>1, <1>6 DEF u, m, n

-----------------------------------------------------------------------------
(***************************************************************************)
(* No answer is left unread.                                               *)
(***************************************************************************)

\* Requests and answers carry the number of a request that was written; it is
\* the current one, or one whose call is over without its answer.
Numbered(id) == id <= nreq /\ (id \in orphaned \/ (Waiting /\ id = nreq))

\* Before a length is read, the current request is waiting for its answer, or
\* the two units of the answer are on their way, one after the other.
OneAnswer ==
  /\ \A i, j \in DOMAIN toSrv : toSrv[i].id = nreq /\ toSrv[j].id = nreq => i = j
  /\ \A i \in DOMAIN toSrv, j \in DOMAIN toCli : toSrv[i].id = nreq => toCli[j].a.id # nreq
  /\ \A i, j \in DOMAIN toCli :
       toCli[i].a.id = nreq /\ toCli[i].part = "len" /\ toCli[j].a.id = nreq => j \in {i, i + 1}

\* Once the length of its own answer is read, its body is all that is left.
OneBody ==
  /\ \A i \in DOMAIN toSrv : toSrv[i].id # nreq
  /\ \A i \in DOMAIN toCli : toCli[i].a.id = nreq => i = 1

\* The invariant behind OnlyOrphansLinger.
Lingering ==
  /\ \A i \in DOMAIN toSrv : Numbered(toSrv[i].id)
  /\ \A i \in DOMAIN toCli : Numbered(toCli[i].a.id)
  /\ pc = "len" => OneAnswer
  /\ pc = "body" /\ frame = nreq => OneBody

\* Starting a call touches the socket only if the call is Close.
LEMMA StartSocket ==
  ASSUME Start
  PROVE  /\ pc = "idle" /\ pc' \in {"idle", "check", "send"} /\ UNCHANGED <<frame, nreq, orphaned>>
         /\ \/ UNCHANGED <<toSrv, toCli, srvUp, open, tran>>
            \/ toSrv' = <<>> /\ toCli' = <<>> /\ ~srvUp'
<1> DEFINE P == /\ pc = "idle" /\ pc' \in {"idle", "check", "send"} /\ UNCHANGED <<frame, nreq, orphaned>>
                /\ \/ UNCHANGED <<toSrv, toCli, srvUp, open, tran>>
                   \/ toSrv' = <<>> /\ toCli' = <<>> /\ ~srvUp'
<1>1. ASSUME NEW kind, NEW c, NEW ins, CallCtx(kind, c, ins) PROVE P
  BY <1>1 DEF CallCtx, Ready, Refuse, net
<1>2. ASSUME NEW kind, NEW ins, NEW trips,
             CallChecked(kind, ins, trips) \/ CallUnchecked(kind, trips) \/ CallBadArgs(kind)
      PROVE  P
  BY <1>2 DEF CallChecked, CallUnchecked, CallBadArgs, Ready, Refuse, Enter, Quiet, net
<1>3. CASE Begin \/ Close
  BY <1>3 DEF Begin, Close, Ready, Refuse, Quiet, net
<1>5. CASE \E h \in Handle : \/ \E ins \in BOOLEAN : StmtExec(h, ins) \/ StmtExecArgs(h, ins)
                             \/ StmtQuery(h) \/ StmtQueryArgs(h)
  BY <1>2, <1>5 DEF StmtExec, StmtExecArgs, StmtQuery, StmtQueryArgs
<1>6. CASE \E h \in Handle : StmtClose(h) \/ RowsFetch(h) \/ RowsClose(h)
  BY <1>2, <1>6 DEF StmtClose, RowsFetch, RowsClose
<1>7. CASE Prepare \/ Ping \/ ServerVersion \/ EndTran
  BY <1>2, <1>7 DEF Prepare, Ping, ServerVersion, EndTran
<1>8. CASE \E h \in Handle : RowsForget(h)
  BY <1>8 DEF RowsForget, Quiet, net
<1> QED BY <1>1, <1>3, <1>5, <1>6, <1>7, <1>8 DEF Start

\* The server answers its first request.
LEMMA CasSocket ==
  ASSUME TypeOK, Cas
  PROVE  \E a \in Answer :
           /\ srvUp /\ toSrv # <<>> /\ a.id = toSrv[1].id
           /\ toSrv' = Tail(toSrv) /\ CasIdle
           /\ toCli' = toCli \o <<[part |-> "len", a |-> a], [part |-> "body", a |-> a]>>
<1>1. PICK ok \in BOOLEAN, h \in Opt(Handle) : Reply(Head(toSrv), ok, h)
  BY DEF Cas, CasRejects, CasAllocates, CasUses, CasSession, Opt
<1>2. srvUp /\ toSrv # <<>> /\ CasIdle
  BY DEF Cas, CasRejects, CasAllocates, CasUses, CasSession
<1> DEFINE a == [id |-> Head(toSrv).id, ok |-> ok, h |-> h, ins |-> Head(toSrv).ins]
<1>3. Head(toSrv) = toSrv[1] /\ toSrv[1] \in Request
  BY <1>2, TailFacts DEF TypeOK, NetType
<1>4. a \in Answer /\ a.id = toSrv[1].id
  BY <1>3 DEF Request, Answer
<1> QED BY <1>1, <1>2, <1>4 DEF Reply

LEMMA StepLingers ==
  ASSUME TypeOK, OneInFlight, Lingering, Step \/ RecvJunk
  PROVE  Lingering'
<1>0. toSrv \in Seq(Request) /\ toCli \in Seq(Unit) /\ nreq \in Nat /\ (Waiting => nreq # 0)
  BY DEF TypeOK, NetType, SockType, OneInFlight
<1>1. CASE UNCHANGED <<toSrv, toCli, nreq, orphaned, frame>> /\ ~Waiting /\ ~Waiting'
  BY <1>1 DEF Lingering, Waiting, Numbered
<1>2. CASE Check \/ SendFail \/ Reset \/ Stop
  <2>1. UNCHANGED <<toSrv, toCli, nreq, orphaned, frame>>
    BY <1>2 DEF Check, SendFail, Reset, Stop, Quiet, net
  <2>2. ~Waiting /\ ~Waiting'
    BY <1>2, LeavesRead DEF Check, SendFail, Reset, Stop, Continue, Finish, Return, Waiting
  <2> QED BY <1>1, <2>1, <2>2
<1>3. CASE Send
  <2> DEFINE q == [id |-> nreq + 1, fc |-> Head(todo).fc, h |-> Head(todo).h,
                   ac |-> autoCommit \/ Head(todo).fc = "VERSION",
                   ins |-> call.ins /\ Head(todo).fc = "PAE"]
  <2>1. /\ pc = "send" /\ pc' = "len" /\ nreq' = nreq + 1 /\ UNCHANGED <<toCli, orphaned>>
        /\ toSrv' = toSrv \/ toSrv' = Append(toSrv, q)
    BY <1>3 DEF Send
  <2>2. q \in [id : {nreq + 1}, fc : {q.fc}, h : {q.h}, ac : {q.ac}, ins : {q.ins}]
    OBVIOUS
  <2>3. \A i \in DOMAIN toSrv' : \/ i \in DOMAIN toSrv /\ toSrv'[i] = toSrv[i]
                                 \/ i \notin DOMAIN toSrv /\ i = Len(toSrv) + 1 /\ toSrv'[i].id = nreq + 1
    <3>1. toSrv \in Seq(Request \cup {q})
      BY <1>0
    <3> QED BY <2>1, <3>1, AppendFacts
  <2>4. /\ \A i \in DOMAIN toSrv : toSrv[i].id <= nreq /\ toSrv[i].id \in Nat /\ toSrv[i].id \in orphaned
        /\ \A i \in DOMAIN toCli : toCli[i].a.id <= nreq /\ toCli[i].a.id \in Nat /\ toCli[i].a.id \in orphaned
    <3>1. /\ \A i \in DOMAIN toSrv : toSrv[i] \in Request
          /\ \A i \in DOMAIN toCli : toCli[i] \in Unit
      BY <1>0
    <3> QED BY <2>1, <3>1 DEF Lingering, Numbered, Waiting, Request, Unit, Answer
  <2>5. OneAnswer'
    BY <1>0, <2>1, <2>3, <2>4 DEF OneAnswer
  <2>6. /\ \A i \in DOMAIN toSrv' : Numbered(toSrv[i].id)'
        /\ \A i \in DOMAIN toCli' : Numbered(toCli[i].a.id)'
    BY <1>0, <2>1, <2>3, <2>4 DEF Numbered, Waiting
  <2> QED BY <2>1, <2>5, <2>6 DEF Lingering
<1>4. CASE RecvLen
  <2>1. pc = "len" /\ pc' = "body" /\ toCli # <<>> /\ UNCHANGED <<toSrv, nreq, orphaned>>
    BY <1>4 DEF RecvLen
  <2>2. toCli[1] = Head(toCli) /\ 1 \in DOMAIN toCli
        /\ \A i \in DOMAIN Tail(toCli) : i \in Nat \ {0} /\ i + 1 \in DOMAIN toCli /\ Tail(toCli)[i] = toCli[i + 1]
    BY <1>0, <2>1, TailFacts
  <2>3. DOMAIN Torn(toCli) = DOMAIN toCli /\ \A i \in DOMAIN toCli : Torn(toCli)[i].a = toCli[i].a
    BY <1>0, <2>1, TornFacts
  <2>4. /\ \A i \in DOMAIN toSrv' : Numbered(toSrv[i].id)'
        /\ \A i \in DOMAIN toCli' : Numbered(toCli[i].a.id)'
    BY <1>4, <2>1, <2>2, <2>3 DEF RecvLen, Lingering, Numbered, Waiting
  <2>5. ASSUME frame' = nreq
        PROVE  OneBody'
    <3>1. toCli[1].part = "len" /\ toCli[1].a.id = nreq /\ toCli' = Tail(toCli)
      BY <1>0, <1>4, <2>1, <2>2, <2>5 DEF RecvLen, Waiting
    <3>2. OneAnswer
      BY <2>1 DEF Lingering
    <3>3. \A i \in DOMAIN toSrv : toSrv[i].id # nreq
      BY <2>2, <3>1, <3>2 DEF OneAnswer
    <3>4. \A i \in DOMAIN Tail(toCli) : Tail(toCli)[i].a.id = nreq => i = 1
      BY <2>2, <3>1, <3>2 DEF OneAnswer
    <3> QED BY <2>1, <3>1, <3>3, <3>4 DEF OneBody
  <2> QED BY <2>1, <2>4, <2>5 DEF Lingering
<1>5. CASE RecvTimeout \/ RecvEOF
  <2>1. ~Waiting' /\ Waiting /\ UNCHANGED <<toSrv, nreq>>
    BY <1>5, LeavesRead DEF RecvTimeout, RecvEOF
  <2>2. CASE RecvTimeout
    <3>1. \A i \in DOMAIN toCli' : \E j \in DOMAIN toCli : toCli'[i].a = toCli[j].a
      BY <1>0, <2>2, PartlyFacts DEF RecvTimeout
    <3> QED BY <2>1, <2>2, <3>1 DEF RecvTimeout, Lingering, Numbered, Waiting
  <2>3. CASE RecvEOF
    <3>1. toSrv = <<>> /\ toCli' = <<>>
      BY <2>3 DEF RecvEOF, OneInFlight
    <3> QED BY <2>1, <3>1 DEF Lingering, Waiting
  <2> QED BY <1>5, <2>2, <2>3
<1>6. CASE RecvBody
  <2>1. ~Waiting' /\ toCli' = Tail(toCli) /\ toCli # <<>> /\ pc = "body" /\ Waiting
        /\ UNCHANGED <<toSrv, nreq>>
        /\ orphaned' = IF frame = nreq THEN orphaned ELSE orphaned \cup {nreq}
    BY <1>6, HandlerLeavesRead DEF RecvBody, Waiting
  <2>2. \A i \in DOMAIN Tail(toCli) : i \in Nat \ {0} /\ i + 1 \in DOMAIN toCli /\ Tail(toCli)[i] = toCli[i + 1]
    BY <1>0, <2>1, TailFacts
  <2>3. CASE frame = nreq
    <3>1. OneBody
      BY <2>1, <2>3 DEF Lingering
    <3>2. \A i \in DOMAIN Tail(toCli) : Tail(toCli)[i].a.id # nreq
      BY <2>2, <3>1 DEF OneBody
    <3> QED BY <2>1, <2>2, <2>3, <3>1, <3>2 DEF Lingering, OneBody, Numbered, Waiting
  <2>4. CASE frame # nreq
    BY <2>1, <2>2, <2>4 DEF Lingering, Numbered, Waiting
  <2> QED BY <2>3, <2>4
<1>7. CASE RecvJunk
  <2>1. ~Waiting' /\ UNCHANGED <<toSrv, nreq>> /\ orphaned' = orphaned \cup {nreq}
    BY <1>7, HandlerLeavesRead DEF RecvJunk
  <2>2. PICK k \in 0..Len(toCli) : toCli' \in Partly(SubSeq(toCli, k + 1, Len(toCli)))
    BY <1>7 DEF RecvJunk
  <2>3. SubSeq(toCli, k + 1, Len(toCli)) \in Seq(Unit)
        /\ \A i \in DOMAIN SubSeq(toCli, k + 1, Len(toCli)) :
             \E j \in DOMAIN toCli : SubSeq(toCli, k + 1, Len(toCli))[i] = toCli[j]
    BY <1>0, SuffixFacts
  <2>4. \A i \in DOMAIN toCli' : \E j \in DOMAIN toCli : toCli'[i].a = toCli[j].a
    <3> DEFINE u == SubSeq(toCli, k + 1, Len(toCli))
    <3>1. u \in Seq(Unit) /\ toCli' \in Partly(u) /\ \A i \in DOMAIN u : \E j \in DOMAIN toCli : u[i] = toCli[j]
      BY <2>2, <2>3
    <3> HIDE DEF u
    <3>2. \A i \in DOMAIN toCli' : \E j \in DOMAIN u : toCli'[i].a = u[j].a
      BY <3>1, PartlyFacts
    <3> QED BY <3>1, <3>2
  <2> QED BY <2>1, <2>4 DEF Lingering, Numbered, Waiting
<1> QED BY <1>2, <1>3, <1>4, <1>5, <1>6, <1>7 DEF Step

LEMMA ServerLingers ==
  ASSUME TypeOK, Lingering, Cas \/ Crash
  PROVE  Lingering'
<1>0. toSrv \in Seq(Request) /\ toCli \in Seq(Unit) /\ nreq \in Nat
  BY DEF TypeOK, NetType, SockType
<1>1. CASE Cas
  <2>1. PICK a \in Answer :
           /\ srvUp /\ toSrv # <<>> /\ a.id = toSrv[1].id
           /\ toSrv' = Tail(toSrv) /\ CasIdle
           /\ toCli' = toCli \o <<[part |-> "len", a |-> a], [part |-> "body", a |-> a]>>
    BY <1>1, CasSocket
  <2> DEFINE l == [part |-> "len", a |-> a]
             b == [part |-> "body", a |-> a]
  <2>2. UNCHANGED <<pc, frame, nreq, orphaned>>
    BY <2>1 DEF CasIdle
  <2>3. 1 \in DOMAIN toSrv
        /\ \A i \in DOMAIN Tail(toSrv) : i \in Nat \ {0} /\ i + 1 \in DOMAIN toSrv /\ Tail(toSrv)[i] = toSrv[i + 1]
    BY <1>0, <2>1, TailFacts
  <2>4. l \in Unit /\ b \in Unit /\ l.a = a /\ b.a = a /\ l.part = "len" /\ b.part = "body"
    BY DEF Unit
  <2> HIDE DEF l, b
  <2>5. /\ toCli' \in Seq(Unit)
        /\ \A i \in DOMAIN toCli' :
              \/ i \in DOMAIN toCli /\ toCli'[i] = toCli[i]
              \/ i \notin DOMAIN toCli /\ i = Len(toCli) + 1 /\ toCli'[i] = l
              \/ i \notin DOMAIN toCli /\ i = Len(toCli) + 2 /\ toCli'[i] = b
    BY <1>0, <2>1, <2>4, PairFacts DEF l, b
  <2>6. /\ \A i \in DOMAIN toSrv' : Numbered(toSrv[i].id)'
        /\ \A i \in DOMAIN toCli' : Numbered(toCli[i].a.id)'
    BY <2>1, <2>2, <2>3, <2>4, <2>5 DEF Lingering, Numbered, Waiting
  <2>7. ASSUME pc = "len"
        PROVE  OneAnswer'
    <3>1. OneAnswer
      BY <2>7 DEF Lingering
    <3>2. ASSUME NEW i \in DOMAIN toSrv', NEW j \in DOMAIN toSrv', toSrv'[i].id = nreq, toSrv'[j].id = nreq
          PROVE  i = j
      <4>1. i + 1 = j + 1
        BY <2>1, <2>3, <3>1, <3>2 DEF OneAnswer
      <4>2. i \in Nat /\ j \in Nat
        BY <2>1, <2>3
      <4> QED BY <4>1, <4>2
    <3>3. ASSUME a.id = nreq, NEW i \in DOMAIN toSrv', toSrv'[i].id = nreq
          PROVE  FALSE
      <4>1. 1 = i + 1
        BY <2>1, <2>3, <3>1, <3>3 DEF OneAnswer
      <4>2. i \in Nat \ {0}
        BY <2>1, <2>3
      <4> QED BY <4>1, <4>2
    <3>4. \A i \in DOMAIN toSrv', j \in DOMAIN toCli' : toSrv'[i].id = nreq => toCli'[j].a.id # nreq
      BY <2>1, <2>3, <2>4, <2>5, <3>1, <3>3, SMTT(40) DEF OneAnswer
    <3>5. toSrv[1].id = nreq => \A i \in DOMAIN toCli : toCli[i].a.id # nreq
      BY <2>3, <3>1 DEF OneAnswer
    <3>6. Len(toCli) \in Nat
      BY <1>0
    <3>7. \A i, j \in DOMAIN toCli' :
            toCli'[i].a.id = nreq /\ toCli'[i].part = "len" /\ toCli'[j].a.id = nreq => j \in {i, i + 1}
      <4>1. CASE a.id = nreq
        BY <2>1, <2>4, <2>5, <3>5, <3>6, <4>1, SMTT(40)
      <4>2. CASE a.id # nreq
        BY <2>4, <2>5, <3>1, <4>2 DEF OneAnswer
      <4> QED BY <4>1, <4>2
    <3> QED BY <2>2, <3>2, <3>4, <3>7 DEF OneAnswer
  <2>8. ASSUME pc = "body", frame = nreq
        PROVE  OneBody'
    BY <2>1, <2>2, <2>3, <2>4, <2>5, <2>8 DEF Lingering, OneBody
  <2> QED BY <2>2, <2>6, <2>7, <2>8 DEF Lingering
<1>2. CASE Crash
  <2>1. toSrv' = <<>> /\ UNCHANGED <<pc, frame, nreq, orphaned>>
    BY <1>2 DEF Crash
  <2>2. PICK k \in 0..Len(toCli) : toCli' = SubSeq(toCli, 1, k)
    BY <1>2 DEF Crash
  <2>3. toCli' \in Seq(Unit) /\ Len(toCli') = k /\ \A i \in 1..k : toCli'[i] = toCli[i]
    BY <1>0, <2>2, SuffixType
  <2>4. \A i \in DOMAIN toCli' : i \in DOMAIN toCli /\ toCli'[i] = toCli[i]
    <3>1. DOMAIN toCli' = 1..k /\ DOMAIN toCli = 1..Len(toCli) /\ Len(toCli) \in Nat
      BY <1>0, <2>3
    <3> QED BY <2>2, <2>3, <3>1
  <2> QED BY <2>1, <2>4 DEF Lingering, OneAnswer, OneBody, Numbered, Waiting
<1> QED BY <1>1, <1>2

LEMMA NextLingers == TypeOK /\ OneInFlight /\ Lingering /\ [Next]_vars => Lingering'
<1> SUFFICES ASSUME TypeOK, OneInFlight, Lingering, [Next]_vars PROVE Lingering'
  OBVIOUS
<1>1. CASE UNCHANGED <<toSrv, toCli, nreq, orphaned, frame, pc>>
  BY <1>1 DEF Lingering, OneAnswer, OneBody, Numbered, Waiting
<1>2. CASE \/ UNCHANGED vars
           \/ \E w \in Watcher : WatchStep(w)
           \/ \E c \in Ctx : Cancel(c) \/ TimePasses(c) \/ Expire(c)
  BY <1>1, <1>2
     DEF vars, WatchStep, WatchFire, WatchQuit, WatchSet, Cancel, TimePasses, Expire, net
<1>3. CASE Start
  BY <1>3, StartSocket DEF Lingering, Numbered, Waiting
<1> QED BY <1>2, <1>3, StepLingers, ServerLingers DEF Next

\* Requests and answers in flight are the current round trip's or belong to a
\* call that gave up on its answer: sendAndRecv, closeQueryHandle and
\* fetchLastInsertID read every answer they do not time out on.
THEOREM NoAnswerLeftUnread == Spec => []OnlyOrphansLinger
<1>1. Init => OneInFlight /\ Lingering
  BY DEF Init, OneInFlight, Lingering, Waiting
<1>2. Lingering => OnlyOrphansLinger
  BY DEF Lingering, Numbered, OnlyOrphansLinger, InFlight, Elems
<1> QED BY <1>1, <1>2, InitType, NextType, NextInStep, NextLingers, PTL DEF Spec

-----------------------------------------------------------------------------
(***************************************************************************)
(* The answer in flight.                                                   *)
(***************************************************************************)

\* The request of the round trip in progress, as Send wrote it.
Current ==
  [id |-> nreq, fc |-> Head(todo).fc, h |-> Head(todo).h,
   ac |-> autoCommit \/ Head(todo).fc = "VERSION", ins |-> call.ins /\ Head(todo).fc = "PAE"]

\* While the connection is in step, the server has this request and no other
\* one, and while it lives its answer arrives whole.
Paired ==
  orphaned = {} =>
    /\ toSrv # <<>> => Head(toSrv) = Current
    /\ pc = "len" /\ toCli # <<>> =>
         /\ Len(toCli) = 2 => toCli[2] = [part |-> "body", a |-> toCli[1].a]
         /\ srvUp => Len(toCli) = 2
    /\ pc = "body" =>
         /\ srvUp => toCli # <<>>
         /\ toCli # <<>> => toCli[1].part = "body" /\ toCli[1].a.id = nreq

LEMMA CasInStep ==
  ASSUME TypeOK, OneInFlight, Paired, Cas, orphaned = {}
  PROVE  \E a \in Answer :
           LET q == Head(toSrv) IN
           /\ pc = "len" /\ srvUp /\ CasIdle /\ toCli = <<>> /\ toSrv # <<>> /\ q = Current
           /\ toSrv' = <<>> /\ a.id = nreq
           /\ toCli' = <<[part |-> "len", a |-> a], [part |-> "body", a |-> a]>>
           /\ \/ ~a.ok /\ a.h = None /\ UNCHANGED <<open, tran>> /\ ~(q.fc = "CLOSE" /\ q.h \in open)
              \/ /\ a.ok /\ q.fc \in {"PREPARE", "PAE", "LASTID"} /\ a.h \in Handle \ open
                 /\ open' = open \cup {a.h}
                 /\ tran' = IF q.fc = "PREPARE" THEN tran ELSE ~q.ac
              \/ /\ a.ok /\ a.h = None /\ q.fc \in {"EXECUTE", "FETCH", "CLOSE"} /\ q.h \in open
                 /\ open' = IF q.fc = "CLOSE" THEN open \ {q.h} ELSE open
                 /\ tran' = IF q.fc = "EXECUTE" THEN ~q.ac ELSE tran
              \/ /\ a.ok /\ a.h = None /\ q.fc \in {"ENDTRAN", "VERSION"} /\ UNCHANGED open
                 /\ tran' \in IF q.fc = "ENDTRAN" THEN {FALSE} ELSE {tran, tran /\ ~q.ac}
<1> DEFINE q == Head(toSrv)
           Ans(ok, h) == [id |-> q.id, ok |-> ok, h |-> h, ins |-> q.ins]
           Effect(ok, h) ==
              \/ ~ok /\ h = None /\ UNCHANGED <<open, tran>> /\ ~(q.fc = "CLOSE" /\ q.h \in open)
              \/ /\ ok /\ q.fc \in {"PREPARE", "PAE", "LASTID"} /\ h \in Handle \ open
                 /\ open' = open \cup {h}
                 /\ tran' = IF q.fc = "PREPARE" THEN tran ELSE ~q.ac
              \/ /\ ok /\ h = None /\ q.fc \in {"EXECUTE", "FETCH", "CLOSE"} /\ q.h \in open
                 /\ open' = IF q.fc = "CLOSE" THEN open \ {q.h} ELSE open
                 /\ tran' = IF q.fc = "EXECUTE" THEN ~q.ac ELSE tran
              \/ /\ ok /\ h = None /\ q.fc \in {"ENDTRAN", "VERSION"} /\ UNCHANGED open
                 /\ tran' \in IF q.fc = "ENDTRAN" THEN {FALSE} ELSE {tran, tran /\ ~q.ac}
<1>0. toSrv \in Seq(Request) /\ toCli \in Seq(Unit)
  BY DEF TypeOK, NetType
<1>1. srvUp /\ toSrv # <<>> /\ CasIdle
  BY DEF Cas, CasRejects, CasAllocates, CasUses, CasSession
<1>2. PICK ok \in BOOLEAN, h \in Opt(Handle) : Reply(q, ok, h) /\ Effect(ok, h)
  <2>1. CASE CasRejects
    BY <2>1 DEF CasRejects, Opt
  <2>2. CASE CasAllocates
    BY <2>2 DEF CasAllocates, Opt
  <2>3. CASE CasUses
    BY <2>3 DEF CasUses, Opt
  <2>4. CASE CasSession
    BY <2>4 DEF CasSession, Opt
  <2> QED BY <2>1, <2>2, <2>3, <2>4 DEF Cas
<1>3. pc = "len" /\ Alone(toSrv) /\ toCli = <<>> /\ q = Current
  BY <1>1 DEF OneInFlight, Waiting, Paired
<1>4. q = toSrv[1] /\ q \in Request /\ Tail(toSrv) \in Seq(Request) /\ Len(Tail(toSrv)) = Len(toSrv) - 1
  BY <1>0, <1>1, TailFacts
<1> DEFINE a == Ans(ok, h)
           l == [part |-> "len", a |-> a]
           b == [part |-> "body", a |-> a]
<1>5. a \in Answer /\ a.id = nreq /\ a.ok = ok /\ a.h = h
  BY <1>3, <1>4 DEF Request, Answer, Alone
<1>6. toSrv' = Tail(toSrv) /\ toCli' = toCli \o <<l, b>>
  BY <1>2 DEF Reply
<1> HIDE DEF a, Effect, q
<1>7. Tail(toSrv) = <<>>
  <2>1. Len(Tail(toSrv)) = 0
    BY <1>3, <1>4 DEF Alone
  <2> QED BY <1>4, <2>1, ShortSeq
<1>8. <<>> \o <<l, b>> = <<l, b>>
  <2>1. <<l, b>> \in Seq({l, b})
    OBVIOUS
  <2> QED BY <2>1, ConcatEmptySeq
<1>9. toSrv' = <<>> /\ toCli' = <<l, b>>
  BY <1>3, <1>6, <1>7, <1>8
<1>10. Effect(a.ok, a.h)
  BY <1>2, <1>5
<1> QED BY <1>1, <1>3, <1>5, <1>9, <1>10 DEF Effect, q

LEMMA StepPaired ==
  ASSUME TypeOK, OneInFlight, Paired, Step \/ RecvJunk
  PROVE  Paired'
<1>0. toSrv \in Seq(Request) /\ toCli \in Seq(Unit)
  BY DEF TypeOK, NetType
<1>1. CASE Check \/ SendFail \/ Reset \/ Stop
  <2>1. UNCHANGED <<toSrv, orphaned>>
    BY <1>1 DEF Check, SendFail, Reset, Stop, Quiet, net
  <2>2. ~Waiting /\ ~Waiting'
    BY <1>1, LeavesRead DEF Check, SendFail, Reset, Stop, Continue, Finish, Return, Waiting
  <2> QED BY <2>1, <2>2 DEF Paired, OneInFlight, Waiting
<1>2. CASE Send
  <2> DEFINE q == [id |-> nreq + 1, fc |-> Head(todo).fc, h |-> Head(todo).h,
                   ac |-> autoCommit \/ Head(todo).fc = "VERSION",
                   ins |-> call.ins /\ Head(todo).fc = "PAE"]
  <2>1. pc = "send" /\ pc' = "len" /\ nreq' = nreq + 1 /\ UNCHANGED <<toCli, orphaned, todo, call, autoCommit>>
        /\ (toSrv' = toSrv \/ toSrv' = Append(toSrv, q))
    BY <1>2 DEF Send, objs
  <2>2. Current' = q
    BY <2>1 DEF Current
  <2>3. Head(Append(<<>>, q)) = q
    OBVIOUS
  <2> HIDE DEF q
  <2> QED BY <2>1, <2>2, <2>3 DEF Paired, OneInFlight, Waiting
<1>3. CASE RecvLen
  <2>1. pc = "len" /\ pc' = "body" /\ toCli # <<>> /\ UNCHANGED <<toSrv, srvUp, orphaned, nreq>>
    BY <1>3 DEF RecvLen
  <2>2. ASSUME orphaned = {}
        PROVE  toSrv = <<>> /\ (srvUp => toCli' # <<>>)
               /\ (toCli' # <<>> => toCli'[1].part = "body" /\ toCli'[1].a.id = nreq)
    <3>1. toSrv = <<>> /\ Len(toCli) \in {1, 2} /\ toCli[1].part = "len" /\ toCli[1].a.id = nreq
      BY <2>1, <2>2 DEF OneInFlight, Waiting
    <3>2. Head(toCli) = toCli[1] /\ Tail(toCli) \in Seq(Unit) /\ Len(Tail(toCli)) = Len(toCli) - 1
          /\ \A i \in DOMAIN Tail(toCli) : Tail(toCli)[i] = toCli[i + 1]
      BY <1>0, <2>1, TailFacts
    <3>3. toCli' = Tail(toCli)
      BY <1>3, <3>1, <3>2 DEF RecvLen
    <3>4. CASE Len(toCli) = 2
      <4>1. toCli[2].part = "body" /\ toCli[2].a = toCli[1].a
        BY <2>1, <2>2, <3>4 DEF Paired
      <4>2. Len(Tail(toCli)) = 1
        BY <3>2, <3>4
      <4>3. DOMAIN Tail(toCli) = 1..1
        BY <3>2, <4>2, DomainOf
      <4>4. 1 \in DOMAIN Tail(toCli) /\ Tail(toCli) # <<>>
        <5>1. 1 \in 1..1
          OBVIOUS
        <5> QED BY <3>2, <4>2, <4>3, <5>1, EmptySeq
      <4> QED BY <3>1, <3>2, <3>3, <4>1, <4>4
    <3>5. CASE Len(toCli) = 1
      <4>1. ~srvUp
        BY <2>1, <2>2, <3>5 DEF Paired
      <4>2. Len(Tail(toCli)) = 0
        BY <3>2, <3>5
      <4> QED BY <3>1, <3>2, <3>3, <4>1, <4>2, ShortSeq
    <3> QED BY <3>1, <3>4, <3>5
  <2> QED BY <2>1, <2>2 DEF Paired
<1>4. CASE RecvTimeout \/ RecvJunk
  BY <1>4 DEF RecvTimeout, RecvJunk, Paired
<1>5. CASE RecvEOF
  <2>1. ~Waiting' /\ ~srvUp /\ UNCHANGED toSrv
    BY <1>5, LeavesRead DEF RecvEOF
  <2> QED BY <2>1 DEF OneInFlight, Paired, Waiting
<1>6. CASE RecvBody
  <2>1. ~Waiting' /\ pc = "body" /\ UNCHANGED toSrv
        /\ orphaned' = IF frame = nreq THEN orphaned ELSE orphaned \cup {nreq}
    BY <1>6, HandlerLeavesRead DEF RecvBody
  <2> QED BY <2>1 DEF OneInFlight, Paired, Waiting
<1> QED BY <1>1, <1>2, <1>3, <1>4, <1>5, <1>6 DEF Step

LEMMA ServerPaired ==
  ASSUME TypeOK, OneInFlight, Paired, Cas \/ Crash
  PROVE  Paired'
<1>1. CASE Cas
  <2>1. UNCHANGED <<pc, orphaned>>
    BY <1>1 DEF Cas, CasRejects, CasAllocates, CasUses, CasSession, CasIdle
  <2>2. ASSUME orphaned = {}
        PROVE  pc = "len" /\ toSrv' = <<>> /\ Len(toCli') = 2
               /\ toCli'[2] = [part |-> "body", a |-> toCli'[1].a]
    <3>1. PICK a \in Answer :
             pc = "len" /\ toSrv' = <<>> /\ toCli' = <<[part |-> "len", a |-> a], [part |-> "body", a |-> a]>>
      BY <1>1, <2>2, CasInStep
    <3> DEFINE l == [part |-> "len", a |-> a]
               b == [part |-> "body", a |-> a]
    <3>2. l.a = a
      OBVIOUS
    <3>3. toCli' = <<l, b>>
      BY <3>1
    <3> HIDE DEF l, b
    <3>4. Len(toCli') = 2 /\ toCli'[1] = l /\ toCli'[2] = b
      BY <3>3
    <3> QED BY <3>1, <3>2, <3>4 DEF b
  <2> QED BY <2>1, <2>2 DEF Paired
<1>2. CASE Crash
  <2>1. toSrv' = <<>> /\ ~srvUp' /\ UNCHANGED <<pc, nreq, orphaned>>
    BY <1>2 DEF Crash
  <2>2. PICK k \in 0..Len(toCli) : toCli' = SubSeq(toCli, 1, k)
    BY <1>2 DEF Crash
  <2>3. toCli \in Seq(Unit) /\ Len(toCli) \in Nat
    BY DEF TypeOK, NetType
  <2>4. toCli' \in Seq(Unit) /\ Len(toCli') = k /\ (\A i \in 1..k : toCli'[i] = toCli[i])
        /\ (k = 0 => toCli' = <<>>) /\ (toCli = <<>> => k = 0)
    BY <2>2, <2>3, SuffixType, ShortSeq
  <2>5. ASSUME orphaned = {}, pc = "len", k = 2
        PROVE  toCli'[2] = [part |-> "body", a |-> toCli'[1].a]
    <3>1. Len(toCli) \in {1, 2} /\ toCli # <<>>
      BY <2>4, <2>5 DEF OneInFlight, Waiting
    <3>2. Len(toCli) = 2
      BY <2>2, <2>5, <3>1
    <3> QED BY <2>4, <2>5, <3>1, <3>2 DEF Paired
  <2>6. ASSUME orphaned = {}, pc = "body", toCli' # <<>>
        PROVE  toCli'[1].part = "body" /\ toCli'[1].a.id = nreq
    <3>1. 1 \in 1..k /\ toCli # <<>>
      BY <2>2, <2>3, <2>4, <2>6
    <3> QED BY <2>4, <2>6, <3>1 DEF Paired
  <2> QED BY <2>1, <2>4, <2>5, <2>6 DEF Paired
<1> QED BY <1>1, <1>2

LEMMA NextPaired == TypeOK /\ OneInFlight /\ Paired /\ [Next]_vars => Paired'
<1> SUFFICES ASSUME TypeOK, OneInFlight, Paired, [Next]_vars PROVE Paired'
  OBVIOUS
<1>1. CASE UNCHANGED <<toSrv, toCli, srvUp, nreq, orphaned, pc, todo, call, autoCommit>>
  BY <1>1 DEF Paired, Current
<1>2. CASE \/ UNCHANGED vars
           \/ \E w \in Watcher : WatchStep(w)
           \/ \E c \in Ctx : Cancel(c) \/ TimePasses(c) \/ Expire(c)
  BY <1>1, <1>2
     DEF vars, WatchStep, WatchFire, WatchQuit, WatchSet, Cancel, TimePasses, Expire, net, objs
<1>3. CASE Start
  BY <1>3, StartSocket DEF Paired, OneInFlight, Waiting
<1> QED BY <1>2, <1>3, StepPaired, ServerPaired DEF Next

-----------------------------------------------------------------------------
(***************************************************************************)
(* Lists of round trips.                                                   *)
(***************************************************************************)

FCs(s) == {s[i].fc : i \in DOMAIN s}

\* The handles that the round trips of s close, and that they close each once.
Closes(s) == {s[i].h : i \in {j \in DOMAIN s : s[j].fc = "CLOSE"}}
Distinct(s) ==
  \A i, j \in DOMAIN s : s[i].fc = "CLOSE" /\ s[j].fc = "CLOSE" /\ s[i].h = s[j].h => i = j

LEMMA NoTrips == FCs(<<>>) = {} /\ Closes(<<>>) = {} /\ Distinct(<<>>) /\ <<>> \in Seq(Trip)
<1>1. DOMAIN <<>> = {} /\ <<>> \in Seq(Trip)
  BY EmptySeq
<1> QED BY <1>1 DEF FCs, Closes, Distinct

LEMMA OneTrip ==
  ASSUME NEW fc \in FC, NEW h \in Opt(Handle)
  PROVE  /\ Trips(fc, h) \in Seq(Trip) /\ Trips(fc, h) # <<>> /\ Tail(Trips(fc, h)) = <<>>
         /\ FCs(Trips(fc, h)) = {fc} /\ Closes(Trips(fc, h)) = (IF fc = "CLOSE" THEN {h} ELSE {})
         /\ Distinct(Trips(fc, h)) /\ Head(Trips(fc, h)) = [fc |-> fc, h |-> h]
<1> DEFINE t == [fc |-> fc, h |-> h]
           s == Trips(fc, h)
<1>1. s = <<t>> /\ t \in Trip /\ t.fc = fc /\ t.h = h
  BY DEF Trips, Trip
<1> HIDE DEF t
<1>2. s \in Seq(Trip) /\ Len(s) = 1 /\ s[1] = t /\ DOMAIN s = {1} /\ s # <<>>
  BY <1>1
<1> HIDE DEF s
<1>3. Tail(s) \in Seq(Trip) /\ Len(Tail(s)) = Len(s) - 1 /\ Head(s) = s[1]
  BY <1>2, TailFacts
<1>4. Len(Tail(s)) = 0
  BY <1>2, <1>3
<1>5. Tail(s) = <<>>
  BY <1>3, <1>4, ShortSeq
<1>6. FCs(s) = {fc} /\ Closes(s) = (IF fc = "CLOSE" THEN {h} ELSE {}) /\ Distinct(s)
  BY <1>1, <1>2 DEF FCs, Closes, Distinct
<1> QED BY <1>2, <1>3, <1>5, <1>6 DEF s, t

LEMMA TailTrips ==
  ASSUME NEW s \in Seq(Trip), s # <<>>
  PROVE  /\ Tail(s) \in Seq(Trip) /\ Head(s) \in Trip /\ Head(s).fc \in FCs(s)
         /\ FCs(Tail(s)) \subseteq FCs(s) /\ FCs(s) = FCs(Tail(s)) \cup {Head(s).fc}
         /\ Closes(s) = Closes(Tail(s)) \cup (IF Head(s).fc = "CLOSE" THEN {Head(s).h} ELSE {})
         /\ Distinct(s) => Distinct(Tail(s)) /\ (Head(s).fc = "CLOSE" => Head(s).h \notin Closes(Tail(s)))
<1>1. /\ 1 \in DOMAIN s /\ Head(s) = s[1] /\ s[1] \in Trip
      /\ Tail(s) \in Seq(Trip) /\ Len(Tail(s)) = Len(s) - 1
      /\ \A i \in DOMAIN Tail(s) : i \in Nat \ {0} /\ i + 1 \in DOMAIN s /\ Tail(s)[i] = s[i + 1]
  BY TailFacts
<1>2. ASSUME NEW j \in DOMAIN s, j # 1
      PROVE  j - 1 \in DOMAIN Tail(s) /\ Tail(s)[j - 1] = s[j]
  <2>1. DOMAIN s = 1..Len(s) /\ DOMAIN Tail(s) = 1..Len(Tail(s)) /\ Len(s) \in Nat
    BY <1>1
  <2>2. j - 1 \in 1..(Len(s) - 1) /\ (j - 1) + 1 = j
    BY <1>2, <2>1
  <2> QED BY <1>1, <2>1, <2>2
<1>3. FCs(s) = FCs(Tail(s)) \cup {Head(s).fc}
  <2>1. FCs(s) \subseteq FCs(Tail(s)) \cup {Head(s).fc}
    <3>1. ASSUME NEW j \in DOMAIN s
          PROVE  s[j].fc \in FCs(Tail(s)) \cup {Head(s).fc}
      <4>1. CASE j = 1
        BY <1>1, <4>1
      <4>2. CASE j # 1
        BY <1>2, <4>2 DEF FCs
      <4> QED BY <4>1, <4>2
    <3> QED BY <3>1 DEF FCs
  <2>2. FCs(Tail(s)) \cup {Head(s).fc} \subseteq FCs(s)
    BY <1>1 DEF FCs
  <2> QED BY <2>1, <2>2
<1>4. Closes(s) = Closes(Tail(s)) \cup (IF Head(s).fc = "CLOSE" THEN {Head(s).h} ELSE {})
  <2>1. Closes(s) \subseteq Closes(Tail(s)) \cup (IF Head(s).fc = "CLOSE" THEN {Head(s).h} ELSE {})
    <3>1. ASSUME NEW j \in DOMAIN s, s[j].fc = "CLOSE"
          PROVE  s[j].h \in Closes(Tail(s)) \cup (IF Head(s).fc = "CLOSE" THEN {Head(s).h} ELSE {})
      <4>1. CASE j = 1
        BY <1>1, <3>1, <4>1
      <4>2. CASE j # 1
        BY <1>2, <3>1, <4>2 DEF Closes
      <4> QED BY <4>1, <4>2
    <3> QED BY <3>1 DEF Closes
  <2>2. Closes(Tail(s)) \cup (IF Head(s).fc = "CLOSE" THEN {Head(s).h} ELSE {}) \subseteq Closes(s)
    BY <1>1 DEF Closes
  <2> QED BY <2>1, <2>2
<1>5. ASSUME Distinct(s), NEW i \in DOMAIN Tail(s), NEW j \in DOMAIN Tail(s),
             Tail(s)[i].fc = "CLOSE", Tail(s)[j].fc = "CLOSE", Tail(s)[i].h = Tail(s)[j].h
      PROVE  i = j
  <2>1. i + 1 = j + 1
    BY <1>1, <1>5 DEF Distinct
  <2>2. i \in Nat /\ j \in Nat
    BY <1>1
  <2> QED BY <2>1, <2>2
<1>6. ASSUME Distinct(s), Head(s).fc = "CLOSE", NEW i \in DOMAIN Tail(s),
             Tail(s)[i].fc = "CLOSE", Tail(s)[i].h = Head(s).h
      PROVE  FALSE
  <2>1. i + 1 = 1
    BY <1>1, <1>6 DEF Distinct
  <2>2. i \in Nat \ {0}
    BY <1>1
  <2> QED BY <2>1, <2>2
<1>7. Distinct(s) => Distinct(Tail(s))
  BY <1>5 DEF Distinct
<1>8. Distinct(s) /\ Head(s).fc = "CLOSE" => Head(s).h \notin Closes(Tail(s))
  BY <1>6 DEF Closes
<1> QED BY <1>1, <1>3, <1>4, <1>7, <1>8 DEF FCs

LEMMA JoinTrips ==
  ASSUME NEW s \in Seq(Trip), NEW t \in Seq(Trip)
  PROVE  /\ s \o t \in Seq(Trip) /\ FCs(s \o t) = FCs(s) \cup FCs(t)
         /\ Closes(s \o t) = Closes(s) \cup Closes(t)
         /\ Distinct(s) /\ Distinct(t) /\ Closes(s) \cap Closes(t) = {} => Distinct(s \o t)
<1> DEFINE u == s \o t
           n == Len(s)
<1>1. u \in Seq(Trip) /\ Len(u) = n + Len(t) /\ n \in Nat /\ Len(t) \in Nat
      /\ DOMAIN u = 1..Len(u) /\ DOMAIN s = 1..n /\ DOMAIN t = 1..Len(t)
      /\ \A i \in 1..(n + Len(t)) : u[i] = IF i <= n THEN s[i] ELSE t[i - n]
  <2>1. u \in Seq(Trip) /\ Len(u) = n + Len(t)
        /\ \A i \in 1..(n + Len(t)) : u[i] = IF i <= n THEN s[i] ELSE t[i - n]
    BY ConcatProperties
  <2> HIDE DEF u
  <2> QED BY <2>1
<1> HIDE DEF u, n
<1>2. ASSUME NEW i \in DOMAIN u
      PROVE  (i \in DOMAIN s /\ u[i] = s[i]) \/ (i - n \in DOMAIN t /\ u[i] = t[i - n] /\ i \in Int)
  <2>1. CASE i <= n
    BY <1>1, <2>1
  <2>2. CASE ~(i <= n)
    <3>1. i - n \in 1..Len(t)
      BY <1>1, <2>2
    <3> QED BY <1>1, <2>2, <3>1
  <2> QED BY <2>1, <2>2
<1>3. \A i \in DOMAIN s : i \in DOMAIN u /\ u[i] = s[i]
  BY <1>1
<1>4. ASSUME NEW i \in DOMAIN t
      PROVE  n + i \in DOMAIN u /\ u[n + i] = t[i]
  <2>1. n + i \in 1..(n + Len(t)) /\ ~(n + i <= n) /\ (n + i) - n = i
    BY <1>1
  <2> QED BY <1>1, <2>1
<1>5. FCs(u) = FCs(s) \cup FCs(t)
  <2>1. FCs(u) \subseteq FCs(s) \cup FCs(t)
    BY <1>2 DEF FCs
  <2>2. FCs(s) \cup FCs(t) \subseteq FCs(u)
    BY <1>3, <1>4 DEF FCs
  <2> QED BY <2>1, <2>2
<1>6. Closes(u) = Closes(s) \cup Closes(t)
  <2>1. Closes(u) \subseteq Closes(s) \cup Closes(t)
    BY <1>2 DEF Closes
  <2>2. Closes(s) \cup Closes(t) \subseteq Closes(u)
    BY <1>3, <1>4 DEF Closes
  <2> QED BY <2>1, <2>2
<1>7. ASSUME Distinct(s), Distinct(t), Closes(s) \cap Closes(t) = {},
             NEW i \in DOMAIN u, NEW j \in DOMAIN u, u[i].fc = "CLOSE", u[j].fc = "CLOSE", u[i].h = u[j].h
      PROVE  i = j
  <2>1. CASE i \in DOMAIN s /\ u[i] = s[i] /\ j \in DOMAIN s /\ u[j] = s[j]
    BY <1>7, <2>1 DEF Distinct
  <2>2. CASE i - n \in DOMAIN t /\ u[i] = t[i - n] /\ i \in Int /\ j - n \in DOMAIN t /\ u[j] = t[j - n] /\ j \in Int
    <3>1. i - n = j - n
      BY <1>7, <2>2 DEF Distinct
    <3> QED BY <1>1, <2>2, <3>1
  <2>3. CASE i \in DOMAIN s /\ u[i] = s[i] /\ j - n \in DOMAIN t /\ u[j] = t[j - n]
    BY <1>7, <2>3 DEF Closes
  <2>4. CASE i - n \in DOMAIN t /\ u[i] = t[i - n] /\ j \in DOMAIN s /\ u[j] = s[j]
    BY <1>7, <2>4 DEF Closes
  <2> QED BY <1>2, <2>1, <2>2, <2>3, <2>4
<1>8. Distinct(s) /\ Distinct(t) /\ Closes(s) \cap Closes(t) = {} => Distinct(u)
  BY <1>7 DEF Distinct
<1> QED BY <1>1, <1>5, <1>6, <1>8 DEF u

\* The round trips that follow the answer to a statement.
LEMMA FollowUps ==
  ASSUME NEW h \in Opt(Handle), NEW ins \in BOOLEAN
  PROVE  /\ CloseOf(h) \in Seq(Trip) /\ FCs(CloseOf(h)) \subseteq {"CLOSE"}
         /\ Closes(CloseOf(h)) = Own(h) /\ Distinct(CloseOf(h))
         /\ LastIdIf(ins) \in Seq(Trip) /\ FCs(LastIdIf(ins)) \subseteq {"LASTID"}
         /\ Closes(LastIdIf(ins)) = {} /\ Distinct(LastIdIf(ins))
<1>1. None \in Opt(Handle) /\ "CLOSE" \in FC /\ "LASTID" \in FC
  BY DEF Opt, FC
<1> QED BY <1>1, NoTrips, OneTrip DEF CloseOf, LastIdIf, Own

-----------------------------------------------------------------------------
(***************************************************************************)
(* The round trips each kind of call makes.                                *)
(***************************************************************************)

Planned(k) ==
  CASE k \in {"query", "stmtQueryArgs"}     -> {"PAE"}
    [] k \in {"exec", "stmtExecArgs"}       -> {"PAE", "LASTID", "CLOSE"}
    [] k = "stmtExec"                       -> {"EXECUTE", "LASTID", "CLOSE"}
    [] k = "stmtQuery"                      -> {"EXECUTE"}
    [] k = "prepare"                        -> {"PREPARE"}
    [] k = "endTran"                        -> {"ENDTRAN"}
    [] k \in {"ping", "version"}            -> {"VERSION"}
    [] k = "next"                           -> {"FETCH"}
    [] k \in {"rowsClose", "stmtClose"}     -> {"CLOSE"}
    [] OTHER                                -> {}

\* Round trips s of a call of kind k: only best-effort ones have company, so
\* that a failure of any other drops none.
Shaped(s, k) ==
  /\ FCs(s) \subseteq Planned(k)
  /\ s # <<>> => FCs(s) \subseteq BestEffort \/ Tail(s) = <<>>

Shape == Shaped(todo, call.kind) /\ (pc = "check" => FCs(todo) \subseteq {"PAE"})

LEMMA EmptyShaped == ASSUME NEW k PROVE Shaped(<<>>, k)
BY NoTrips DEF Shaped

LEMMA TailShaped ==
  ASSUME NEW s \in Seq(Trip), s # <<>>, NEW k, Shaped(s, k)
  PROVE  Shaped(Tail(s), k)
BY TailTrips, NoTrips DEF Shaped

LEMMA ContinueShape ==
  ASSUME NEW rest, Shaped(rest, call.kind), Continue(rest), call'.kind = call.kind
  PROVE  Shape'
BY DEF Shape, Continue, Finish

\* A call that fails goes on with its best-effort round trips, or returns.
LEMMA FailEffect ==
  ASSUME call \in Call, NEW t, Fail(t)
  PROVE  /\ Continue(IF Head(todo).fc \in BestEffort THEN Tail(todo) ELSE <<>>)
         /\ call'.kind = call.kind /\ call'.ins = call.ins
BY DEF Fail, Call

LEMMA FailShape ==
  ASSUME TypeOK, Shape, todo # <<>>, NEW t, Fail(t)
  PROVE  Shape'
<1>1. Shaped(IF Head(todo).fc \in BestEffort THEN Tail(todo) ELSE <<>>, call.kind)
  BY TailShaped, EmptyShaped DEF TypeOK, CallerType, Shape
<1> QED BY <1>1, FailEffect, ContinueShape DEF TypeOK, CallerType

LEMMA HandlerShape ==
  ASSUME TypeOK, Shape, todo # <<>>, NEW a \in Answer, Handler(a)
  PROVE  Shape'
<1>0. /\ call \in Call /\ todo \in Seq(Trip) /\ a.h \in Opt(Handle) /\ a.ins \in BOOLEAN /\ call.ins \in BOOLEAN
      /\ Shaped(todo, call.kind) /\ Shaped(Tail(todo), call.kind) /\ Shaped(<<>>, call.kind)
  BY TailShaped, EmptyShaped DEF TypeOK, CallerType, Call, Answer, Shape
<1>1. CASE OnError(a)
  BY <1>1, FailShape DEF OnError
<1>2. CASE OnQuery(a) \/ OnStmtQuery(a) \/ OnPrepare(a) \/ OnEndTran(a)
  <2>1. Continue(<<>>) /\ call'.kind = call.kind
    BY <1>0, <1>2 DEF OnQuery, OnStmtQuery, OnPrepare, OnEndTran, Call
  <2> QED BY <1>0, <2>1, ContinueShape
<1>3. CASE OnExec(a)
  <2> DEFINE s == LastIdIf(a.ins) \o CloseOf(a.h)
  <2>1. FCs(s) \subseteq {"LASTID", "CLOSE"}
    BY <1>0, FollowUps, JoinTrips
  <2>2. Shaped(s, call.kind)
    BY <1>3, <2>1 DEF OnExec, Shaped, Planned, BestEffort
  <2>3. (Continue(<<>>) \/ Continue(s)) /\ call'.kind = call.kind
    BY <1>0, <1>3 DEF OnExec, Call
  <2> QED BY <1>0, <2>2, <2>3, ContinueShape
<1>4. CASE OnStmtExec(a)
  <2> DEFINE c == IF call.kind = "stmtExecArgs" THEN CloseOf(a.h) ELSE <<>>
             s == c \o LastIdIf(call.ins)
  <2>1. c \in Seq(Trip) /\ FCs(c) \subseteq {"CLOSE"}
    BY <1>0, FollowUps, NoTrips
  <2> HIDE DEF c
  <2>2. FCs(s) \subseteq {"LASTID", "CLOSE"}
    BY <1>0, <2>1, FollowUps, JoinTrips
  <2>3. Shaped(s, call.kind)
    BY <1>4, <2>2 DEF OnStmtExec, Shaped, Planned, BestEffort
  <2>4. Continue(s) /\ call'.kind = call.kind
    BY <1>4 DEF OnStmtExec, c
  <2> QED BY <2>3, <2>4, ContinueShape
<1>5. CASE OnLastId(a)
  <2> DEFINE s == CloseOf(a.h) \o Tail(todo)
  <2>1. Head(todo).fc = "LASTID" /\ "LASTID" \in FCs(todo)
    BY <1>0, <1>5, TailTrips DEF OnLastId
  <2>2. FCs(s) \subseteq {"CLOSE"} \cup FCs(Tail(todo))
    <3>1. CloseOf(a.h) \in Seq(Trip) /\ FCs(CloseOf(a.h)) \subseteq {"CLOSE"} /\ Tail(todo) \in Seq(Trip)
      BY <1>0, FollowUps, TailTrips
    <3> QED BY <3>1, JoinTrips
  <2>3. "CLOSE" \in Planned(call.kind)
    BY <1>0, <2>1 DEF Shaped, Planned
  <2>4. FCs(Tail(todo)) \subseteq BestEffort
    BY <1>0, NoTrips, TailTrips DEF Shaped
  <2>5. Shaped(s, call.kind)
    BY <1>0, <2>2, <2>3, <2>4 DEF Shaped, BestEffort
  <2>6. Continue(s) /\ call'.kind = call.kind
    BY <1>5 DEF OnLastId
  <2> QED BY <2>5, <2>6, ContinueShape
<1>6. CASE OnOther(a)
  BY <1>0, <1>6, ContinueShape DEF OnOther
<1> QED BY <1>1, <1>2, <1>3, <1>4, <1>5, <1>6 DEF Handler

\* A call that starts has one round trip to make, or none.
LEMMA StartShape ==
  ASSUME TypeOK, Shape, Start
  PROVE  Shape'
<1>1. ASSUME pc = "idle", NEW k, NEW err, Refuse(k, err)
      PROVE  Shape'
  BY <1>1, EmptyShaped, NoTrips DEF Refuse, Shape, TypeOK, CallerType
<1>2. ASSUME NEW k, NEW fc \in FC, NEW h \in Opt(Handle), fc \in Planned(k),
             todo' = Trips(fc, h), call'.kind = k, pc' = "check" => fc = "PAE"
      PROVE  Shape'
  <2>1. FCs(todo') = {fc} /\ Tail(todo') = <<>>
    BY <1>2, OneTrip
  <2> QED BY <1>2, <2>1 DEF Shape, Shaped
<1> USE DEF Opt, FC, Planned
<1>3. ASSUME NEW k, NEW ins, NEW fc \in FC, NEW h \in Opt(Handle), fc \in Planned(k),
             CallChecked(k, ins, Trips(fc, h)) \/ CallUnchecked(k, Trips(fc, h))
      PROVE  Shape'
  BY <1>1, <1>2, <1>3 DEF CallChecked, CallUnchecked, Enter, Ready
<1>4. ASSUME NEW k, CallBadArgs(k)
      PROVE  Shape'
  BY <1>1, <1>4 DEF CallBadArgs, Ready
<1>5. ASSUME NEW k \in CtxKinds, NEW c \in Ctx, NEW ins, CallCtx(k, c, ins)
      PROVE  Shape'
  <2>1. CASE \E err : Refuse(k, err)
    BY <1>1, <1>5, <2>1 DEF CallCtx, Ready
  <2>2. CASE pc' = "check" /\ call'.kind = k /\ todo' = (IF k = "beginTx" THEN <<>> ELSE Trips("PAE", None))
    <3>1. CASE k = "beginTx"
      BY <2>2, <3>1, EmptyShaped, NoTrips DEF Shape
    <3>2. CASE k # "beginTx"
      <4>1. "PAE" \in Planned(k) /\ "PAE" \in FC /\ None \in Opt(Handle)
        BY <3>2 DEF CtxKinds
      <4> QED BY <2>2, <3>2, <4>1, <1>2
    <3> QED BY <3>1, <3>2
  <2> QED BY <1>5, <2>1, <2>2 DEF CallCtx
<1>6. CASE \E c \in Ctx : \/ CallCtx("query", c, FALSE)
                          \/ \E ins \in BOOLEAN : CallCtx("exec", c, ins)
                          \/ CallCtx("beginTx", c, FALSE)
  BY <1>5, <1>6 DEF CtxKinds
<1>7. CASE \E h \in Handle : \/ \E ins \in BOOLEAN : StmtExec(h, ins) \/ StmtExecArgs(h, ins)
                             \/ StmtQuery(h) \/ StmtQueryArgs(h)
  BY <1>3, <1>4, <1>7 DEF StmtExec, StmtExecArgs, StmtQuery, StmtQueryArgs
<1>8. CASE \E h \in Handle : StmtClose(h) \/ RowsFetch(h) \/ RowsClose(h)
  BY <1>3, <1>8 DEF StmtClose, RowsFetch, RowsClose
<1>9. CASE Prepare \/ Ping \/ ServerVersion \/ EndTran
  BY <1>3, <1>9 DEF Prepare, Ping, ServerVersion, EndTran
<1>10. CASE Begin \/ Close
  BY <1>1, <1>10 DEF Begin, Close, Ready
<1>11. CASE \E h \in Handle : RowsForget(h)
  BY <1>11 DEF RowsForget, Shape
<1> QED BY <1>6, <1>7, <1>8, <1>9, <1>10, <1>11 DEF Start

LEMMA StepShape ==
  ASSUME TypeOK, Shape, Step \/ RecvJunk
  PROVE  Shape'
<1>0. call \in Call /\ toCli \in Seq(Unit)
  BY DEF TypeOK, CallerType, NetType
<1>1. CASE Check
  <2>1. call'.kind = call.kind
    BY <1>0, <1>1 DEF Check, Call
  <2>2. CASE Continue(<<>>)
    BY <2>1, <2>2, EmptyShaped, ContinueShape
  <2>3. CASE pc' = "send" /\ UNCHANGED todo
    BY <2>1, <2>3 DEF Shape
  <2> QED BY <1>1, <2>2, <2>3 DEF Check
<1>2. CASE Send \/ RecvLen
  BY <1>2 DEF Send, RecvLen, Shape
<1>3. CASE SendFail \/ RecvTimeout \/ RecvEOF
  BY <1>3, FailShape DEF SendFail, RecvTimeout, RecvEOF, Waiting, TypeOK, CallerType
<1>4. CASE RecvBody
  <2>1. Head(toCli) \in Unit
    BY <1>0, <1>4, TailFacts DEF RecvBody
  <2>2. PICK ok \in BOOLEAN : Handler([Head(toCli).a EXCEPT !.ok = ok])
    BY <1>4, <2>1 DEF RecvBody, Unit, Answer
  <2>3. [Head(toCli).a EXCEPT !.ok = ok] \in Answer
    BY <2>1 DEF Unit, Answer
  <2> QED BY <1>4, <2>2, <2>3, HandlerShape DEF RecvBody, TypeOK, CallerType
<1>5. CASE RecvJunk
  <2>1. PICK a \in [id : {0}, ok : BOOLEAN, h : Opt(Handle), ins : BOOLEAN] : Handler(a)
    BY <1>5 DEF RecvJunk
  <2>2. a \in Answer
    BY DEF Answer
  <2> QED BY <1>5, <2>1, <2>2, HandlerShape DEF RecvJunk, TypeOK, CallerType
<1>6. CASE Reset \/ Stop
  BY <1>0, <1>6 DEF Reset, Stop, Return, Shape, Call
<1> QED BY <1>1, <1>2, <1>3, <1>4, <1>5, <1>6 DEF Step

LEMMA NextShape == TypeOK /\ Shape /\ [Next]_vars => Shape'
<1> SUFFICES ASSUME TypeOK, Shape, [Next]_vars PROVE Shape'
  OBVIOUS
<1>1. CASE \/ UNCHANGED vars \/ Cas \/ Crash
           \/ \E w \in Watcher : WatchStep(w)
           \/ \E c \in Ctx : Cancel(c) \/ TimePasses(c) \/ Expire(c)
  BY <1>1 DEF vars, Cas, CasRejects, CasAllocates, CasUses, CasSession, CasIdle, Crash, WatchStep,
              WatchFire, WatchQuit, WatchSet, Cancel, TimePasses, Expire, Shape
<1> QED BY <1>1, StartShape, StepShape DEF Next

-----------------------------------------------------------------------------
(***************************************************************************)
(* What a step does to the handles.                                        *)
(***************************************************************************)

LEMMA InitShape == Init => Shape
BY EmptyShaped DEF Init, Shape

Held == stmts \cup cursors

\* The handles of the FC=6 round trips that the server has not served.
Unserved == IF Waiting /\ toSrv = <<>> THEN Closes(Tail(todo)) ELSE Closes(todo)

\* A call that starts: it sends no FC=6, or the one for a handle it lets go of.
StartMoves ==
  \/ UNCHANGED <<stmts, cursors, todo>>
  \/ UNCHANGED <<stmts, cursors>> /\ Closes(todo') = {} /\ Distinct(todo')
  \/ \E h \in Handle :
       /\ \/ h \in stmts /\ stmts' = stmts \ {h} /\ UNCHANGED cursors
          \/ h \in cursors /\ cursors' = cursors \ {h} /\ UNCHANGED stmts
       /\ Closes(todo') = {h} /\ Distinct(todo')

\* An answer that names handle h: h is closed next or taken by a stmt or rows
\* value, and lost only to a context that is done.
AnswerMoves(h) ==
  \/ /\ UNCHANGED <<stmts, cursors>> /\ Distinct(todo')
     /\ Closes(todo') \subseteq Closes(Tail(todo)) \cup Own(h)
     /\ CtxDone(call.ctx) \/ Closes(Tail(todo)) \cup Own(h) \subseteq Closes(todo')
  \/ /\ stmts' = stmts \cup Own(h) /\ UNCHANGED cursors /\ Closes(todo') = {} /\ Distinct(todo')
     /\ Closes(Tail(todo)) = {}
  \/ /\ cursors' = cursors \cup Own(h) /\ UNCHANGED stmts /\ Closes(todo') = {} /\ Distinct(todo')
     /\ Closes(Tail(todo)) = {}

LEMMA StartEffect ==
  ASSUME TypeOK, Start
  PROVE  StartMoves /\ (autoCommit' => autoCommit)
<1> DEFINE P == StartMoves /\ (autoCommit' => autoCommit)
<1>1. ASSUME NEW fc \in FC, NEW h \in Opt(Handle), fc # "CLOSE"
      PROVE  Closes(Trips(fc, h)) = {} /\ Distinct(Trips(fc, h))
  BY <1>1, OneTrip
<1>2. ASSUME NEW h \in Handle
      PROVE  Closes(Trips("CLOSE", h)) = {h} /\ Distinct(Trips("CLOSE", h))
  BY OneTrip DEF FC, Opt
<1>3. Closes(<<>>) = {} /\ Distinct(<<>>)
  BY NoTrips
<1>4. ASSUME NEW k, NEW ins, NEW fc \in FC, NEW h \in Opt(Handle), fc # "CLOSE",
             UNCHANGED <<autoCommit, stmts, cursors>>,
             CallChecked(k, ins, Trips(fc, h)) \/ CallUnchecked(k, Trips(fc, h))
      PROVE  P
  BY <1>1, <1>4 DEF CallChecked, CallUnchecked, Enter, Refuse, StartMoves
<1>5. ASSUME NEW k, CallBadArgs(k)
      PROVE  P
  BY <1>5 DEF CallBadArgs, Refuse, StartMoves, objs
<1>6. ASSUME NEW k, NEW c \in Ctx, NEW ins, CallCtx(k, c, ins)
      PROVE  P
  <2>1. UNCHANGED <<autoCommit, stmts, cursors>>
    BY <1>6 DEF CallCtx, objs
  <2>2. UNCHANGED todo \/ todo' = <<>> \/ todo' = Trips("PAE", None)
    BY <1>6 DEF CallCtx, Refuse
  <2>3. Closes(Trips("PAE", None)) = {} /\ Distinct(Trips("PAE", None))
    BY <1>1 DEF FC, Opt
  <2> QED BY <1>3, <2>1, <2>2, <2>3 DEF StartMoves
<1>7. CASE \E c \in Ctx : \/ CallCtx("query", c, FALSE)
                          \/ \E ins \in BOOLEAN : CallCtx("exec", c, ins)
                          \/ CallCtx("beginTx", c, FALSE)
  BY <1>6, <1>7
<1>8. CASE \E h \in Handle : \/ \E ins \in BOOLEAN : StmtExec(h, ins) \/ StmtExecArgs(h, ins)
                             \/ StmtQuery(h) \/ StmtQueryArgs(h)
  BY <1>4, <1>5, <1>8 DEF StmtExec, StmtExecArgs, StmtQuery, StmtQueryArgs, CallChecked, objs, FC, Opt
<1>9. CASE \E h \in Handle : StmtClose(h) \/ RowsClose(h)
  BY <1>2, <1>9 DEF StmtClose, RowsClose, CallUnchecked, Enter, StartMoves
<1>10. CASE \E h \in Handle : RowsFetch(h)
  BY <1>4, <1>10 DEF RowsFetch, objs, FC, Opt
<1>11. CASE Prepare \/ Ping \/ ServerVersion \/ EndTran
  BY <1>4, <1>11 DEF Prepare, Ping, ServerVersion, EndTran, CallChecked, objs, FC, Opt
<1>12. CASE Begin \/ Close
  BY <1>12 DEF Begin, Close, Refuse, StartMoves, TypeOK, ObjsType
<1>13. CASE \E h \in Handle : RowsForget(h)
  BY <1>13 DEF RowsForget, StartMoves
<1> QED BY <1>7, <1>8, <1>9, <1>10, <1>11, <1>12, <1>13 DEF Start

LEMMA AnswerEffect ==
  ASSUME TypeOK, Shape, todo # <<>>, Distinct(todo), NEW a \in Answer, Handler(a),
         a.h # None => /\ a.ok /\ Head(todo).fc \in {"PREPARE", "PAE", "LASTID"}
                       /\ a.h \notin Closes(todo)
  PROVE  /\ AnswerMoves(a.h)
         /\ autoCommit' => autoCommit \/ (a.ok /\ Head(todo).fc = "ENDTRAN")
<1> DEFINE rest == Tail(todo)
           fc == Head(todo).fc
           P == /\ AnswerMoves(a.h)
                /\ autoCommit' => autoCommit \/ (a.ok /\ fc = "ENDTRAN")
<1>0. /\ call \in Call /\ todo \in Seq(Trip) /\ a.h \in Opt(Handle) /\ a.ins \in BOOLEAN /\ call.ins \in BOOLEAN
      /\ rest \in Seq(Trip) /\ Distinct(rest) /\ Closes(rest) \subseteq Closes(todo)
      /\ fc \in Planned(call.kind) /\ (fc \notin BestEffort => rest = <<>>)
  BY TailTrips DEF TypeOK, CallerType, Call, Answer, Shape, Shaped
<1>1. Closes(<<>>) = {} /\ Distinct(<<>>)
  BY NoTrips
<1>2. fc \notin BestEffort => Closes(rest) = {}
  BY <1>0, <1>1
<1>3. a.h = None => Own(a.h) = {}
  BY DEF Own
<1>4. ASSUME todo' \in {<<>>, rest}, UNCHANGED <<stmts, cursors, autoCommit>>,
             todo' = rest \/ Closes(rest) = {}, a.h = None
      PROVE  P
  BY <1>0, <1>1, <1>3, <1>4 DEF AnswerMoves
<1>5. CASE OnError(a)
  <2>1. Continue(IF fc \in BestEffort THEN rest ELSE <<>>) /\ UNCHANGED objs
    BY <1>0, <1>5, FailEffect DEF OnError
  <2>2. UNCHANGED <<stmts, cursors, autoCommit>> /\ a.h = None
    BY <1>5, <2>1 DEF OnError, objs
  <2>3. CASE fc \in BestEffort
    <3>1. todo' = rest
      BY <2>1, <2>3 DEF Continue
    <3> QED BY <1>4, <2>2, <3>1
  <2>4. CASE fc \notin BestEffort
    <3>1. todo' = <<>>
      BY <2>1, <2>4 DEF Continue
    <3> QED BY <1>2, <1>4, <2>2, <2>4, <3>1
  <2> QED BY <2>3, <2>4
<1>6. CASE OnOther(a)
  <2>1. todo' = rest /\ UNCHANGED <<stmts, cursors, autoCommit>> /\ a.h = None
    BY <1>6 DEF OnOther, Continue, objs
  <2> QED BY <1>4, <2>1
<1>7. CASE OnQuery(a) \/ OnStmtQuery(a)
  <2>1. todo' = <<>> /\ UNCHANGED <<stmts, autoCommit>> /\ fc \in {"PAE", "EXECUTE"}
        /\ (call.kind = "stmtQuery" => fc = "EXECUTE")
    BY <1>0, <1>7 DEF OnQuery, OnStmtQuery, Continue, Planned
  <2>2. Closes(rest) = {}
    BY <1>2, <2>1 DEF BestEffort
  <2>3. \/ cursors' = cursors \cup Own(a.h)
        \/ UNCHANGED cursors /\ (CtxDone(call.ctx) \/ a.h = None)
    BY <1>7, <2>1 DEF OnQuery, OnStmtQuery
  <2> QED BY <1>1, <1>3, <2>1, <2>2, <2>3 DEF AnswerMoves
<1>8. CASE OnPrepare(a)
  <2>1. todo' = <<>> /\ UNCHANGED <<cursors, autoCommit>> /\ fc = "PREPARE" /\ stmts' = stmts \cup Own(a.h)
    BY <1>0, <1>8 DEF OnPrepare, Continue, Planned
  <2> QED BY <1>1, <1>2, <2>1 DEF AnswerMoves, BestEffort
<1>9. CASE OnEndTran(a)
  <2>1. todo' = <<>> /\ UNCHANGED <<stmts, cursors>> /\ fc = "ENDTRAN" /\ a.ok
    BY <1>0, <1>9 DEF OnEndTran, Continue, Planned
  <2> QED BY <1>1, <1>2, <1>3, <2>1 DEF AnswerMoves, BestEffort
<1>10. CASE OnExec(a)
  <2> DEFINE s == LastIdIf(a.ins) \o CloseOf(a.h)
  <2>1. Closes(s) = Own(a.h) /\ Distinct(s)
    <3>1. LastIdIf(a.ins) \in Seq(Trip) /\ CloseOf(a.h) \in Seq(Trip) /\ Closes(LastIdIf(a.ins)) = {}
          /\ Closes(CloseOf(a.h)) = Own(a.h) /\ Distinct(LastIdIf(a.ins)) /\ Distinct(CloseOf(a.h))
      BY <1>0, FollowUps
    <3>2. Closes(LastIdIf(a.ins)) \cap Closes(CloseOf(a.h)) = {}
      BY <3>1
    <3>3. Closes(s) = Closes(LastIdIf(a.ins)) \cup Closes(CloseOf(a.h)) /\ Distinct(s)
      BY <3>1, <3>2, JoinTrips
    <3> QED BY <3>1, <3>3
  <2> HIDE DEF s
  <2>2. UNCHANGED <<stmts, cursors, autoCommit>> /\ Closes(rest) = {}
        /\ (todo' = s \/ (todo' = <<>> /\ CtxDone(call.ctx)))
    BY <1>2, <1>10 DEF OnExec, Continue, objs, BestEffort, s
  <2> QED BY <1>1, <2>1, <2>2 DEF AnswerMoves
<1>11. CASE OnStmtExec(a)
  <2> DEFINE c == IF call.kind = "stmtExecArgs" THEN CloseOf(a.h) ELSE <<>>
             s == c \o LastIdIf(call.ins)
  <2>1. call.kind = "stmtExec" => fc = "EXECUTE"
    BY <1>0, <1>11 DEF OnStmtExec, Planned
  <2>2. c \in Seq(Trip) /\ Closes(c) = Own(a.h) /\ Distinct(c)
    BY <1>0, <1>3, <1>11, <2>1, FollowUps, NoTrips DEF OnStmtExec
  <2>3. LastIdIf(call.ins) \in Seq(Trip) /\ Closes(LastIdIf(call.ins)) = {} /\ Distinct(LastIdIf(call.ins))
    BY <1>0, FollowUps
  <2>4. UNCHANGED <<stmts, cursors, autoCommit>> /\ Closes(rest) = {} /\ todo' = s
    BY <1>2, <1>11 DEF OnStmtExec, Continue, objs, BestEffort
  <2> HIDE DEF c
  <2>5. Closes(s) = Closes(c) \cup Closes(LastIdIf(call.ins)) /\ Distinct(s)
    <3>1. Closes(c) \cap Closes(LastIdIf(call.ins)) = {}
      BY <2>3
    <3> QED BY <2>2, <2>3, <3>1, JoinTrips
  <2>6. Closes(s) = Own(a.h)
    BY <2>2, <2>3, <2>5
  <2> HIDE DEF s
  <2> QED BY <2>4, <2>5, <2>6 DEF AnswerMoves
<1>12. CASE OnLastId(a)
  <2> DEFINE s == CloseOf(a.h) \o rest
  <2>1. CloseOf(a.h) \in Seq(Trip) /\ Closes(CloseOf(a.h)) = Own(a.h) /\ Distinct(CloseOf(a.h))
    BY <1>0, FollowUps
  <2>2. Own(a.h) \cap Closes(rest) = {}
    BY <1>0 DEF Own
  <2>3. Closes(s) = Own(a.h) \cup Closes(rest) /\ Distinct(s)
    BY <1>0, <2>1, <2>2, JoinTrips
  <2>4. UNCHANGED <<stmts, cursors, autoCommit>> /\ todo' = s
    BY <1>12 DEF OnLastId, Continue, objs
  <2> HIDE DEF s
  <2> QED BY <2>3, <2>4 DEF AnswerMoves
<1> QED BY <1>5, <1>6, <1>7, <1>8, <1>9, <1>10, <1>11, <1>12 DEF Handler

-----------------------------------------------------------------------------
(***************************************************************************)
(* The handles while the connection is in step.                            *)
(***************************************************************************)

\* What an answer on its way says is true: an END_TRAN that succeeded left no
\* work open, and a handle it names is nobody's yet.
Promise(a) ==
  /\ a.ok /\ Head(todo).fc = "ENDTRAN" => ~tran
  /\ a.h # None => /\ a.ok /\ Head(todo).fc \in {"PREPARE", "PAE", "LASTID"}
                   /\ a.h \in open /\ a.h \notin Held /\ a.h \notin Closes(todo)

HandlesOK ==
  /\ Held \subseteq open /\ stmts \cap cursors = {}
  /\ Closes(todo) \cap Held = {} /\ Unserved \subseteq open /\ Distinct(todo)

\* The invariant behind NoDanglingHandle and AutoCommitIsTrue.
Facts ==
  orphaned = {} /\ srvUp =>
    /\ HandlesOK
    /\ autoCommit => ~tran
    /\ \A i \in DOMAIN toCli : Promise(toCli[i].a)

LEMMA InitFacts == Init => Facts
<1>1. DOMAIN <<>> = {}
  BY EmptySeq
<1> QED BY <1>1, NoTrips DEF Init, Facts, HandlesOK, Held, Unserved, Waiting

LEMMA StartFacts ==
  ASSUME TypeOK, OneInFlight, Facts, Start, orphaned' = {}, srvUp'
  PROVE  Facts'
<1>1. /\ pc = "idle" /\ ~Waiting /\ ~Waiting' /\ orphaned = {} /\ srvUp
      /\ UNCHANGED <<toSrv, toCli, open, tran>>
  BY StartSocket DEF Waiting
<1>2. toSrv = <<>> /\ toCli = <<>>
  BY <1>1 DEF OneInFlight
<1>3. StartMoves /\ (autoCommit' => autoCommit)
  BY StartEffect
<1>4. HandlesOK /\ (autoCommit => ~tran)
  BY <1>1 DEF Facts
<1>5. HandlesOK'
  <2>1. Unserved = Closes(todo) /\ Unserved' = Closes(todo')
    BY <1>1 DEF Unserved, Closes
  <2>2. CASE UNCHANGED <<stmts, cursors, todo>>
    BY <1>1, <1>4, <2>1, <2>2 DEF HandlesOK, Held, Distinct, Closes
  <2>3. CASE UNCHANGED <<stmts, cursors>> /\ Closes(todo') = {} /\ Distinct(todo')
    BY <1>1, <1>4, <2>1, <2>3 DEF HandlesOK, Held
  <2>4. ASSUME NEW h \in Handle, Closes(todo') = {h}, Distinct(todo'),
               \/ h \in stmts /\ stmts' = stmts \ {h} /\ UNCHANGED cursors
               \/ h \in cursors /\ cursors' = cursors \ {h} /\ UNCHANGED stmts
        PROVE  HandlesOK'
    BY <1>1, <1>4, <2>1, <2>4 DEF HandlesOK, Held
  <2> QED BY <1>3, <2>2, <2>3, <2>4 DEF StartMoves
<1>6. DOMAIN toCli' = {}
  BY <1>1, <1>2, EmptySeq
<1> QED BY <1>1, <1>3, <1>4, <1>5, <1>6 DEF Facts

\* The answer that RecvBody reads while the connection is in step.
LEMMA ReadsOwn ==
  ASSUME TypeOK, OneInFlight, Paired, Facts, RecvBody, orphaned = {}
  PROVE  /\ frame = nreq /\ orphaned' = {} /\ toSrv = <<>> /\ toSrv' = <<>> /\ toCli' = <<>>
         /\ ~Waiting' /\ todo # <<>> /\ Waiting /\ DOMAIN toCli = {1}
         /\ toCli[1].a \in Answer /\ Handler(toCli[1].a)
<1>1. pc = "body" /\ toCli # <<>> /\ toCli' = Tail(toCli) /\ UNCHANGED toSrv
      /\ orphaned' = IF frame = nreq THEN orphaned ELSE orphaned \cup {nreq}
  BY DEF RecvBody
<1>2. frame = nreq /\ toSrv = <<>> /\ Len(toCli) <= 1 /\ toCli[1].a.id = nreq
  BY <1>1 DEF OneInFlight, Paired
<1>3. toCli \in Seq(Unit) /\ Head(toCli) = toCli[1] /\ toCli[1] \in Unit
      /\ Tail(toCli) \in Seq(Unit) /\ Len(Tail(toCli)) = Len(toCli) - 1
  BY <1>1, TailFacts DEF TypeOK, NetType
<1>4. DOMAIN toCli = 1..Len(toCli) /\ Len(toCli) \in Nat /\ Len(toCli) # 0
  BY <1>1, <1>3, DomainOf, ShortSeq
<1>5. Len(toCli) = 1 /\ Len(Tail(toCli)) = 0
  BY <1>2, <1>3, <1>4
<1>6. toCli' = <<>> /\ DOMAIN toCli = {1}
  BY <1>1, <1>3, <1>4, <1>5, ShortSeq
<1>7. toCli[1].a \in Answer
  BY <1>3 DEF Unit
<1>8. Handler([toCli[1].a EXCEPT !.ok = toCli[1].a.ok])
  BY <1>2, <1>3 DEF RecvBody
<1>9. [toCli[1].a EXCEPT !.ok = toCli[1].a.ok] = toCli[1].a
  BY <1>7 DEF Answer
<1>10. ~Waiting' /\ Waiting /\ todo # <<>>
  BY <1>1, <1>8, HandlerLeavesRead DEF Waiting, TypeOK, CallerType
<1> QED BY <1>1, <1>2, <1>6, <1>7, <1>8, <1>9, <1>10

LEMMA StepFacts ==
  ASSUME TypeOK, OneInFlight, Paired, Shape, Facts, Step \/ RecvJunk, orphaned' = {}, srvUp'
  PROVE  Facts'
<1>0. toSrv \in Seq(Request) /\ toCli \in Seq(Unit) /\ todo \in Seq(Trip) /\ call \in Call
  BY DEF TypeOK, CallerType, NetType
<1>1. orphaned = {} /\ srvUp /\ UNCHANGED <<srvUp, open, tran>>
  BY DEF Step, Check, Send, SendFail, RecvLen, RecvTimeout, RecvEOF, RecvBody, RecvJunk, Reset, Stop, Quiet, net
<1>2. HandlesOK /\ (autoCommit => ~tran) /\ \A i \in DOMAIN toCli : Promise(toCli[i].a)
  BY <1>1 DEF Facts
<1>3. ASSUME UNCHANGED <<stmts, cursors, toSrv, toCli>>, autoCommit' => autoCommit, ~Waiting, ~Waiting',
             Closes(todo') \subseteq Closes(todo), Distinct(todo')
      PROVE  Facts'
  <2>1. DOMAIN toCli' = {}
    BY <1>1, <1>3, EmptySeq DEF OneInFlight
  <2>2. Unserved = Closes(todo) /\ Unserved' = Closes(todo')
    BY <1>3 DEF Unserved, Closes
  <2> QED BY <1>1, <1>2, <1>3, <2>1, <2>2 DEF Facts, HandlesOK, Held
<1>4. CASE Check
  <2>1. UNCHANGED <<stmts, cursors, toSrv, toCli>> /\ (autoCommit' => autoCommit) /\ todo' \in {todo, <<>>}
    BY <1>4 DEF Check, Continue, Quiet, net
  <2>2. ~Waiting /\ ~Waiting'
    BY <1>4, LeavesRead DEF Check, Waiting
  <2> QED BY <1>2, <1>3, <2>1, <2>2, NoTrips DEF HandlesOK
<1>5. CASE SendFail
  <2>1. UNCHANGED <<stmts, cursors, toSrv, toCli, autoCommit>> /\ pc = "send" /\ todo # <<>> /\ Fail(TRUE)
    BY <1>5 DEF SendFail, Quiet, objs, net, TypeOK, CallerType
  <2>2. ~Waiting /\ ~Waiting'
    BY <2>1, LeavesRead DEF Waiting
  <2>3. todo' \in {Tail(todo), <<>>}
    BY <1>0, <2>1, FailEffect DEF Continue
  <2>4. Closes(Tail(todo)) \subseteq Closes(todo) /\ Distinct(Tail(todo))
    BY <1>0, <1>2, <2>1, TailTrips DEF HandlesOK
  <2> QED BY <1>3, <2>1, <2>2, <2>3, <2>4, NoTrips
<1>6. CASE Reset \/ Stop
  <2>1. UNCHANGED <<stmts, cursors, toSrv, toCli, autoCommit, todo>>
    BY <1>6 DEF Reset, Stop, objs, net
  <2>2. ~Waiting /\ ~Waiting'
    BY <1>6 DEF Reset, Stop, Return, Waiting
  <2> QED BY <1>2, <1>3, <2>1, <2>2 DEF HandlesOK
<1>7. CASE Send
  <2> DEFINE q == [id |-> nreq + 1, fc |-> Head(todo).fc, h |-> Head(todo).h,
                   ac |-> autoCommit \/ Head(todo).fc = "VERSION",
                   ins |-> call.ins /\ Head(todo).fc = "PAE"]
  <2>1. pc = "send" /\ UNCHANGED <<stmts, cursors, toCli, autoCommit, todo>> /\ toSrv' = Append(toSrv, q)
    BY <1>1, <1>7 DEF Send, objs
  <2>2. toSrv = <<>> /\ toCli = <<>>
    BY <1>1, <2>1 DEF OneInFlight, Waiting
  <2> HIDE DEF q
  <2>3. toSrv' # <<>>
    BY <2>1, <2>2
  <2>4. Unserved = Closes(todo) /\ Unserved' = Closes(todo')
    BY <2>1, <2>3 DEF Unserved, Waiting, Closes
  <2>5. DOMAIN toCli' = {}
    BY <2>1, <2>2, EmptySeq
  <2> QED BY <1>1, <1>2, <2>1, <2>4, <2>5 DEF Facts, HandlesOK, Held
<1>8. CASE RecvLen
  <2>1. pc = "len" /\ pc' = "body" /\ toCli # <<>> /\ toCli' \in {Tail(toCli), Torn(toCli)}
        /\ UNCHANGED <<stmts, cursors, autoCommit, toSrv, todo>>
    BY <1>8 DEF RecvLen, objs
  <2>2. \A i \in DOMAIN toCli' : \E j \in DOMAIN toCli : toCli'[i].a = toCli[j].a
    <3>1. CASE toCli' = Tail(toCli)
      BY <1>0, <2>1, <3>1, TailFacts
    <3>2. CASE toCli' = Torn(toCli)
      BY <1>0, <2>1, <3>2, TornFacts
    <3> QED BY <2>1, <3>1, <3>2
  <2>3. UNCHANGED <<Held, Unserved, Closes(todo)>>
    BY <2>1 DEF Held, Unserved, Waiting, Closes
  <2>4. \A i \in DOMAIN toCli' : Promise(toCli[i].a)'
    BY <1>1, <1>2, <2>1, <2>2, <2>3 DEF Promise
  <2> QED BY <1>1, <1>2, <2>1, <2>3, <2>4 DEF Facts, HandlesOK, Distinct
<1>9. CASE RecvBody
  <2> DEFINE a == toCli[1].a
  <2>1. /\ toSrv = <<>> /\ toSrv' = <<>> /\ toCli' = <<>> /\ Waiting /\ ~Waiting' /\ todo # <<>>
        /\ a \in Answer /\ Handler(a) /\ DOMAIN toCli = {1}
    BY <1>1, <1>9, ReadsOwn
  <2>2. Promise(a) /\ Unserved = Closes(Tail(todo)) /\ Unserved' = Closes(todo')
    BY <1>2, <2>1 DEF Unserved, Closes
  <2> HIDE DEF a
  <2>3. AnswerMoves(a.h) /\ (autoCommit' => autoCommit \/ (a.ok /\ Head(todo).fc = "ENDTRAN"))
    BY <1>2, <2>1, <2>2, AnswerEffect DEF Promise, HandlesOK
  <2>4. Own(a.h) \subseteq open /\ Own(a.h) \cap Held = {}
    BY <2>2 DEF Promise, Own
  <2>5. Closes(Tail(todo)) \subseteq open /\ Closes(Tail(todo)) \cap Held = {}
    <3>1. Closes(Tail(todo)) \subseteq Closes(todo)
      BY <1>0, <2>1, TailTrips
    <3> QED BY <1>2, <2>2, <3>1 DEF HandlesOK
  <2>6. HandlesOK'
    <3>1. CASE /\ UNCHANGED <<stmts, cursors>> /\ Distinct(todo')
               /\ Closes(todo') \subseteq Closes(Tail(todo)) \cup Own(a.h)
      BY <1>1, <1>2, <2>2, <2>4, <2>5, <3>1 DEF HandlesOK, Held
    <3>2. CASE Closes(todo') = {} /\ Distinct(todo')
               /\ \/ stmts' = stmts \cup Own(a.h) /\ UNCHANGED cursors
                  \/ cursors' = cursors \cup Own(a.h) /\ UNCHANGED stmts
      BY <1>1, <1>2, <2>2, <2>4, <3>2 DEF HandlesOK, Held
    <3> QED BY <2>3, <3>1, <3>2 DEF AnswerMoves
  <2>7. autoCommit' => ~tran'
    BY <1>1, <1>2, <2>2, <2>3 DEF Promise
  <2>8. DOMAIN toCli' = {}
    BY <2>1, EmptySeq
  <2> QED BY <2>6, <2>7, <2>8 DEF Facts
<1>10. ~RecvTimeout /\ ~RecvEOF /\ ~RecvJunk
  BY <1>1 DEF RecvTimeout, RecvEOF, RecvJunk
<1> QED BY <1>4, <1>5, <1>6, <1>7, <1>8, <1>9, <1>10 DEF Step

LEMMA ServerFacts ==
  ASSUME TypeOK, OneInFlight, Paired, Facts, Cas, orphaned' = {}, srvUp'
  PROVE  Facts'
<1>1. orphaned = {} /\ srvUp
  BY DEF Cas, CasRejects, CasAllocates, CasUses, CasSession, CasIdle
<1> DEFINE q == Head(toSrv)
<1>2. PICK a \in Answer :
        /\ pc = "len" /\ CasIdle /\ toCli = <<>> /\ toSrv # <<>> /\ q = Current /\ toSrv' = <<>>
        /\ toCli' = <<[part |-> "len", a |-> a], [part |-> "body", a |-> a]>>
        /\ \/ ~a.ok /\ a.h = None /\ UNCHANGED <<open, tran>> /\ ~(q.fc = "CLOSE" /\ q.h \in open)
           \/ /\ a.ok /\ q.fc \in {"PREPARE", "PAE", "LASTID"} /\ a.h \in Handle \ open
              /\ open' = open \cup {a.h}
              /\ tran' = IF q.fc = "PREPARE" THEN tran ELSE ~q.ac
           \/ /\ a.ok /\ a.h = None /\ q.fc \in {"EXECUTE", "FETCH", "CLOSE"} /\ q.h \in open
              /\ open' = IF q.fc = "CLOSE" THEN open \ {q.h} ELSE open
              /\ tran' = IF q.fc = "EXECUTE" THEN ~q.ac ELSE tran
           \/ /\ a.ok /\ a.h = None /\ q.fc \in {"ENDTRAN", "VERSION"} /\ UNCHANGED open
              /\ tran' \in IF q.fc = "ENDTRAN" THEN {FALSE} ELSE {tran, tran /\ ~q.ac}
  BY <1>1, CasInStep
<1>3. q.fc = Head(todo).fc /\ q.h = Head(todo).h /\ q.ac = (autoCommit \/ Head(todo).fc = "VERSION")
  BY <1>2 DEF Current
<1> HIDE DEF q
<1>4. HandlesOK /\ (autoCommit => ~tran)
  BY <1>1 DEF Facts
<1>5. UNCHANGED <<stmts, cursors, autoCommit, todo, pc>>
  BY <1>2 DEF CasIdle, objs
<1>6. todo \in Seq(Trip) /\ todo # <<>> /\ tran \in BOOLEAN /\ autoCommit \in BOOLEAN /\ None \notin Handle
  BY <1>2, ConnAssumption DEF TypeOK, CallerType, NetType, ObjsType
<1>7. Unserved = Closes(todo) /\ Unserved' = Closes(Tail(todo))
  BY <1>2, <1>5 DEF Unserved, Waiting, Closes
<1>8. /\ Closes(Tail(todo)) \subseteq Closes(todo)
      /\ q.fc = "CLOSE" => q.h \in Closes(todo) /\ q.h \notin Closes(Tail(todo))
  BY <1>3, <1>4, <1>6, TailTrips DEF HandlesOK
<1>9. HandlesOK'
  <2>1. CASE open \subseteq open'
    BY <1>4, <1>5, <1>7, <1>8, <2>1 DEF HandlesOK, Held, Closes, Distinct
  <2>2. CASE q.fc = "CLOSE" /\ open' = open \ {q.h}
    BY <1>4, <1>5, <1>7, <1>8, <2>2 DEF HandlesOK, Held, Closes, Distinct
  <2> QED BY <1>2, <2>1, <2>2
<1>10. autoCommit' => ~tran'
  BY <1>2, <1>3, <1>4, <1>5, <1>6
<1>11. Promise(a)'
  <2>1. a.ok /\ q.fc = "ENDTRAN" => ~tran'
    BY <1>2
  <2>2. a.h # None => /\ a.ok /\ q.fc \in {"PREPARE", "PAE", "LASTID"}
                      /\ a.h \in open' /\ a.h \notin open
    BY <1>2
  <2>3. a.h # None => a.h \notin Held /\ a.h \notin Closes(todo)
    BY <1>4, <1>7, <2>2 DEF HandlesOK
  <2> QED BY <1>3, <1>5, <2>1, <2>2, <2>3 DEF Promise, Held, Closes
<1>12. \A i \in DOMAIN toCli' : toCli'[i].a = a
  <2> DEFINE l == [part |-> "len", a |-> a]
             b == [part |-> "body", a |-> a]
  <2>1. toCli' = <<l, b>> /\ l.a = a /\ b.a = a
    BY <1>2
  <2> HIDE DEF l, b
  <2>2. DOMAIN toCli' = 1..2 /\ toCli'[1] = l /\ toCli'[2] = b
    BY <2>1
  <2> QED BY <2>1, <2>2
<1>13. \A i \in DOMAIN toCli' : Promise(toCli[i].a)'
  BY <1>11, <1>12 DEF Promise
<1> QED BY <1>9, <1>10, <1>13 DEF Facts

LEMMA NextFacts == TypeOK /\ OneInFlight /\ Paired /\ Shape /\ Facts /\ [Next]_vars => Facts'
<1> SUFFICES ASSUME TypeOK, OneInFlight, Paired, Shape, Facts, [Next]_vars, orphaned' = {}, srvUp'
             PROVE  Facts'
  BY DEF Facts
<1>1. CASE \/ UNCHANGED vars
           \/ \E w \in Watcher : WatchStep(w)
           \/ \E c \in Ctx : Cancel(c) \/ TimePasses(c) \/ Expire(c)
  <2>1. UNCHANGED <<orphaned, srvUp, stmts, cursors, autoCommit, todo, pc, open, tran, toSrv, toCli>>
    BY <1>1 DEF vars, WatchStep, WatchFire, WatchQuit, WatchSet, Cancel, TimePasses, Expire, net, objs
  <2> QED BY <2>1 DEF Facts, HandlesOK, Held, Unserved, Waiting, Closes, Distinct, Promise
<1>2. CASE Crash
  BY <1>2 DEF Crash
<1> QED BY <1>1, <1>2, StartFacts, StepFacts, ServerFacts DEF Next

\* A FETCH that is to be made, or waits for its answer, is that of open rows.
Fetching == call.kind = "next" /\ todo # <<>> => Head(todo).h \in cursors \cup sharers

LEMMA StartFetching ==
  ASSUME TypeOK, Start
  PROVE  Fetching'
<1>1. pc = "idle" /\ todo = <<>>
  BY StartSocket DEF TypeOK, CallerType
<1>2. ASSUME NEW h \in Handle, RowsFetch(h)
      PROVE  Fetching'
  <2>1. todo' = Trips("FETCH", h) /\ h \in cursors' \cup sharers'
    BY <1>2 DEF RowsFetch, CallUnchecked, Enter, objs
  <2> QED BY <2>1, OneTrip DEF Fetching, FC, Opt
<1>3. ASSUME NEW h \in Handle, RowsForget(h)
      PROVE  Fetching'
  BY <1>1, <1>3 DEF RowsForget, Fetching
<1>4. ASSUME NEW k, k # "next", NEW ins, NEW trips, NEW c,
             CallCtx(k, c, ins) \/ CallChecked(k, ins, trips) \/ CallUnchecked(k, trips) \/ CallBadArgs(k)
      PROVE  Fetching'
  <2>1. call'.kind = k
    BY <1>4 DEF CallCtx, CallChecked, CallUnchecked, CallBadArgs, Enter, Refuse
  <2> QED BY <1>4, <2>1 DEF Fetching
<1>5. CASE \E c \in Ctx : \/ CallCtx("query", c, FALSE)
                          \/ \E ins \in BOOLEAN : CallCtx("exec", c, ins)
                          \/ CallCtx("beginTx", c, FALSE)
  BY <1>4, <1>5
<1>6. CASE \E h \in Handle : \/ \E ins \in BOOLEAN : StmtExec(h, ins) \/ StmtExecArgs(h, ins)
                             \/ StmtQuery(h) \/ StmtQueryArgs(h)
  BY <1>4, <1>6 DEF StmtExec, StmtExecArgs, StmtQuery, StmtQueryArgs
<1>7. CASE \E h \in Handle : StmtClose(h) \/ RowsClose(h)
  BY <1>4, <1>7 DEF StmtClose, RowsClose
<1>8. CASE Prepare \/ Ping \/ ServerVersion \/ EndTran
  BY <1>4, <1>8 DEF Prepare, Ping, ServerVersion, EndTran
<1>9. CASE Begin \/ Close
  BY <1>9 DEF Begin, Close, Refuse, Fetching
<1> QED BY <1>2, <1>3, <1>5, <1>6, <1>7, <1>8, <1>9 DEF Start

LEMMA NextFetching == TypeOK /\ Shape /\ Fetching /\ [Next]_vars => Fetching'
<1> SUFFICES ASSUME TypeOK, Shape, Fetching, [Next]_vars PROVE Fetching'
  OBVIOUS
<1>0. call \in Call /\ toCli \in Seq(Unit) /\ todo \in Seq(Trip) /\ (pc \in {"send", "len", "body"} => todo # <<>>)
  BY DEF TypeOK, CallerType, NetType
<1>1. CASE UNCHANGED <<call, todo, cursors, sharers>>
  BY <1>1 DEF Fetching
<1>2. CASE \/ UNCHANGED vars \/ Cas \/ Crash
           \/ \E w \in Watcher : WatchStep(w)
           \/ \E c \in Ctx : Cancel(c) \/ TimePasses(c) \/ Expire(c)
  BY <1>1, <1>2 DEF vars, Cas, CasRejects, CasAllocates, CasUses, CasSession, CasIdle, Crash, WatchStep,
              WatchFire, WatchQuit, WatchSet, Cancel, TimePasses, Expire, objs
<1>3. CASE Check
  <2>1. call'.kind = call.kind /\ todo' \in {todo, <<>>} /\ UNCHANGED <<cursors, sharers>>
    BY <1>0, <1>3 DEF Check, Continue, Call
  <2> QED BY <2>1 DEF Fetching
<1>4. CASE Send \/ RecvLen \/ Reset \/ Stop
  <2>1. call'.kind = call.kind /\ UNCHANGED <<todo, cursors, sharers>>
    BY <1>0, <1>4 DEF Send, RecvLen, Reset, Stop, Return, objs, Call
  <2> QED BY <2>1 DEF Fetching
<1>5. ASSUME todo # <<>>, call.kind = "next"
      PROVE  Head(todo).fc = "FETCH" /\ Tail(todo) = <<>>
  BY <1>0, <1>5, TailTrips DEF Shape, Shaped, Planned, BestEffort
<1>6. ASSUME NEW t, Fail(t), todo # <<>>
      PROVE  Fetching'
  <2>1. call'.kind = call.kind /\ todo' = IF Head(todo).fc \in BestEffort THEN Tail(todo) ELSE <<>>
    BY <1>0, <1>6, FailEffect DEF Continue
  <2> QED BY <1>5, <1>6, <2>1 DEF Fetching, BestEffort
<1>7. ASSUME NEW a \in Answer, Handler(a), todo # <<>>
      PROVE  Fetching'
  <2>1. CASE OnError(a)
    BY <1>6, <1>7, <2>1 DEF OnError
  <2>2. CASE ~OnError(a)
    <3>1. call'.kind = call.kind
      BY <1>0, <1>7, <2>2 DEF Handler, OnQuery, OnExec, OnStmtExec, OnStmtQuery, OnLastId, OnPrepare, OnEndTran,
                              OnOther, Call
    <3>2. ASSUME call.kind = "next"
          PROVE  todo' = <<>>
      <4>1. Head(todo).fc = "FETCH" /\ Tail(todo) = <<>>
        BY <1>5, <1>7, <3>2
      <4>2. OnOther(a)
        BY <1>7, <2>2, <3>2, <4>1 DEF Handler, OnQuery, OnExec, OnStmtExec, OnStmtQuery, OnLastId, OnPrepare, OnEndTran
      <4> QED BY <4>1, <4>2 DEF OnOther, Continue
    <3> QED BY <3>1, <3>2 DEF Fetching
  <2> QED BY <2>1, <2>2
<1>8. CASE SendFail \/ RecvTimeout \/ RecvEOF
  BY <1>0, <1>6, <1>8 DEF SendFail, RecvTimeout, RecvEOF, Waiting
<1>9. CASE RecvBody
  <2>1. Head(toCli) \in Unit
    BY <1>0, <1>9, TailFacts DEF RecvBody
  <2>2. PICK ok \in BOOLEAN : Handler([Head(toCli).a EXCEPT !.ok = ok])
    BY <1>9, <2>1 DEF RecvBody, Unit, Answer
  <2>3. [Head(toCli).a EXCEPT !.ok = ok] \in Answer
    BY <2>1 DEF Unit, Answer
  <2> QED BY <1>0, <1>7, <1>9, <2>2, <2>3 DEF RecvBody
<1>10. CASE RecvJunk
  <2>1. PICK a \in [id : {0}, ok : BOOLEAN, h : Opt(Handle), ins : BOOLEAN] : Handler(a)
    BY <1>10 DEF RecvJunk
  <2>2. a \in Answer
    BY DEF Answer
  <2> QED BY <1>0, <1>7, <1>10, <2>1, <2>2 DEF RecvJunk
<1> QED BY <1>2, <1>3, <1>4, <1>8, <1>9, <1>10, StartFetching DEF Next, Step

\* The invariants of a connection in step, together.
Sound == TypeOK /\ OneInFlight /\ Paired /\ Shape /\ Facts /\ Fetching

LEMMA AlwaysSound == Spec => []Sound
<1>1. Init => Sound
  BY InitType, InitShape, InitFacts DEF Init, Sound, OneInFlight, Paired, Waiting, Fetching
<1>2. Sound /\ [Next]_vars => Sound'
  BY NextType, NextInStep, NextPaired, NextShape, NextFacts, NextFetching DEF Sound
<1> QED BY <1>1, <1>2, PTL DEF Spec

\* While the connection is in step, the handle of every open stmt, and of every
\* open rows value that owns one, is allocated on the server, owned once, and
\* not about to be closed, and rows.Next never fetches through a closed handle
\* as long as no stmt is closed before the rows that share its handle,
\* whichever calls of conn, stmt, rows and tx fail, in every order of calls.
THEOREM HandlesStayValid == Spec => []NoDanglingHandle
<1>1. PendingClose = Closes(todo)
  BY DEF PendingClose, Closes
<1>2. ASSUME Sound, orphaned = {}, srvUp, sharers \subseteq stmts,
             NEW q \in Elems(toSrv), q.fc = "FETCH"
      PROVE  q.h \in open
  <2>1. PICK i \in DOMAIN toSrv : q = toSrv[i]
    BY DEF Elems
  <2>2. toSrv \in Seq(Request) /\ toSrv # <<>>
    BY <1>2, <2>1, EmptySeq DEF Sound, TypeOK, NetType
  <2>3. Waiting /\ Len(toSrv) = 1
    BY <1>2, <2>2 DEF Sound, OneInFlight, Waiting, Alone
  <2>4. q = Current
    <3>1. i = 1 /\ Head(toSrv) = toSrv[1]
      BY <2>1, <2>2, <2>3, DomainOf
    <3> QED BY <1>2, <2>1, <2>2, <3>1 DEF Sound, Paired
  <2>5. todo \in Seq(Trip) /\ todo # <<>> /\ Head(todo).fc = "FETCH" /\ q.h = Head(todo).h
    BY <1>2, <2>3, <2>4 DEF Current, Waiting, Sound, TypeOK, CallerType
  <2>6. call.kind = "next"
    <3>1. "FETCH" \in Planned(call.kind)
      BY <1>2, <2>5, TailTrips DEF Sound, Shape, Shaped
    <3> QED BY <3>1 DEF Planned
  <2>7. q.h \in stmts \cup cursors
    BY <1>2, <2>5, <2>6 DEF Sound, Fetching
  <2> QED BY <1>2, <2>7 DEF Sound, Facts, HandlesOK, Held
<1>3. Sound => NoDanglingHandle
  BY <1>1, <1>2 DEF Sound, Facts, HandlesOK, Held, NoDanglingHandle
<1> QED BY <1>3, AlwaysSound, PTL

\* conn.autoCommit tells the truth between calls: Begin and BeginTx clear it
\* before the first statement, and Commit and Rollback set it again only once
\* the server has said that nothing is left open.
THEOREM AutoCommitTellsTheTruth == Spec => []AutoCommitIsTrue
<1>1. Sound => AutoCommitIsTrue
  BY DEF Sound, Facts, AutoCommitIsTrue
<1> QED BY <1>1, AlwaysSound, PTL

-----------------------------------------------------------------------------
(***************************************************************************)
(* Handles that nobody holds.                                              *)
(***************************************************************************)

Gone == \E c \in Ctx : ctx[c] # "live"

\* Reads time out, and answers are given up, only once a context is no longer
\* live: its deadline passed or its watcher fired.
InTime ==
  /\ deadline = "past" => Gone
  /\ \A w \in Watcher : watch[w].st = "fire" => Gone
  /\ orphaned # {} => Gone

LEMMA StartInTime ==
  ASSUME TypeOK, InTime, Start
  PROVE  InTime'
<1>1. UNCHANGED <<ctx, orphaned>>
  <2>1. ASSUME NEW kind, NEW c, NEW ins, CallCtx(kind, c, ins)
        PROVE  UNCHANGED <<ctx, orphaned>>
    BY <2>1 DEF CallCtx
  <2>2. ASSUME NEW kind, NEW ins, NEW trips,
               CallChecked(kind, ins, trips) \/ CallUnchecked(kind, trips) \/ CallBadArgs(kind)
        PROVE  UNCHANGED <<ctx, orphaned>>
    BY <2>2 DEF CallChecked, CallUnchecked, CallBadArgs, Quiet
  <2>3. CASE \E h \in Handle : \/ \E ins \in BOOLEAN : StmtExec(h, ins) \/ StmtExecArgs(h, ins)
                               \/ StmtQuery(h) \/ StmtQueryArgs(h)
    BY <2>2, <2>3 DEF StmtExec, StmtExecArgs, StmtQuery, StmtQueryArgs
  <2>4. CASE \E h \in Handle : StmtClose(h) \/ RowsFetch(h) \/ RowsClose(h) \/ RowsForget(h)
    BY <2>2, <2>4 DEF StmtClose, RowsFetch, RowsClose, RowsForget, Quiet
  <2>5. CASE Prepare \/ Ping \/ ServerVersion \/ EndTran \/ Begin \/ Close
    BY <2>2, <2>5 DEF Prepare, Ping, ServerVersion, EndTran, Begin, Close, Quiet
  <2> QED BY <2>1, <2>3, <2>4, <2>5 DEF Start
<1>2. ASSUME NEW kind, NEW c \in Ctx, NEW ins, CallCtx(kind, c, ins)
      PROVE  InTime'
  <2>1. CASE UNCHANGED <<deadline, watch>>
    BY <1>1, <2>1 DEF InTime, Gone
  <2>2. CASE ~UNCHANGED <<deadline, watch>>
    <3>1. deadline' = DeadlineOf(c)
          /\ \E w : watch' = IF w = None THEN watch
                             ELSE [watch EXCEPT ![w] = [st |-> "select", ctx |-> c, stop |-> FALSE]]
      BY <1>2, <2>2 DEF CallCtx
    <3>2. \A w \in Watcher : watch'[w].st = "fire" => watch[w].st = "fire"
      BY <3>1 DEF TypeOK, SockType
    <3>3. deadline' = "past" => deadline = "past" \/ ctx[c] = "due"
      BY <3>1 DEF DeadlineOf
    <3> QED BY <1>1, <3>2, <3>3 DEF InTime, Gone
  <2> QED BY <2>1, <2>2
<1>3. UNCHANGED <<deadline, watch>> => InTime'
  BY <1>1 DEF InTime, Gone
<1>4. ASSUME NEW kind, NEW ins, NEW trips,
             CallChecked(kind, ins, trips) \/ CallUnchecked(kind, trips) \/ CallBadArgs(kind)
      PROVE  UNCHANGED <<deadline, watch>>
  BY <1>4 DEF CallChecked, CallUnchecked, CallBadArgs, Quiet
<1>5. CASE \E h \in Handle : \/ \E ins \in BOOLEAN : StmtExec(h, ins) \/ StmtExecArgs(h, ins)
                             \/ StmtQuery(h) \/ StmtQueryArgs(h)
  BY <1>3, <1>4, <1>5 DEF StmtExec, StmtExecArgs, StmtQuery, StmtQueryArgs
<1>6. CASE \E h \in Handle : StmtClose(h) \/ RowsFetch(h) \/ RowsClose(h) \/ RowsForget(h)
  BY <1>3, <1>4, <1>6 DEF StmtClose, RowsFetch, RowsClose, RowsForget, Quiet
<1>7. CASE Prepare \/ Ping \/ ServerVersion \/ EndTran \/ Begin \/ Close
  BY <1>3, <1>4, <1>7 DEF Prepare, Ping, ServerVersion, EndTran, Begin, Close, Quiet
<1> QED BY <1>2, <1>5, <1>6, <1>7 DEF Start

LEMMA NextInTime == TypeOK /\ OneInFlight /\ InTime /\ [Next]_vars => InTime'
<1> SUFFICES ASSUME TypeOK, OneInFlight, InTime, [Next]_vars PROVE InTime'
  OBVIOUS
<1>0. ctx \in [Ctx -> {"live", "due", "done"}] /\ watch \in [Watcher -> Watch] /\ None \notin Ctx
  BY ConnAssumption DEF TypeOK, SockType
<1>1. CASE UNCHANGED <<deadline, ctx, watch, orphaned>>
  BY <1>1 DEF InTime, Gone
<1>2. CASE UNCHANGED vars \/ Check \/ Send \/ SendFail \/ RecvLen \/ RecvEOF \/ Cas \/ Crash
  BY <1>1, <1>2 DEF vars, Check, Send, SendFail, RecvLen, RecvEOF, Quiet, Crash,
                    Cas, CasRejects, CasAllocates, CasUses, CasSession, CasIdle
<1>3. CASE RecvTimeout \/ RecvBody \/ RecvJunk
  <2>1. orphaned' # {} => deadline = "past" \/ orphaned # {}
    BY <1>3 DEF RecvTimeout, RecvBody, RecvJunk, OneInFlight, Waiting
  <2> QED BY <1>3, <2>1 DEF RecvTimeout, RecvBody, RecvJunk, InTime, Gone
<1>4. CASE Reset \/ Stop
  <2>1. UNCHANGED <<ctx, orphaned>> /\ deadline' \in {deadline, "zero"}
    BY <1>4 DEF Reset, Stop
  <2>2. \A w \in Watcher : watch'[w].st = watch[w].st
    BY <1>0, <1>4 DEF Reset, Stop, Watch
  <2> QED BY <2>1, <2>2 DEF InTime, Gone
<1>5. ASSUME NEW w \in Watcher, WatchStep(w)
      PROVE  InTime'
  <2>1. UNCHANGED <<ctx, orphaned>>
    BY <1>5 DEF WatchStep, WatchFire, WatchQuit, WatchSet
  <2>2. deadline' = "past" => deadline = "past" \/ watch[w].st = "fire"
    BY <1>5 DEF WatchStep, WatchFire, WatchQuit, WatchSet
  <2>3. WatchFire(w) => Gone
    <3>1. watch[w].ctx \in Opt(Ctx)
      BY <1>0 DEF Watch
    <3> QED BY <3>1 DEF WatchFire, CtxDone, Gone, Opt
  <2>4. ASSUME NEW v \in Watcher, watch'[v].st = "fire"
        PROVE  watch[v].st = "fire" \/ WatchFire(w)
    <3>1. v = w \/ watch'[v] = watch[v]
      BY <1>0, <1>5 DEF WatchStep, WatchFire, WatchQuit, WatchSet
    <3>2. v = w => WatchFire(w)
      BY <1>0, <1>5, <2>4 DEF WatchStep, WatchQuit, WatchSet, Off
    <3> QED BY <2>4, <3>1, <3>2
  <2> QED BY <2>1, <2>2, <2>3, <2>4 DEF InTime, Gone
<1>6. ASSUME NEW c \in Ctx, Cancel(c) \/ TimePasses(c) \/ Expire(c)
      PROVE  InTime'
  <2>1. ctx'[c] \in {"due", "done"} /\ UNCHANGED <<watch, orphaned>>
    BY <1>0, <1>6 DEF Cancel, TimePasses, Expire
  <2> QED BY <2>1 DEF InTime, Gone
<1> QED BY <1>2, <1>3, <1>4, <1>5, <1>6, StartInTime DEF Next, Step

\* The handles that answers on their way name.
Fresh == UNION {Own(toCli[i].a.h) : i \in DOMAIN toCli}

\* The invariant behind HandlesAccountedFor: a handle of the server is held, or
\* about to be closed, or in an answer that the call has still to read.
Accounted == srvUp /\ ~Gone => open \subseteq Held \cup Unserved \cup Fresh

LEMMA StartAccounted ==
  ASSUME Sound, Accounted, Start, orphaned = {}, srvUp', ~Gone
  PROVE  open' \subseteq Held' \cup Unserved' \cup Fresh'
<1>1. /\ pc = "idle" /\ ~Waiting /\ ~Waiting' /\ srvUp /\ UNCHANGED <<toSrv, toCli, open>>
  BY StartSocket DEF Waiting
<1>2. Unserved = Closes(todo) /\ Unserved' = Closes(todo') /\ Fresh' = Fresh
  BY <1>1 DEF Unserved, Fresh, Closes
<1>3. Closes(todo) = {}
  BY <1>1, NoTrips DEF Sound, TypeOK, CallerType
<1>4. StartMoves
  BY StartEffect DEF Sound
<1> QED BY <1>1, <1>2, <1>3, <1>4 DEF StartMoves, Accounted, Held

LEMMA StepAccounted ==
  ASSUME Sound, InTime, Accounted, Step \/ RecvJunk, orphaned = {}, srvUp', ~Gone
  PROVE  open' \subseteq Held' \cup Unserved' \cup Fresh'
<1>0. /\ TypeOK /\ OneInFlight /\ Paired /\ Shape /\ Facts
      /\ toSrv \in Seq(Request) /\ toCli \in Seq(Unit) /\ todo \in Seq(Trip) /\ call \in Call
  BY DEF Sound, TypeOK, CallerType, NetType
<1>1. srvUp /\ UNCHANGED <<srvUp, open>>
  BY DEF Step, Check, Send, SendFail, RecvLen, RecvTimeout, RecvEOF, RecvBody, RecvJunk, Reset, Stop, Quiet, net
<1>2. open \subseteq Held \cup Unserved \cup Fresh /\ deadline # "past"
  BY <1>1 DEF Accounted, InTime
<1>3. Check \/ Send \/ RecvLen \/ RecvBody \/ Reset \/ Stop
  BY <1>0, <1>1, <1>2 DEF Step, SendFail, RecvTimeout, RecvEOF, RecvJunk, OneInFlight, Waiting
<1>4. CASE Check \/ Reset \/ Stop
  <2>1. UNCHANGED <<stmts, cursors, toSrv, toCli>> /\ ~Waiting /\ todo' \in {todo, <<>>}
        /\ (todo' = todo \/ pc = "check")
    BY <1>4 DEF Check, Continue, Reset, Stop, Quiet, Waiting, net, objs
  <2>2. ~Waiting'
    BY <1>4, LeavesRead DEF Check, Reset, Stop, Return, Waiting
  <2>3. pc = "check" => Closes(todo) = {}
    BY <1>0 DEF Shape, FCs, Closes
  <2>4. Closes(todo) \subseteq Closes(todo')
    BY <2>1, <2>3
  <2>5. Held' = Held /\ Fresh' = Fresh /\ Unserved = Closes(todo) /\ Unserved' = Closes(todo')
    BY <2>1, <2>2 DEF Held, Fresh, Unserved, Closes
  <2> QED BY <1>1, <1>2, <2>4, <2>5
<1>5. CASE Send
  <2> DEFINE q == [id |-> nreq + 1, fc |-> Head(todo).fc, h |-> Head(todo).h,
                   ac |-> autoCommit \/ Head(todo).fc = "VERSION",
                   ins |-> call.ins /\ Head(todo).fc = "PAE"]
  <2>1. pc = "send" /\ UNCHANGED <<stmts, cursors, toCli, todo>> /\ toSrv' = Append(toSrv, q)
    BY <1>1, <1>5 DEF Send, objs
  <2>2. toSrv = <<>>
    BY <1>0, <2>1 DEF OneInFlight, Waiting
  <2> HIDE DEF q
  <2>3. toSrv' # <<>>
    BY <2>1, <2>2
  <2>4. Unserved' = Unserved /\ Held' = Held /\ Fresh' = Fresh
    BY <2>1, <2>3 DEF Unserved, Waiting, Closes, Held, Fresh
  <2> QED BY <1>1, <1>2, <2>4
<1>6. CASE RecvLen
  <2>1. pc = "len" /\ pc' = "body" /\ toCli # <<>> /\ UNCHANGED <<stmts, cursors, toSrv, todo>>
    BY <1>6 DEF RecvLen, objs
  <2>2. toSrv = <<>> /\ toCli[1].part = "len" /\ Len(toCli) = 2 /\ toCli[2].a = toCli[1].a
    BY <1>0, <1>1, <2>1 DEF OneInFlight, Waiting, Paired
  <2>3. /\ toCli' = Tail(toCli) /\ Tail(toCli) \in Seq(Unit) /\ Len(Tail(toCli)) = 1
        /\ \A i \in DOMAIN Tail(toCli) : Tail(toCli)[i] = toCli[i + 1]
    BY <1>0, <1>6, <2>1, <2>2, TailFacts DEF RecvLen
  <2>4. DOMAIN Tail(toCli) = 1..1 /\ DOMAIN toCli = 1..2
    BY <1>0, <2>2, <2>3, DomainOf
  <2>5. 1 \in DOMAIN Tail(toCli) /\ toCli'[1].a = toCli[1].a /\ \A i \in DOMAIN toCli : toCli[i].a = toCli[1].a
    <3>1. 1 \in 1..1 /\ 1..2 = {1, 2}
      OBVIOUS
    <3> QED BY <2>2, <2>3, <2>4, <3>1
  <2>6. Fresh \subseteq Fresh'
    BY <2>3, <2>5 DEF Fresh
  <2>7. Held' = Held /\ Unserved' = Unserved
    BY <2>1 DEF Held, Unserved, Waiting, Closes
  <2> QED BY <1>1, <1>2, <2>6, <2>7
<1>7. CASE RecvBody
  <2> DEFINE a == toCli[1].a
  <2>1. /\ toSrv = <<>> /\ Waiting /\ ~Waiting' /\ todo # <<>>
        /\ a \in Answer /\ Handler(a) /\ DOMAIN toCli = {1}
    BY <1>0, <1>7, ReadsOwn
  <2>2. HandlesOK /\ Promise(a) /\ Unserved = Closes(Tail(todo)) /\ Unserved' = Closes(todo') /\ Fresh = Own(a.h)
    BY <1>0, <1>1, <2>1 DEF Facts, Unserved, Closes, Fresh
  <2> HIDE DEF a
  <2>3. AnswerMoves(a.h)
    BY <1>0, <2>1, <2>2, AnswerEffect DEF Promise, HandlesOK
  <2>4. ~CtxDone(call.ctx)
    BY <1>0 DEF CtxDone, Gone, Call, Opt
  <2> QED BY <1>1, <1>2, <2>2, <2>3, <2>4 DEF AnswerMoves, Held
<1> QED BY <1>3, <1>4, <1>5, <1>6, <1>7

LEMMA ServerAccounted ==
  ASSUME Sound, Accounted, Cas, orphaned = {}, ~Gone
  PROVE  open' \subseteq Held' \cup Unserved' \cup Fresh'
<1>0. TypeOK /\ OneInFlight /\ Paired /\ Facts /\ todo \in Seq(Trip)
  BY DEF Sound, TypeOK, CallerType
<1>1. PICK a \in Answer :
        /\ pc = "len" /\ srvUp /\ CasIdle /\ toCli = <<>> /\ toSrv # <<>> /\ Head(toSrv) = Current /\ toSrv' = <<>>
        /\ toCli' = <<[part |-> "len", a |-> a], [part |-> "body", a |-> a]>>
        /\ \/ UNCHANGED open /\ ~(Head(toSrv).fc = "CLOSE" /\ Head(toSrv).h \in open)
           \/ open' = open \cup {a.h} /\ a.h \in Handle /\ Head(toSrv).fc # "CLOSE"
           \/ open' = IF Head(toSrv).fc = "CLOSE" THEN open \ {Head(toSrv).h} ELSE open
  BY <1>0, CasInStep
<1>2. UNCHANGED <<stmts, cursors, todo, pc>> /\ todo # <<>>
  BY <1>0, <1>1 DEF CasIdle, objs, TypeOK, CallerType
<1>3. Unserved = Closes(todo) /\ Unserved' = Closes(Tail(todo)) /\ Held' = Held
  BY <1>1, <1>2 DEF Unserved, Waiting, Closes, Held
<1>4. Closes(todo) = Closes(Tail(todo)) \cup (IF Head(todo).fc = "CLOSE" THEN {Head(todo).h} ELSE {})
  BY <1>0, <1>2, TailTrips
<1>5. Head(toSrv).fc = Head(todo).fc /\ Head(toSrv).h = Head(todo).h
  BY <1>1 DEF Current
<1>6. open \subseteq Held \cup Closes(todo) /\ None \notin Handle
  <2>1. Fresh = {}
    BY <1>1, EmptySeq DEF Fresh
  <2> QED BY <1>1, <1>3, <2>1, ConnAssumption DEF Accounted
<1>7. Own(a.h) \subseteq Fresh'
  <2> DEFINE l == [part |-> "len", a |-> a]
             b == [part |-> "body", a |-> a]
  <2>1. toCli' = <<l, b>> /\ l.a = a
    BY <1>1
  <2> HIDE DEF l, b
  <2>2. 1 \in DOMAIN toCli' /\ toCli'[1] = l
    BY <2>1
  <2> QED BY <2>1, <2>2 DEF Fresh
<1>8. a.h \in Handle => a.h \in Fresh'
  BY <1>6, <1>7 DEF Own
<1> QED BY <1>1, <1>3, <1>4, <1>5, <1>6, <1>8

LEMMA NextAccounted == Sound /\ InTime /\ Accounted /\ [Next]_vars => Accounted'
<1> SUFFICES ASSUME Sound, InTime, Accounted, [Next]_vars, srvUp', ~Gone'
             PROVE  open' \subseteq Held' \cup Unserved' \cup Fresh'
  BY DEF Accounted
<1>1. ~Gone /\ orphaned = {}
  <2>1. Gone => Gone'
    <3>1. ctx \in [Ctx -> {"live", "due", "done"}] /\ TypeOK
      BY DEF Sound, TypeOK, SockType
    <3>2. ctx' = ctx \/ \E c \in Ctx : Cancel(c) \/ TimePasses(c) \/ Expire(c)
      BY DEF Next, vars, Step, Check, Send, SendFail, RecvLen, RecvTimeout, RecvEOF, RecvBody, RecvJunk, Reset,
             Stop, Quiet, WatchStep, WatchFire, WatchQuit, WatchSet, Cas, CasRejects, CasAllocates, CasUses,
             CasSession, CasIdle, Crash, Start, CallCtx, StmtExec, StmtExecArgs, StmtQuery, StmtQueryArgs,
             StmtClose, RowsFetch, RowsClose, RowsForget, Prepare, Ping, ServerVersion, EndTran, Begin, Close,
             CallChecked, CallUnchecked, CallBadArgs
    <3> QED BY <3>1, <3>2 DEF Gone, Cancel, TimePasses, Expire
  <2> QED BY <2>1 DEF InTime
<1>2. CASE \/ UNCHANGED vars
           \/ \E w \in Watcher : WatchStep(w)
           \/ \E c \in Ctx : Cancel(c) \/ TimePasses(c) \/ Expire(c)
  <2>1. UNCHANGED <<srvUp, stmts, cursors, todo, pc, open, toSrv, toCli>>
    BY <1>2 DEF vars, WatchStep, WatchFire, WatchQuit, WatchSet, Cancel, TimePasses, Expire, net, objs
  <2> QED BY <1>1, <2>1 DEF Accounted, Held, Unserved, Waiting, Closes, Fresh
<1>3. CASE Crash
  BY <1>3 DEF Crash
<1> QED BY <1>1, <1>2, <1>3, StartAccounted, StepAccounted, ServerAccounted DEF Next

\* No handle leaks as long as no context was cancelled or ran out: between
\* calls every handle of the CAS is held by an open stmt or rows value, as Exec
\* and fetchLastInsertID close theirs on every path, errors included.
THEOREM NoHandleLost == Spec => []HandlesAccountedFor
<1>1. Init => InTime /\ Accounted
  BY DEF Init, InTime, Accounted, Off
<1>2. ASSUME Sound, InTime, Accounted
      PROVE  HandlesAccountedFor
  <2>1. ASSUME pc = "idle", srvUp, ~Gone
        PROVE  open = stmts \cup cursors
    <3>1. orphaned = {} /\ todo = <<>> /\ toCli = <<>> /\ ~Waiting
      BY <1>2, <2>1 DEF InTime, Sound, TypeOK, CallerType, OneInFlight, Waiting
    <3>2. Unserved = {} /\ Fresh = {}
      BY <3>1, NoTrips, EmptySeq DEF Unserved, Fresh
    <3> QED BY <1>2, <2>1, <3>1, <3>2 DEF Accounted, Sound, Facts, HandlesOK, Held
  <2> QED BY <2>1 DEF HandlesAccountedFor, Gone
<1>3. Sound /\ InTime /\ [Next]_vars => InTime'
  BY NextInTime DEF Sound
<1> QED BY <1>1, <1>2, <1>3, NextAccounted, AlwaysSound, PTL DEF Spec

-----------------------------------------------------------------------------
(***************************************************************************)
(* The session as a record.                                                *)
(***************************************************************************)
sessions == [c \in {None} |-> sessionOf]
Lost == orphaned # {}
Busy == pc # "idle"

LEMMA RequestsType ==
  ASSUME TypeOK
  PROVE  Requests \in Seq(Session!Request)
<1>1. toSrv \in Seq(Request) /\ DOMAIN toSrv = 1..Len(toSrv) /\ Len(toSrv) \in Nat
  BY DomainOf DEF TypeOK, NetType
<1>2. ASSUME NEW i \in 1..Len(toSrv)
      PROVE  RequestOf(toSrv[i]) \in Session!Request
  <2>0. toSrv[i] \in Request
    BY <1>1, <1>2
  <2>1. toSrv[i].ac \in BOOLEAN
    BY <2>0 DEF Request
  <2>2. RequestOf(toSrv[i]).kind \in {"stmt", "id", "commit", "aux"}
    BY DEF RequestOf
  <2>3. RequestOf(toSrv[i]) = [kind |-> RequestOf(toSrv[i]).kind, ac |-> toSrv[i].ac, job |-> None]
    BY DEF RequestOf
  <2> QED BY <2>1, <2>2, <2>3 DEF Session!Request, Session!Ends
<1>3. Requests \in [1..Len(toSrv) -> Session!Request]
  BY <1>1, <1>2 DEF Requests
<1> QED BY <1>1, <1>3, SeqDef

LEMMA SessionTyped ==
  ASSUME TypeOK
  PROVE  sessionOf \in Session!SessionType
<1>1. /\ closed \in BOOLEAN /\ autoCommit \in BOOLEAN /\ inTx \in BOOLEAN /\ srvUp \in BOOLEAN
      /\ (pc # "idle") \in BOOLEAN /\ (orphaned # {}) \in BOOLEAN /\ Waiting \in BOOLEAN
  BY DEF TypeOK, ObjsType, NetType, Waiting
<1>2. KindOf(call.kind) \in Session!Kinds
  BY DEF KindOf, Session!Kinds, Session!Ends
<1>3. Result \in Session!Results
  BY DEF Result, Session!Results, TypeOK, CallerType, Call
<1>4. Arrived \in {"none", "ok", "no"} /\ Work \in SUBSET {None}
  BY DEF Arrived, Work
<1> QED BY <1>1, <1>2, <1>3, <1>4, RequestsType DEF sessionOf, Session!SessionType

Typed == sessionOf \in Session!SessionType

LEMMA NextTyped == TypeOK' => sessionOf' \in Session!SessionType
<1>1. TypeOK => Typed
  BY SessionTyped DEF Typed
<1>2. TypeOK' => Typed'
  BY <1>1, PTL
<1> QED BY <1>2 DEF Typed

\* The session before and after a step, field by field.
LEMMA Fields ==
  ASSUME TypeOK, TypeOK'
  PROVE  /\ sessions[None] \in Session!SessionType /\ sessionOf' \in Session!SessionType
         /\ sessions[None].closed = closed /\ sessions[None].ac = autoCommit /\ sessions[None].tx = inTx
         /\ sessions[None].busy = Busy /\ sessions[None].kind = KindOf(call.kind)
         /\ sessions[None].job = None /\ sessions[None].res = Result /\ sessions[None].sent = Waiting
         /\ sessions[None].req = Requests /\ sessions[None].ans = Arrived /\ sessions[None].tran = Work
         /\ sessions[None].up = srvUp /\ sessions[None].lost = Lost
         /\ sessionOf'.closed = closed' /\ sessionOf'.ac = autoCommit' /\ sessionOf'.tx = inTx'
         /\ sessionOf'.busy = Busy' /\ sessionOf'.kind = KindOf(call.kind)' /\ sessionOf'.job = None
         /\ sessionOf'.res = Result' /\ sessionOf'.sent = Waiting' /\ sessionOf'.req = Requests'
         /\ sessionOf'.ans = Arrived' /\ sessionOf'.tran = Work' /\ sessionOf'.up = srvUp'
         /\ sessionOf'.lost = Lost'
         /\ sessions' = [sessions EXCEPT ![None] = sessionOf']
<1>1. sessions[None] = sessionOf /\ sessions' = [sessions EXCEPT ![None] = sessionOf']
  BY DEF sessions
<1>2. sessions[None] \in Session!SessionType /\ sessionOf' \in Session!SessionType
  BY <1>1, SessionTyped, NextTyped
<1>3. /\ sessionOf.closed = closed /\ sessionOf.ac = autoCommit /\ sessionOf.tx = inTx
      /\ sessionOf.busy = Busy /\ sessionOf.kind = KindOf(call.kind) /\ sessionOf.job = None
      /\ sessionOf.res = Result /\ sessionOf.sent = Waiting /\ sessionOf.req = Requests
      /\ sessionOf.ans = Arrived /\ sessionOf.tran = Work /\ sessionOf.up = srvUp /\ sessionOf.lost = Lost
  BY DEF sessionOf, Busy, Lost
<1>4. /\ sessionOf'.closed = closed' /\ sessionOf'.ac = autoCommit' /\ sessionOf'.tx = inTx'
      /\ sessionOf'.busy = Busy' /\ sessionOf'.kind = KindOf(call.kind)' /\ sessionOf'.job = None
      /\ sessionOf'.res = Result' /\ sessionOf'.sent = Waiting' /\ sessionOf'.req = Requests'
      /\ sessionOf'.ans = Arrived' /\ sessionOf'.tran = Work' /\ sessionOf'.up = srvUp' /\ sessionOf'.lost = Lost'
  BY DEF sessionOf, Busy, Lost
<1> QED BY <1>1, <1>2, <1>3, <1>4

-----------------------------------------------------------------------------
(***************************************************************************)
(* Steps of CasConn, as steps of Session.                                  *)
(***************************************************************************)

\* A round trip ends; the request and the server are left as they are.
Ended ==
  Busy /\ ~Waiting' /\ Arrived' = "none"
  /\ UNCHANGED <<closed, inTx, KindOf(call.kind), srvUp, Requests, Work>>

\* The answer is given up on unless it was read or can no longer come.
GivenUp ==
  /\ Lost => Lost'
  /\ ~Lost /\ ~Waiting => ~Lost'
  /\ ~Lost /\ Waiting /\ srvUp /\ Arrived = "none" => Lost'

LEMMA MapsToTake ==
  ASSUME TypeOK, TypeOK', Ended, Waiting, Result = "none", Lost \/ Arrived = "ok", UNCHANGED Lost,
         autoCommit' = (autoCommit \/ KindOf(call.kind) \in {"commit", "rollback"}), Result' = "nil"
  PROVE  Session!Next
<1> DEFINE s == sessions[None]
           t == sessionOf'
           ac == s.ac \/ s.kind \in Session!Ends
           m == Busy'
<1>1. s \in Session!SessionType /\ t \in Session!SessionType
  BY Fields
<1>2. /\ t.closed = s.closed /\ t.ac = ac /\ t.tx = s.tx /\ t.busy = m /\ t.kind = s.kind /\ t.job = s.job
      /\ t.res = "nil" /\ t.sent = FALSE /\ t.req = s.req /\ t.ans = "none" /\ t.tran = s.tran
      /\ t.up = s.up /\ t.lost = s.lost
  BY Fields DEF Ended, Session!Ends
<1>3. m \in BOOLEAN /\ ac \in BOOLEAN
  BY DEF Busy
<1>4. s.busy /\ s.sent /\ s.res = "none" /\ (s.lost \/ s.ans = "ok")
  BY Fields DEF Ended
<1>5. t = [s EXCEPT !.busy = m, !.res = "nil", !.sent = FALSE, !.ac = ac, !.ans = "none"]
  <2> HIDE DEF s, t, ac, m
  <2> QED BY <1>1, <1>2, <1>3, ZenonT(30) DEF Session!SessionType
<1>6. Session!Take(None, m)
  BY <1>4, <1>5, Fields DEF Session!Take, sessions
<1> QED BY <1>3, <1>4, <1>6, Zenon DEF Session!Next, Session!Busy, sessions

LEMMA GivenUpMaps ==
  ASSUME TypeOK, TypeOK', GivenUp
  PROVE  Lost' \in Session!GivesUp(sessions[None])
<1> DEFINE s == sessions[None]
<1>1. s.lost = Lost /\ s.sent = Waiting /\ s.up = srvUp /\ s.ans = Arrived
  BY Fields
<1>2. Lost \in BOOLEAN /\ Lost' \in BOOLEAN /\ Waiting \in BOOLEAN
  BY DEF Lost, Waiting
<1> HIDE DEF s
<1>3. Lost' \in Session!GivesUp(s)
  BY <1>1, <1>2 DEF GivenUp, Session!GivesUp
<1> QED BY <1>3 DEF s

LEMMA MapsToFail ==
  ASSUME TypeOK, TypeOK', Ended, GivenUp, UNCHANGED autoCommit,
         Result = "none" \/ KindOf(call.kind) \in {"begin", "other"},
         Result' \in {"err", "ctx"} \/ (Result' = "badconn" /\ KindOf(call.kind) = "other")
  PROVE  Session!Next
<1> DEFINE s == sessions[None]
           t == sessionOf'
           r == Result'
           m == Busy'
           lost == Lost'
<1>1. s \in Session!SessionType /\ t \in Session!SessionType
  BY Fields
<1>2. /\ t.closed = s.closed /\ t.ac = s.ac /\ t.tx = s.tx /\ t.busy = m /\ t.kind = s.kind /\ t.job = s.job
      /\ t.res = r /\ t.sent = FALSE /\ t.req = s.req /\ t.ans = "none" /\ t.tran = s.tran
      /\ t.up = s.up /\ t.lost = lost
  BY Fields DEF Ended
<1>3. m \in BOOLEAN /\ lost \in BOOLEAN /\ r \in {"badconn", "err", "ctx"}
  BY DEF Busy, Lost
<1>4. /\ s.busy /\ (s.res = "none" \/ s.kind \in {"begin", "other"})
      /\ r \in {"err", "ctx"} \/ (r = "badconn" /\ s.kind = "other")
      /\ lost \in Session!GivesUp(s)
  BY Fields, GivenUpMaps DEF Ended
<1>5. t = [s EXCEPT !.busy = m, !.res = r, !.sent = FALSE, !.lost = lost, !.ans = "none"]
  <2> HIDE DEF s, t, r, lost, m
  <2> QED BY <1>1, <1>2, <1>3, ZenonT(30) DEF Session!SessionType
<1>6. Session!Fail(None, m, r, lost)
  BY <1>4, <1>5, Fields DEF Session!Fail, sessions
<1> HIDE DEF r, lost, m
<1> QED BY <1>3, <1>4, <1>6, Zenon DEF Session!Next, Session!Busy, sessions

LEMMA MapsToTidied ==
  ASSUME TypeOK, TypeOK', Ended, GivenUp, UNCHANGED <<autoCommit, Result>>, Result # "none"
  PROVE  Session!Next
<1> DEFINE s == sessions[None]
           t == sessionOf'
           m == Busy'
           lost == Lost'
<1>1. s \in Session!SessionType /\ t \in Session!SessionType
  BY Fields
<1>2. /\ t.closed = s.closed /\ t.ac = s.ac /\ t.tx = s.tx /\ t.busy = m /\ t.kind = s.kind /\ t.job = s.job
      /\ t.res = s.res /\ t.sent = FALSE /\ t.req = s.req /\ t.ans = "none" /\ t.tran = s.tran
      /\ t.up = s.up /\ t.lost = lost
  BY Fields DEF Ended
<1>3. m \in BOOLEAN /\ lost \in BOOLEAN
  BY DEF Busy, Lost
<1>4. s.busy /\ s.res # "none" /\ lost \in Session!GivesUp(s)
  BY Fields, GivenUpMaps DEF Ended
<1>5. t = [s EXCEPT !.busy = m, !.sent = FALSE, !.lost = lost, !.ans = "none"]
  <2> HIDE DEF s, t, lost, m
  <2> QED BY <1>1, <1>2, <1>3, ZenonT(30) DEF Session!SessionType
<1>6. Session!Tidied(None, m, lost)
  BY <1>4, <1>5, Fields DEF Session!Tidied, sessions
<1> HIDE DEF lost, m
<1> QED BY <1>3, <1>4, <1>6, Zenon DEF Session!Next, Session!Busy, sessions

\* A call starts: what it will send is not known of yet.
LEMMA MapsToStart ==
  ASSUME TypeOK, TypeOK', ~Busy, Busy', ~Waiting, ~Waiting',
         UNCHANGED <<closed, autoCommit, srvUp, Requests, Work, Arrived, Lost>>,
         NEW k, k = KindOf(call.kind)', k \in {"stmt", "begin"} => ~closed, k = "begin" => ~inTx,
         k = "commit" => inTx, inTx' = (inTx /\ k # "commit"), k # "rollback",
         Result' = IF k \in {"stmt", "commit"} THEN "none" ELSE "nil"
  PROVE  Session!Next
<1> DEFINE s == sessions[None]
           t == sessionOf'
           r == IF k \in Session!Ends \cup {"stmt"} THEN "none" ELSE "nil"
           tx == s.tx /\ k \notin Session!Ends
<1>1. s \in Session!SessionType /\ t \in Session!SessionType
  BY Fields
<1>2. /\ t.closed = s.closed /\ t.ac = s.ac /\ t.tx = tx /\ t.busy = TRUE /\ t.kind = k /\ t.job = None
      /\ t.res = r /\ t.sent = s.sent /\ t.req = s.req /\ t.ans = s.ans /\ t.tran = s.tran
      /\ t.up = s.up /\ t.lost = s.lost
  <2>1. t.busy = TRUE /\ t.sent = s.sent
    <3>1. t.busy = Busy' /\ t.sent = Waiting' /\ s.sent = Waiting
      BY Fields
    <3>2. Busy' = TRUE
      BY DEF Busy
    <3>3. Waiting' = Waiting
      BY DEF Waiting
    <3> QED BY <3>1, <3>2, <3>3
  <2>2. k \notin Session!Ends <=> k # "commit"
    BY DEF Session!Ends
  <2>3. t.tx = tx
    BY <2>2, Fields
  <2>4. t.res = r /\ t.kind = k
    BY Fields DEF Session!Ends
  <2> HIDE DEF r, tx
  <2> QED BY <2>1, <2>3, <2>4, Fields
<1>3. tx \in BOOLEAN /\ k \in Session!Kinds
  BY <1>1, Fields DEF KindOf, Session!Kinds, Session!Ends
<1>4. /\ ~s.busy /\ (k \in {"stmt", "begin"} => ~s.closed) /\ (k = "begin" => ~s.tx)
      /\ k \in Session!Ends => s.tx
  <2>1. ~s.busy /\ s.closed = closed /\ s.tx = inTx
    BY Fields
  <2>2. k \in Session!Ends => k = "commit"
    BY DEF Session!Ends
  <2> QED BY <2>1, <2>2
<1>5. t = [s EXCEPT !.busy = TRUE, !.kind = k, !.job = None, !.res = r, !.tx = tx]
  <2> HIDE DEF s, t, r, tx
  <2> QED BY <1>1, <1>2, <1>3, ZenonT(30) DEF Session!SessionType
<1>6. Session!Start(None, k, None)
  BY <1>4, <1>5, Fields DEF Session!Start, sessions
<1> QED BY <1>3, <1>4, <1>6, Zenon DEF Session!Next, Session!Idle, sessions

\* A call returns before anything is sent.
LEMMA MapsToRefuse ==
  ASSUME TypeOK, TypeOK', ~Busy, ~Busy', ~Waiting, ~Waiting',
         UNCHANGED <<closed, autoCommit, inTx, srvUp, Requests, Work, Arrived, Lost>>,
         KindOf(call.kind)' \in {"stmt", "begin", "other"},
         IF closed THEN Result' = "badconn" ELSE Result' \in {"err", "ctx"}
  PROVE  Session!Next
<1> DEFINE s == sessions[None]
           t == sessionOf'
           r == Result'
           k == KindOf(call.kind)'
<1>1. s \in Session!SessionType /\ t \in Session!SessionType
  BY Fields
<1>2. /\ t.closed = s.closed /\ t.ac = s.ac /\ t.tx = s.tx /\ t.busy = s.busy /\ t.kind = k /\ t.job = None
      /\ t.res = r /\ t.sent = s.sent /\ t.req = s.req /\ t.ans = s.ans /\ t.tran = s.tran
      /\ t.up = s.up /\ t.lost = s.lost
  <2>1. t.busy = s.busy /\ t.sent = s.sent
    BY Fields DEF Busy, Waiting
  <2> QED BY <2>1, Fields
<1>3. k \in Session!Kinds /\ k \notin Session!Ends /\ r \in {"badconn", "err", "ctx"}
  BY DEF Session!Kinds, Session!Ends
<1>4. ~s.busy /\ IF s.closed THEN r = "badconn" ELSE r \in {"err", "ctx"}
  BY Fields
<1>5. t = [s EXCEPT !.kind = k, !.job = None, !.res = r]
  <2> HIDE DEF s, t, r, k
  <2> QED BY <1>1, <1>2, <1>3, ZenonT(30) DEF Session!SessionType
<1>6. Session!Refuse(None, k, None, r)
  BY <1>3, <1>4, <1>5, Fields DEF Session!Refuse, sessions
<1> HIDE DEF r, k
<1> QED BY <1>3, <1>4, <1>6, Zenon DEF Session!Next, Session!Idle, sessions

\* Begin, and BeginTx once it has checked its context.
LEMMA MapsToBegin ==
  ASSUME TypeOK, TypeOK', Busy' = Busy, ~Waiting, ~Waiting', ~closed, ~inTx,
         Busy => KindOf(call.kind) = "begin" /\ Result = "nil",
         UNCHANGED <<closed, srvUp, Requests, Work, Arrived, Lost>>,
         autoCommit' = FALSE, inTx' = TRUE, KindOf(call.kind)' = "begin", Result' = "nil"
  PROVE  Session!Next
<1> DEFINE s == sessions[None]
           t == sessionOf'
<1>1. s \in Session!SessionType /\ t \in Session!SessionType
  BY Fields
<1>2. /\ t.closed = s.closed /\ t.ac = FALSE /\ t.tx = TRUE /\ t.busy = s.busy /\ t.kind = "begin" /\ t.job = None
      /\ t.res = "nil" /\ t.sent = s.sent /\ t.req = s.req /\ t.ans = s.ans /\ t.tran = s.tran
      /\ t.up = s.up /\ t.lost = s.lost
  <2>1. t.busy = s.busy /\ t.sent = s.sent
    BY Fields DEF Waiting
  <2> QED BY <2>1, Fields
<1>3. ~s.closed /\ ~s.tx /\ (s.busy => s.kind = "begin" /\ s.res = "nil")
  BY Fields
<1>4. t = [s EXCEPT !.kind = "begin", !.job = None, !.res = "nil", !.ac = FALSE, !.tx = TRUE]
  <2> HIDE DEF s, t
  <2> QED BY <1>1, <1>2, ZenonT(30) DEF Session!SessionType
<1>5. Session!Begin(None, None)
  BY <1>3, <1>4, Fields DEF Session!Begin, sessions
<1> QED BY <1>5, Zenon DEF Session!Next

LEMMA MapsToClose ==
  ASSUME TypeOK, TypeOK', ~Busy, ~Busy', ~Waiting, ~Waiting', closed',
         UNCHANGED <<autoCommit, inTx, Lost>>, KindOf(call.kind)' = "other", Result' = "nil",
         ~srvUp', Requests' = <<>>, Work' = {}, Arrived' = "none"
  PROVE  Session!Next
<1> DEFINE s == sessions[None]
           t == sessionOf'
<1>1. s \in Session!SessionType /\ t \in Session!SessionType
  BY Fields
<1>2. /\ t.closed = TRUE /\ t.ac = s.ac /\ t.tx = s.tx /\ t.busy = s.busy /\ t.kind = "other" /\ t.job = s.job
      /\ t.res = "nil" /\ t.sent = s.sent /\ t.req = <<>> /\ t.ans = "none" /\ t.tran = {}
      /\ t.up = FALSE /\ t.lost = s.lost
  <2>1. t.busy = s.busy /\ t.sent = s.sent
    BY Fields DEF Busy, Waiting
  <2>2. t.closed = TRUE /\ t.up = FALSE
    BY Fields DEF TypeOK, ObjsType, NetType
  <2> QED BY <2>1, <2>2, Fields
<1>3. ~s.busy
  BY Fields
<1>4. t = [s EXCEPT !.closed = TRUE, !.kind = "other", !.res = "nil",
                    !.up = FALSE, !.req = <<>>, !.tran = {}, !.ans = "none"]
  <2> HIDE DEF s, t
  <2> QED BY <1>1, <1>2, ZenonT(30) DEF Session!SessionType
<1>5. Session!Close(None)
  BY <1>3, <1>4, Fields DEF Session!Close, sessions
<1> QED BY <1>3, <1>5, Zenon DEF Session!Next, Session!Idle, sessions

LEMMA MapsToDie ==
  ASSUME TypeOK, TypeOK', srvUp, ~srvUp', UNCHANGED <<closed, autoCommit, inTx, pc, call, Result, Lost>>,
         Requests' = <<>>, Work' = {}, Arrived' \in {Arrived, "none"}
  PROVE  Session!Next
<1> DEFINE s == sessions[None]
           t == sessionOf'
           a == Arrived'
<1>1. s \in Session!SessionType /\ t \in Session!SessionType
  BY Fields
<1>2. /\ t.closed = s.closed /\ t.ac = s.ac /\ t.tx = s.tx /\ t.busy = s.busy /\ t.kind = s.kind /\ t.job = s.job
      /\ t.res = s.res /\ t.sent = s.sent /\ t.req = <<>> /\ t.ans = a /\ t.tran = {}
      /\ t.up = FALSE /\ t.lost = s.lost
  <2>1. t.busy = s.busy /\ t.sent = s.sent /\ t.kind = s.kind
    BY Fields DEF Busy, Waiting, KindOf
  <2>2. t.up = FALSE
    BY Fields DEF TypeOK, NetType
  <2> QED BY <2>1, <2>2, Fields
<1>3. s.up /\ a \in {s.ans, "none"}
  BY Fields
<1>4. t = [s EXCEPT !.up = FALSE, !.req = <<>>, !.tran = {}, !.ans = a]
  <2> HIDE DEF s, t, a
  <2> QED BY <1>1, <1>2, ZenonT(30) DEF Session!SessionType
<1>5. Session!Die(None)
  BY <1>3, <1>4, Fields DEF Session!Die, sessions
<1> QED BY <1>5, Zenon DEF Session!Next

LEMMA MapsToSend ==
  ASSUME TypeOK, TypeOK', Busy, Busy', ~Waiting, Waiting', ~closed, KindOf(call.kind) # "begin",
         NEW k, k \in IF Result = "none" THEN {KindOf(call.kind)} ELSE {"aux", "id"},
         k = "id" => KindOf(call.kind) = "stmt",
         NEW ac, ac \in {autoCommit} \cup (IF KindOf(call.kind) = "other" THEN {TRUE} ELSE {}),
         UNCHANGED <<closed, autoCommit, inTx, KindOf(call.kind), Result, srvUp, Work, Arrived, Lost>>,
         Requests' = IF srvUp THEN Append(Requests, [kind |-> k, ac |-> ac, job |-> None]) ELSE Requests
  PROVE  Session!Next
<1> DEFINE s == sessions[None]
           t == sessionOf'
           q == IF s.up THEN Append(s.req, [kind |-> k, ac |-> ac, job |-> s.job]) ELSE s.req
<1>1. s \in Session!SessionType /\ t \in Session!SessionType
  BY Fields
<1>2. /\ t.closed = s.closed /\ t.ac = s.ac /\ t.tx = s.tx /\ t.busy = s.busy /\ t.kind = s.kind /\ t.job = s.job
      /\ t.res = s.res /\ t.sent = TRUE /\ t.req = q /\ t.ans = s.ans /\ t.tran = s.tran
      /\ t.up = s.up /\ t.lost = s.lost
  <2>1. t.busy = s.busy /\ t.sent = TRUE
    <3>1. t.busy = Busy' /\ t.sent = Waiting' /\ s.busy = Busy
      BY Fields
    <3>2. Busy' = Busy /\ Waiting' = TRUE
      BY DEF Busy, Waiting
    <3> QED BY <3>1, <3>2
  <2>2. t.req = q
    BY Fields
  <2> HIDE DEF q
  <2> QED BY <2>1, <2>2, Fields
<1>3. /\ s.busy /\ ~s.sent /\ ~s.closed /\ s.kind # "begin" /\ (k = "id" => s.kind = "stmt")
      /\ k \in IF s.res = "none" THEN {s.kind} ELSE {"aux", "id"}
  BY Fields
<1>4. ac \in {s.ac} \cup (IF s.kind = "other" THEN {TRUE} ELSE {})
  BY Fields
<1>5. t = [s EXCEPT !.sent = TRUE, !.req = q]
  <2> HIDE DEF s, t, q
  <2> QED BY <1>1, <1>2, ZenonT(30) DEF Session!SessionType
<1>6. sessions' = [sessions EXCEPT ![None] = [s EXCEPT !.sent = TRUE, !.req = q]]
  BY <1>5, Fields
<1>7. Session!Send(None)
  BY <1>3, <1>4, <1>6, ZenonT(30) DEF Session!Send, sessions
<1> QED BY <1>3, <1>7, Zenon DEF Session!Next, Session!Busy, sessions

LEMMA MapsToServe ==
  ASSUME TypeOK, TypeOK', srvUp, Requests # <<>>, NEW ok \in BOOLEAN,
         Work' \in IF ok THEN Session!TranAfter(Work, Head(Requests)) ELSE {Work},
         Requests' = Tail(Requests), Arrived' = IF Lost THEN "none" ELSE IF ok THEN "ok" ELSE "no",
         UNCHANGED <<closed, autoCommit, inTx, pc, call, Result, srvUp, Lost>>
  PROVE  Session!Next
<1> DEFINE s == sessions[None]
           t == sessionOf'
           a == IF s.lost THEN "none" ELSE IF ok THEN "ok" ELSE "no"
           w == Work'
           q == Tail(s.req)
<1>1. s \in Session!SessionType /\ t \in Session!SessionType
  BY Fields
<1>2. /\ t.closed = s.closed /\ t.ac = s.ac /\ t.tx = s.tx /\ t.busy = s.busy /\ t.kind = s.kind /\ t.job = s.job
      /\ t.res = s.res /\ t.sent = s.sent /\ t.req = q /\ t.ans = a /\ t.tran = w
      /\ t.up = s.up /\ t.lost = s.lost
  <2>1. t.busy = s.busy /\ t.sent = s.sent /\ t.kind = s.kind
    BY Fields DEF Busy, Waiting, KindOf
  <2>2. t.req = q /\ t.ans = a
    BY Fields
  <2> HIDE DEF q, a
  <2> QED BY <2>1, <2>2, Fields
<1>3. s.up /\ s.req # <<>> /\ w \in IF ok THEN Session!TranAfter(s.tran, Head(s.req)) ELSE {s.tran}
  BY Fields
<1>4. t = [s EXCEPT !.req = q, !.tran = w, !.ans = a]
  <2> HIDE DEF s, t, a, q, w
  <2> QED BY <1>1, <1>2, ZenonT(30) DEF Session!SessionType
<1>5. sessions' = [sessions EXCEPT ![None] = [s EXCEPT !.req = q, !.tran = w, !.ans = a]]
  BY <1>4, Fields
<1> HIDE DEF w
<1>6. Session!Serve(None, ok)
  BY <1>3, <1>5, ZenonT(30) DEF Session!Serve, sessions
<1> QED BY <1>6, Zenon DEF Session!Next

\* A step that the session does not see.
LEMMA MapsToStutter ==
  UNCHANGED <<closed, autoCommit, inTx, Busy, KindOf(call.kind), Result, Waiting, Requests, Arrived, Work,
              srvUp, Lost>>
  => UNCHANGED sessions
BY DEF sessions, sessionOf, Busy, Lost

-----------------------------------------------------------------------------
(***************************************************************************)
(* The requests of the session.                                            *)
(***************************************************************************)

RequestsMatch ==
  /\ Requests \in Seq(Session!Request) /\ Len(Requests) = Len(toSrv)
  /\ \A i \in 1..Len(toSrv) : Requests[i] = RequestOf(toSrv[i])

LEMMA Match == TypeOK => RequestsMatch
<1> SUFFICES ASSUME TypeOK PROVE RequestsMatch
  OBVIOUS
<1>1. DOMAIN toSrv = 1..Len(toSrv) /\ Len(toSrv) \in Nat /\ Requests \in Seq(Session!Request)
  BY DomainOf, RequestsType DEF TypeOK, NetType
<1>2. DOMAIN Requests = 1..Len(toSrv) /\ \A i \in 1..Len(toSrv) : Requests[i] = RequestOf(toSrv[i])
  BY <1>1 DEF Requests
<1>3. Len(Requests) = Len(toSrv)
  BY <1>1, <1>2
<1> QED BY <1>1, <1>2, <1>3 DEF RequestsMatch

LEMMA NextMatch == TypeOK' => RequestsMatch'
BY Match, PTL

LEMMA RequestsAppend ==
  ASSUME TypeOK, TypeOK', NEW q \in Request, toSrv' = Append(toSrv, q)
  PROVE  Requests' = Append(Requests, RequestOf(q))
<1> DEFINE n == Len(toSrv)
           r == RequestOf(q)
           T == Session!Request \cup {r}
           u == Requests'
           v == Append(Requests, r)
<1>1. /\ Requests \in Seq(T) /\ Len(Requests) = n /\ n \in Nat
      /\ \A i \in 1..n : Requests[i] = RequestOf(toSrv[i])
      /\ u \in Seq(T) /\ Len(u) = Len(toSrv') /\ \A i \in 1..Len(toSrv') : u[i] = RequestOf(toSrv'[i])
  <2>1. Session!Request \subseteq T
    OBVIOUS
  <2>2. RequestsMatch /\ RequestsMatch' /\ n \in Nat
    BY Match, NextMatch DEF TypeOK, NetType
  <2> HIDE DEF T, n
  <2>3. Requests \in Seq(T) /\ Requests' \in Seq(T)
    BY <2>1, <2>2 DEF RequestsMatch
  <2> QED BY <2>2, <2>3 DEF RequestsMatch, n
<1>2. Len(toSrv') = n + 1 /\ toSrv'[n + 1] = q /\ \A i \in 1..n : toSrv'[i] = toSrv[i]
  BY DEF TypeOK, NetType
<1>3. v \in Seq(T) /\ Len(v) = n + 1 /\ v[n + 1] = r /\ \A i \in 1..n : v[i] = Requests[i]
  <2> HIDE DEF r, n
  <2> QED BY <1>1
<1> HIDE DEF u, v, T, r, n
<1>4. ASSUME NEW i \in 1..(n + 1)
      PROVE  u[i] = v[i]
  <2>1. CASE i = n + 1
    BY <1>1, <1>2, <1>3, <2>1 DEF r
  <2>2. CASE i # n + 1
    <3>1. i \in 1..n
      BY <1>1, <2>2
    <3> QED BY <1>1, <1>2, <1>3, <3>1
  <2> QED BY <2>1, <2>2
<1>5. u = v
  BY <1>1, <1>2, <1>3, <1>4, SeqEqual
<1> QED BY <1>5 DEF u, v, r

LEMMA RequestsTail ==
  ASSUME TypeOK, TypeOK', toSrv # <<>>, toSrv' = Tail(toSrv)
  PROVE  Requests # <<>> /\ Requests' = Tail(Requests) /\ Head(Requests) = RequestOf(Head(toSrv))
<1> DEFINE n == Len(toSrv)
           u == Requests'
           v == Tail(Requests)
<1>1. /\ Requests \in Seq(Session!Request) /\ Len(Requests) = n /\ n \in Nat \ {0}
      /\ \A i \in 1..n : Requests[i] = RequestOf(toSrv[i])
      /\ u \in Seq(Session!Request) /\ Len(u) = Len(toSrv') /\ \A i \in 1..Len(toSrv') : u[i] = RequestOf(toSrv'[i])
  BY Match, NextMatch, EmptySeq DEF RequestsMatch, TypeOK, NetType
<1>2. Head(toSrv) = toSrv[1] /\ Len(toSrv') = n - 1 /\ \A i \in 1..(n - 1) : toSrv'[i] = toSrv[i + 1]
  BY HeadTailProperties DEF TypeOK, NetType
<1>3. Requests # <<>>
  BY <1>1, ShortSeq
<1>4. Head(Requests) = Requests[1] /\ v \in Seq(Session!Request) /\ Len(v) = n - 1
      /\ \A i \in 1..(n - 1) : v[i] = Requests[i + 1]
  BY <1>1, <1>3, HeadTailProperties
<1> HIDE DEF u, v, n
<1>5. ASSUME NEW i \in 1..(n - 1)
      PROVE  u[i] = v[i]
  <2>1. i + 1 \in 1..n
    BY <1>1
  <2> QED BY <1>1, <1>2, <1>4, <2>1
<1>6. u = v
  BY <1>1, <1>2, <1>4, <1>5, SeqEqual
<1>7. 1 \in 1..n
  BY <1>1
<1> QED BY <1>1, <1>2, <1>3, <1>4, <1>6, <1>7 DEF u, v

LEMMA RequestsEmpty ==
  ASSUME TypeOK', toSrv' = <<>>
  PROVE  Requests' = <<>>
<1>1. Requests' \in Seq(Session!Request) /\ Len(Requests') = 0
  BY NextMatch, EmptySeq DEF RequestsMatch
<1> QED BY <1>1, ShortSeq

-----------------------------------------------------------------------------
(***************************************************************************)
(* The call in progress.                                                   *)
(***************************************************************************)

\* A call with round trips left has not failed, and one that is about to check
\* its context was let in by an open connection.
InCall ==
  /\ pc = "check" \/ todo # <<>> => call.err = "nil"
  /\ pc = "check" => ~closed /\ call.ctx # None /\ (call.kind = "beginTx" => ~inTx)

LEMMA ContinueInCallOK ==
  ASSUME NEW rest, Continue(rest), rest = <<>> \/ call'.err = "nil"
  PROVE  InCall'
BY DEF InCall, Continue, Finish

LEMMA FailInCallOK ==
  ASSUME TypeOK, InCall, todo # <<>>, NEW t, Fail(t)
  PROVE  InCall'
<1>1. CASE Head(todo).fc \in BestEffort
  BY <1>1, ContinueInCallOK DEF Fail, InCall
<1>2. CASE Head(todo).fc \notin BestEffort
  BY <1>2, ContinueInCallOK DEF Fail
<1> QED BY <1>1, <1>2

LEMMA HandlerInCallOK ==
  ASSUME TypeOK, InCall, todo # <<>>, NEW a, Handler(a)
  PROVE  InCall'
<1>0. call.err = "nil"
  BY DEF InCall
<1>1. CASE OnError(a)
  BY <1>1, FailInCallOK DEF OnError
<1>2. CASE OnQuery(a) \/ OnStmtQuery(a) \/ OnPrepare(a) \/ OnEndTran(a)
  BY <1>2, ContinueInCallOK DEF OnQuery, OnStmtQuery, OnPrepare, OnEndTran
<1>3. CASE OnExec(a) \/ OnStmtExec(a) \/ OnLastId(a) \/ OnOther(a)
  BY <1>0, <1>3, ContinueInCallOK DEF OnExec, OnStmtExec, OnLastId, OnOther
<1> QED BY <1>1, <1>2, <1>3 DEF Handler

LEMMA StartInCallOK ==
  ASSUME TypeOK, InCall, Start
  PROVE  InCall'
<1>0. None \notin Ctx
  BY ConnAssumption
<1>1. ASSUME pc = "idle", NEW k, NEW err, Refuse(k, err)
      PROVE  InCall'
  BY <1>1 DEF Refuse, InCall, TypeOK, CallerType
<1>2. ASSUME NEW k, NEW ins, NEW trips, Enter(k, ins, trips)
      PROVE  InCall'
  BY <1>2 DEF Enter, InCall
<1>3. ASSUME NEW k, NEW ins, NEW trips,
             CallChecked(k, ins, trips) \/ CallUnchecked(k, trips) \/ CallBadArgs(k)
      PROVE  InCall'
  BY <1>1, <1>2, <1>3 DEF CallChecked, CallUnchecked, CallBadArgs, Ready
<1>4. ASSUME NEW k, NEW c \in Ctx, NEW ins, CallCtx(k, c, ins)
      PROVE  InCall'
  <2>1. CASE \E err : Refuse(k, err)
    BY <1>1, <1>4, <2>1 DEF CallCtx, Ready
  <2>2. CASE \E w : call' = [kind |-> k, ctx |-> c, w |-> w, ins |-> ins, err |-> "nil"]
    BY <1>0, <1>4, <2>2 DEF CallCtx, InCall, objs, Refuse
  <2> QED BY <1>4, <2>1, <2>2 DEF CallCtx
<1>5. CASE \E h \in Handle : \/ \E ins \in BOOLEAN : StmtExec(h, ins) \/ StmtExecArgs(h, ins)
                             \/ StmtQuery(h) \/ StmtQueryArgs(h)
  BY <1>3, <1>5 DEF StmtExec, StmtExecArgs, StmtQuery, StmtQueryArgs
<1>6. CASE \E h \in Handle : StmtClose(h) \/ RowsFetch(h) \/ RowsClose(h)
  BY <1>3, <1>6 DEF StmtClose, RowsFetch, RowsClose
<1>7. CASE Prepare \/ Ping \/ ServerVersion \/ EndTran
  BY <1>3, <1>7 DEF Prepare, Ping, ServerVersion, EndTran
<1>8. CASE Begin \/ Close
  BY <1>1, <1>8 DEF Begin, Close, Ready
<1>9. CASE \E h \in Handle : RowsForget(h)
  BY <1>9 DEF RowsForget, InCall
<1> QED BY <1>4, <1>5, <1>6, <1>7, <1>8, <1>9 DEF Start

LEMMA NextInCall == TypeOK /\ InCall /\ [Next]_vars => InCall'
<1> SUFFICES ASSUME TypeOK, InCall, [Next]_vars PROVE InCall'
  OBVIOUS
<1>0. call \in Call /\ (pc \in {"send", "len", "body"} => todo # <<>>)
  BY DEF TypeOK, CallerType
<1>1. CASE UNCHANGED <<pc, todo, call, closed, inTx>>
  BY <1>1 DEF InCall
<1>2. CASE \/ UNCHANGED vars \/ Cas \/ Crash
           \/ \E w \in Watcher : WatchStep(w)
           \/ \E c \in Ctx : Cancel(c) \/ TimePasses(c) \/ Expire(c)
  BY <1>1, <1>2 DEF vars, Cas, CasRejects, CasAllocates, CasUses, CasSession, CasIdle, Crash, WatchStep,
              WatchFire, WatchQuit, WatchSet, Cancel, TimePasses, Expire, objs
<1>3. CASE Check
  BY <1>3, ContinueInCallOK DEF Check, InCall
<1>4. CASE Send \/ RecvLen \/ Reset \/ Stop
  BY <1>0, <1>4 DEF Send, RecvLen, Reset, Stop, Return, InCall, Call, TypeOK, CallerType
<1>5. CASE SendFail \/ RecvTimeout \/ RecvEOF
  BY <1>0, <1>5, FailInCallOK DEF SendFail, RecvTimeout, RecvEOF, Waiting
<1>6. CASE RecvBody \/ RecvJunk
  BY <1>0, <1>6, HandlerInCallOK DEF RecvBody, RecvJunk
<1> QED BY <1>2, <1>3, <1>4, <1>5, <1>6, StartInCallOK DEF Next, Step

-----------------------------------------------------------------------------
(***************************************************************************)
(* The result of the call.                                                 *)
(***************************************************************************)

\* The requests that a result waits for.
Telling == {"PAE", "EXECUTE", "ENDTRAN"}

\* What a round trip of a call is to the session.
LEMMA ResultNow ==
  ASSUME TypeOK, Shape, InCall, todo # <<>>
  PROVE  /\ Result = IF Head(todo).fc \in Telling THEN "none" ELSE "nil"
         /\ KindOf(call.kind) = (CASE Head(todo).fc \in {"PAE", "EXECUTE"} -> "stmt"
                                   [] Head(todo).fc = "ENDTRAN" -> "commit"
                                   [] OTHER -> KindOf(call.kind))
         /\ Head(todo).fc = "LASTID" => KindOf(call.kind) = "stmt"
         /\ Head(todo).fc \in {"PREPARE", "FETCH", "VERSION"} => KindOf(call.kind) = "other"
         /\ KindOf(call.kind) # "begin"
<1>1. Head(todo).fc \in Planned(call.kind) /\ call.err = "nil"
  BY TailTrips DEF TypeOK, CallerType, Shape, Shaped, InCall
<1>2. Result = IF Head(todo).fc \in Telling THEN "none" ELSE "nil"
  BY <1>1 DEF Result, Pending, Telling
<1>3. /\ Head(todo).fc \in {"PAE", "EXECUTE"} => KindOf(call.kind) = "stmt"
      /\ Head(todo).fc = "ENDTRAN" => KindOf(call.kind) = "commit"
      /\ Head(todo).fc = "LASTID" => KindOf(call.kind) = "stmt"
      /\ Head(todo).fc \in {"PREPARE", "FETCH", "VERSION"} => KindOf(call.kind) = "other"
      /\ KindOf(call.kind) # "begin"
  BY <1>1 DEF Planned, KindOf
<1> QED BY <1>2, <1>3

\* Best-effort round trips do not make a result wait.
LEMMA NothingPending ==
  ASSUME todo' \in Seq(Trip), FCs(todo') \subseteq BestEffort, call'.err = "nil"
  PROVE  Result' = "nil"
<1> DEFINE s == todo'
<1>1. s # <<>> => Head(s).fc \in BestEffort
  <2> HIDE DEF s
  <2>1. s \in Seq(Trip) /\ FCs(s) \subseteq BestEffort
    BY DEF s
  <2> QED BY <2>1, TailTrips
<1> QED BY <1>1 DEF Result, Pending, BestEffort

LEMMA HandlerResult ==
  ASSUME TypeOK, Shape, InCall, todo # <<>>, NEW a \in Answer, Handler(a), a.ok
  PROVE  /\ UNCHANGED <<closed, inTx>> /\ call'.kind = call.kind
         /\ \/ /\ Head(todo).fc \in Telling /\ Result' = "nil"
               /\ autoCommit' = (autoCommit \/ Head(todo).fc = "ENDTRAN")
            \/ Head(todo).fc \in Telling /\ Result' = "ctx" /\ UNCHANGED autoCommit
            \/ Head(todo).fc \notin Telling /\ Result' = "nil" /\ UNCHANGED autoCommit
<1> DEFINE fc == Head(todo).fc
<1>0. /\ call \in Call /\ todo \in Seq(Trip) /\ a.h \in Opt(Handle) /\ a.ins \in BOOLEAN /\ call.ins \in BOOLEAN
      /\ fc \in Planned(call.kind) /\ call.err = "nil" /\ autoCommit \in BOOLEAN
      /\ FCs(Tail(todo)) \subseteq BestEffort /\ Tail(todo) \in Seq(Trip)
  <2>1. FCs(Tail(todo)) \subseteq BestEffort
    BY TailTrips, NoTrips DEF TypeOK, CallerType, Shape, Shaped
  <2> QED BY <2>1, TailTrips DEF TypeOK, ObjsType, CallerType, Call, Answer, Shape, Shaped, InCall
<1>1. <<>> \in Seq(Trip) /\ FCs(<<>>) \subseteq BestEffort
  BY NoTrips
<1>2. CASE OnQuery(a)
  <2>1. fc = "PAE" /\ UNCHANGED <<closed, inTx, autoCommit>> /\ todo' = <<>>
    BY <1>0, <1>2 DEF OnQuery, Continue, Planned
  <2>2. CASE UNCHANGED call
    BY <1>0, <1>1, <2>1, <2>2, NothingPending DEF Telling
  <2>3. CASE call' = [call EXCEPT !.err = "ctx"]
    BY <1>0, <2>1, <2>3 DEF Telling, Result, Call
  <2> QED BY <1>2, <2>2, <2>3 DEF OnQuery
<1>3. CASE OnExec(a)
  <2> DEFINE s == LastIdIf(a.ins) \o CloseOf(a.h)
  <2>1. fc = "PAE" /\ UNCHANGED <<closed, inTx, autoCommit>>
    BY <1>3 DEF OnExec, objs
  <2>2. s \in Seq(Trip) /\ FCs(s) \subseteq BestEffort
    <3>1. /\ LastIdIf(a.ins) \in Seq(Trip) /\ FCs(LastIdIf(a.ins)) \subseteq BestEffort
          /\ CloseOf(a.h) \in Seq(Trip) /\ FCs(CloseOf(a.h)) \subseteq BestEffort
      BY <1>0, FollowUps DEF BestEffort
    <3> QED BY <3>1, JoinTrips
  <2> HIDE DEF s
  <2>3. CASE UNCHANGED call /\ todo' = s
    BY <1>0, <2>1, <2>2, <2>3, NothingPending DEF Telling
  <2>4. CASE call' = [call EXCEPT !.err = "ctx"]
    BY <1>0, <2>1, <2>4 DEF Telling, Result, Call
  <2> QED BY <1>3, <2>3, <2>4 DEF OnExec, Continue, s
<1>4. CASE OnStmtExec(a)
  <2> DEFINE c == IF call.kind = "stmtExecArgs" THEN CloseOf(a.h) ELSE <<>>
             s == c \o LastIdIf(call.ins)
  <2>1. fc \in {"PAE", "EXECUTE"} /\ UNCHANGED <<closed, inTx, autoCommit, call>> /\ todo' = s
    BY <1>4 DEF OnStmtExec, objs, Continue
  <2>2. c \in Seq(Trip) /\ FCs(c) \subseteq BestEffort
    BY <1>0, <1>1, FollowUps DEF BestEffort
  <2>3. LastIdIf(call.ins) \in Seq(Trip) /\ FCs(LastIdIf(call.ins)) \subseteq BestEffort
    BY <1>0, FollowUps DEF BestEffort
  <2> HIDE DEF c
  <2>4. s \in Seq(Trip) /\ FCs(s) \subseteq BestEffort
    BY <2>2, <2>3, JoinTrips
  <2> HIDE DEF s
  <2> QED BY <1>0, <2>1, <2>4, NothingPending DEF Telling
<1>5. CASE OnStmtQuery(a)
  <2>1. fc \in {"PAE", "EXECUTE"} /\ UNCHANGED <<closed, inTx, autoCommit, call>> /\ todo' = <<>>
    BY <1>0, <1>5 DEF OnStmtQuery, Continue, Planned
  <2> QED BY <1>0, <1>1, <2>1, NothingPending DEF Telling
<1>6. CASE OnEndTran(a)
  <2>1. fc = "ENDTRAN" /\ UNCHANGED <<closed, inTx, call>> /\ autoCommit' = TRUE /\ todo' = <<>>
    BY <1>0, <1>6 DEF OnEndTran, Continue, Planned
  <2> QED BY <1>0, <1>1, <2>1, NothingPending DEF Telling
<1>7. CASE OnPrepare(a)
  <2>1. fc = "PREPARE" /\ UNCHANGED <<closed, inTx, autoCommit, call>> /\ todo' = <<>>
    BY <1>0, <1>7 DEF OnPrepare, Continue, Planned
  <2> QED BY <1>0, <1>1, <2>1, NothingPending DEF Telling
<1>8. CASE OnLastId(a)
  <2> DEFINE s == CloseOf(a.h) \o Tail(todo)
  <2>1. fc = "LASTID" /\ UNCHANGED <<closed, inTx, autoCommit, call>> /\ todo' = s
    BY <1>8 DEF OnLastId, objs, Continue
  <2>2. CloseOf(a.h) \in Seq(Trip) /\ FCs(CloseOf(a.h)) \subseteq BestEffort
    BY <1>0, FollowUps DEF BestEffort
  <2>3. s \in Seq(Trip) /\ FCs(s) \subseteq BestEffort
    BY <1>0, <2>2, JoinTrips, ZenonT(30)
  <2> HIDE DEF s
  <2> QED BY <1>0, <2>1, <2>3, NothingPending DEF Telling
<1>9. CASE OnOther(a)
  <2>1. fc \in {"CLOSE", "FETCH", "VERSION"} /\ UNCHANGED <<closed, inTx, autoCommit, call>> /\ todo' = Tail(todo)
    BY <1>9 DEF OnOther, objs, Continue
  <2> QED BY <1>0, <2>1, NothingPending DEF Telling
<1> QED BY <1>2, <1>3, <1>4, <1>5, <1>6, <1>7, <1>8, <1>9 DEF Handler, OnError

-----------------------------------------------------------------------------
(***************************************************************************)
(* The refinement.                                                         *)
(***************************************************************************)

LEMMA NothingArrived ==
  ASSUME Lost' \/ toCli' = <<>>
  PROVE  Arrived' = "none"
BY DEF Lost, Arrived

LEMMA FailRefines ==
  ASSUME TypeOK, TypeOK', Shape, InCall, todo # <<>>, Busy, NEW transport, Fail(transport),
         UNCHANGED <<closed, inTx, autoCommit, srvUp, Requests, Work>>, Arrived' = "none", GivenUp
  PROVE  Session!Next
<1>0. /\ call \in Call /\ todo \in Seq(Trip) /\ call.err = "nil" /\ call'.kind = call.kind
      /\ FCs(todo) \subseteq BestEffort \/ Head(todo).fc \notin BestEffort
  <2>1. call \in Call /\ todo \in Seq(Trip) /\ call.err = "nil" /\ call'.kind = call.kind
    BY FailEffect DEF TypeOK, CallerType, InCall
  <2>2. Tail(todo) = <<>> => FCs(todo) = {Head(todo).fc}
    BY <2>1, TailTrips, NoTrips
  <2> QED BY <2>1, <2>2 DEF Shape, Shaped
<1>1. Ended
  BY <1>0, LeavesRead DEF Ended
<1>2. CASE Head(todo).fc \in BestEffort
  <2>1. call' = call /\ todo' = Tail(todo)
    BY <1>2 DEF Fail, Continue
  <2>2. todo' \in Seq(Trip) /\ FCs(todo') \subseteq BestEffort
    BY <1>0, <1>2, <2>1, TailTrips
  <2>3. Result' = "nil" /\ Result = "nil"
    BY <1>0, <1>2, <2>1, <2>2, NothingPending, ResultNow DEF Telling, BestEffort
  <2> QED BY <1>1, <2>3, MapsToTidied
<1>3. CASE Head(todo).fc \notin BestEffort
  <2>1. Head(todo).fc \in Telling \cup {"PREPARE", "FETCH", "VERSION"}
    BY <1>0, <1>3, TailTrips DEF Trip, FC, BestEffort, Telling
  <2>2. Result = "none" \/ KindOf(call.kind) \in {"begin", "other"}
    BY <2>1, ResultNow
  <2>3. Result' = call'.err /\ (call'.err \in {"err", "ctx"} \/ (call'.err = "badconn" /\ call.kind = "ping"))
    BY <1>0, <1>3 DEF Fail, Result, Call
  <2>4. call.kind = "ping" => KindOf(call.kind) = "other"
    BY DEF KindOf
  <2> QED BY <1>1, <2>2, <2>3, <2>4, MapsToFail
<1> QED BY <1>2, <1>3

LEMMA HandlerRefines ==
  ASSUME TypeOK, TypeOK', Shape, InCall, todo # <<>>, Waiting, NEW a \in Answer, Handler(a),
         UNCHANGED <<srvUp, Requests, Work, Lost>>, Arrived' = "none",
         ~Lost => Arrived = IF a.ok THEN "ok" ELSE "no"
  PROVE  Session!Next
<1>1. Busy /\ GivenUp /\ ~Waiting'
  BY HandlerLeavesRead DEF Busy, Waiting, GivenUp
<1>2. CASE a.ok
  <2>1. /\ UNCHANGED <<closed, inTx>> /\ call'.kind = call.kind
        /\ \/ /\ Head(todo).fc \in Telling /\ Result' = "nil"
              /\ autoCommit' = (autoCommit \/ Head(todo).fc = "ENDTRAN")
           \/ Head(todo).fc \in Telling /\ Result' = "ctx" /\ UNCHANGED autoCommit
           \/ Head(todo).fc \notin Telling /\ Result' = "nil" /\ UNCHANGED autoCommit
    BY <1>2, HandlerResult
  <2>2. Ended
    BY <1>1, <2>1 DEF Ended
  <2>3. Result = (IF Head(todo).fc \in Telling THEN "none" ELSE "nil")
    BY ResultNow
  <2>4. ASSUME Head(todo).fc \in Telling
        PROVE  KindOf(call.kind) \in {"commit", "rollback"} <=> Head(todo).fc = "ENDTRAN"
    BY <2>4, ResultNow DEF Telling
  <2>5. CASE Head(todo).fc \in Telling /\ Result' = "nil"
             /\ autoCommit' = (autoCommit \/ Head(todo).fc = "ENDTRAN")
    <3>1. autoCommit' = (autoCommit \/ KindOf(call.kind) \in {"commit", "rollback"})
      BY <2>4, <2>5
    <3> QED BY <1>2, <2>2, <2>3, <2>5, <3>1, MapsToTake
  <2>6. CASE Head(todo).fc \in Telling /\ Result' = "ctx" /\ UNCHANGED autoCommit
    BY <1>1, <2>2, <2>3, <2>6, MapsToFail
  <2>7. CASE Head(todo).fc \notin Telling /\ Result' = "nil" /\ UNCHANGED autoCommit
    BY <1>1, <2>2, <2>3, <2>7, MapsToTidied
  <2> QED BY <2>1, <2>5, <2>6, <2>7
<1>3. CASE ~a.ok
  <2>1. Fail(FALSE) /\ UNCHANGED objs
    BY <1>3 DEF Handler, OnError, OnQuery, OnExec, OnStmtExec, OnStmtQuery, OnLastId, OnPrepare,
                OnEndTran, OnOther
  <2> QED BY <1>1, <2>1, FailRefines DEF objs
<1> QED BY <1>2, <1>3

LEMMA SameNet ==
  /\ UNCHANGED toSrv => UNCHANGED Requests
  /\ UNCHANGED tran => UNCHANGED Work
  /\ UNCHANGED orphaned => UNCHANGED Lost
  /\ UNCHANGED <<toCli, orphaned>> => UNCHANGED Arrived
BY DEF Requests, RequestOf, Work, Lost, Arrived

LEMMA QuietNet ==
  ASSUME UNCHANGED <<net, orphaned>>
  PROVE  UNCHANGED <<toSrv, toCli, srvUp, Requests, Arrived, Work, Lost>>
BY SameNet DEF net

LEMMA ResultOfErr ==
  ASSUME NEW e \in {"err", "ctx", "badconn"}, call'.err = e
  PROVE  Result' = e
BY DEF Result

LEMMA CheckRefines ==
  ASSUME TypeOK, TypeOK', OneInFlight, Shape, InCall, Check
  PROVE  Session!Next \/ UNCHANGED sessions
<1>0. /\ pc = "check" /\ UNCHANGED <<closed, toCli, orphaned, srvUp, Requests, Arrived, Work, Lost>>
      /\ Busy /\ ~Waiting /\ call \in Call /\ call.err = "nil"
  BY QuietNet DEF Check, Quiet, Busy, Waiting, TypeOK, CallerType, InCall
<1>1. Arrived = "none" /\ Arrived' = "none" /\ GivenUp
  <2>1. Lost \/ toCli = <<>>
    BY <1>0 DEF OneInFlight, Lost
  <2>2. Arrived = "none"
    BY <2>1 DEF Arrived, Lost
  <2> QED BY <1>0, <2>2 DEF GivenUp
<1>2. ASSUME call.kind # "beginTx"
      PROVE  todo # <<>> /\ Result = "none"
  <2>1. todo # <<>> /\ FCs(todo) \subseteq {"PAE"} /\ todo \in Seq(Trip)
    BY <1>0, <1>2 DEF TypeOK, CallerType, Shape
  <2>2. Head(todo).fc = "PAE"
    BY <2>1, TailTrips
  <2> QED BY <2>1, <2>2, ResultNow DEF Telling
<1>3. ASSUME NEW e \in {"ctx", "err"}, call' = [call EXCEPT !.err = e], Continue(<<>>),
             UNCHANGED <<autoCommit, inTx>>
      PROVE  Session!Next
  <2>1. Result' = e /\ call'.kind = call.kind
    BY <1>0, <1>3, ResultOfErr DEF Call
  <2>2. Ended
    BY <1>0, <1>1, <1>3, <2>1, LeavesRead DEF Ended
  <2>3. Result = "none" \/ KindOf(call.kind) \in {"begin", "other"}
    BY <1>2 DEF KindOf
  <2> QED BY <1>1, <1>3, <2>1, <2>2, <2>3, MapsToFail
<1>4. CASE call.kind = "beginTx" /\ autoCommit' = FALSE /\ inTx' = TRUE /\ Continue(<<>>) /\ UNCHANGED call
  <2>1. ~closed /\ ~inTx /\ pc' = "reset" /\ todo' = <<>> /\ todo = <<>>
    BY <1>0, <1>4 DEF InCall, Continue, Finish, TypeOK, CallerType
  <2>2. KindOf(call.kind) = "begin" /\ KindOf(call.kind)' = "begin" /\ Result = "nil" /\ Result' = "nil"
    BY <1>0, <1>4, <2>1 DEF KindOf, Result, Pending
  <2>3. Busy' = Busy /\ ~Waiting'
    BY <1>0, <2>1 DEF Busy, Waiting
  <2> QED BY <1>0, <1>4, <2>1, <2>2, <2>3, MapsToBegin
<1>5. CASE pc' = "send" /\ UNCHANGED <<call, todo, autoCommit, inTx>>
  <2>1. UNCHANGED <<Busy, Waiting, KindOf(call.kind), Result>>
    BY <1>0, <1>5 DEF Busy, Waiting, KindOf, Result, Pending
  <2> QED BY <1>0, <1>5, <2>1, MapsToStutter
<1> QED BY <1>3, <1>4, <1>5 DEF Check

LEMMA SendRefines ==
  ASSUME TypeOK, TypeOK', Shape, InCall, Send
  PROVE  Session!Next
<1> DEFINE q == [id |-> nreq + 1, fc |-> Head(todo).fc, h |-> Head(todo).h,
                 ac |-> autoCommit \/ Head(todo).fc = "VERSION",
                 ins |-> call.ins /\ Head(todo).fc = "PAE"]
<1>0. /\ pc = "send" /\ pc' = "len" /\ todo # <<>> /\ todo \in Seq(Trip) /\ ~closed /\ autoCommit \in BOOLEAN
      /\ UNCHANGED <<closed, autoCommit, inTx, call, todo, toCli, srvUp, tran, orphaned>>
      /\ nreq \in Nat /\ call.ins \in BOOLEAN
      /\ toSrv' = IF srvUp THEN Append(toSrv, q) ELSE toSrv
  BY DEF Send, objs, TypeOK, CallerType, ObjsType, SockType, Call
<1>1. Head(todo).fc \in FC /\ Head(todo).h \in Opt(Handle)
  BY <1>0, TailTrips DEF Trip
<1>2. q \in Request
  BY <1>0, <1>1 DEF Request
<1>3. RequestOf(q) = [kind |-> RequestOf(q).kind, ac |-> q.ac, job |-> None]
  BY DEF RequestOf
<1>4. RequestOf(q).kind = CASE Head(todo).fc \in {"PAE", "EXECUTE"} -> "stmt"
                            [] Head(todo).fc = "LASTID" -> "id"
                            [] Head(todo).fc = "ENDTRAN" -> "commit"
                            [] OTHER -> "aux"
  BY DEF RequestOf
<1>5. q.ac = (autoCommit \/ Head(todo).fc = "VERSION")
  OBVIOUS
<1> DEFINE k == RequestOf(q).kind
           ac == q.ac
<1>6. k \in (IF Result = "none" THEN {KindOf(call.kind)} ELSE {"aux", "id"})
      /\ (k = "id" => KindOf(call.kind) = "stmt") /\ KindOf(call.kind) # "begin"
  BY <1>0, <1>1, <1>4, ResultNow DEF Telling, FC
<1>7. ac \in {autoCommit} \cup (IF KindOf(call.kind) = "other" THEN {TRUE} ELSE {})
  BY <1>0, <1>1, <1>5, ResultNow
<1>8. Requests' = IF srvUp THEN Append(Requests, [kind |-> k, ac |-> ac, job |-> None]) ELSE Requests
  <2> HIDE DEF q
  <2>1. CASE srvUp
    BY <1>0, <1>2, <1>3, <2>1, RequestsAppend
  <2>2. CASE ~srvUp
    BY <1>0, <2>2, SameNet
  <2> QED BY <2>1, <2>2
<1>9. /\ Busy /\ Busy' /\ ~Waiting /\ Waiting' /\ UNCHANGED <<KindOf(call.kind), Result, Work, Arrived, Lost>>
  <2>1. UNCHANGED <<KindOf(call.kind), Result>>
    BY <1>0 DEF KindOf, Result, Pending
  <2> QED BY <1>0, <2>1, SameNet DEF Busy, Waiting
<1> HIDE DEF k, ac
<1> QED BY <1>0, <1>6, <1>7, <1>8, <1>9, MapsToSend

LEMMA SendFailRefines ==
  ASSUME TypeOK, TypeOK', OneInFlight, Shape, InCall, SendFail
  PROVE  Session!Next
<1>0. /\ pc = "send" /\ todo # <<>> /\ Fail(TRUE) /\ Busy /\ ~Waiting
      /\ UNCHANGED <<closed, inTx, autoCommit, toCli, orphaned, srvUp, Requests, Arrived, Work, Lost>>
  BY QuietNet DEF SendFail, Quiet, objs, Busy, Waiting, TypeOK, CallerType
<1>1. Lost \/ toCli = <<>>
  BY <1>0 DEF OneInFlight, Lost
<1>2. Arrived' = "none" /\ GivenUp
  BY <1>0, <1>1, NothingArrived DEF GivenUp
<1> QED BY <1>0, <1>2, FailRefines

LEMMA RecvLenRefines ==
  ASSUME TypeOK, TypeOK', OneInFlight, Paired, RecvLen
  PROVE  UNCHANGED sessions
<1>0. /\ pc = "len" /\ pc' = "body" /\ toCli # <<>> /\ toCli \in Seq(Unit)
      /\ UNCHANGED <<closed, autoCommit, inTx, call, todo, toSrv, srvUp, tran, orphaned>>
      /\ toCli[1].part = "len" => toCli' = Tail(toCli)
  BY TailFacts DEF RecvLen, objs, TypeOK, NetType
<1>1. UNCHANGED <<Busy, Waiting, KindOf(call.kind), Result, Requests, Work, Lost>>
  <2>1. UNCHANGED <<KindOf(call.kind), Result>>
    BY <1>0 DEF KindOf, Result, Pending
  <2> QED BY <1>0, <2>1, SameNet DEF Busy, Waiting
<1>2. ASSUME Lost
      PROVE  UNCHANGED Arrived
  BY <1>0, <1>2 DEF Lost, Arrived
<1>3. ASSUME ~Lost
      PROVE  UNCHANGED Arrived
  <2>1. orphaned = {} /\ Len(toCli) \in {1, 2} /\ toCli[1].part = "len"
    BY <1>0, <1>3, EmptySeq DEF Lost, OneInFlight, Alone
  <2>2. toCli' = Tail(toCli) /\ toCli' \in Seq(Unit) /\ Len(toCli') = Len(toCli) - 1
        /\ \A i \in DOMAIN toCli' : toCli'[i] = toCli[i + 1]
    BY <1>0, <2>1, TailFacts
  <2>3. CASE Len(toCli) = 1
    <3>1. toCli' = <<>>
      BY <2>2, <2>3, ShortSeq
    <3> QED BY <2>1, <2>3, <3>1 DEF Arrived
  <2>4. CASE Len(toCli) = 2
    <3>1. Len(toCli') = 1 /\ toCli' # <<>>
      <4>1. Len(toCli') = 1
        BY <2>2, <2>4
      <4> QED BY <2>2, <4>1, ShortSeq
    <3>2. 1 \in DOMAIN toCli'
      BY <2>2, <3>1, TailFacts
    <3>3. toCli'[1] = toCli[2]
      BY <2>2, <3>2
    <3> QED BY <1>0, <2>4, <3>1, <3>3 DEF Arrived
  <2> QED BY <2>1, <2>3, <2>4
<1>4. UNCHANGED Arrived
  BY <1>2, <1>3
<1> QED BY <1>0, <1>1, <1>4, MapsToStutter

LEMMA NoAnswerRefines ==
  ASSUME TypeOK, TypeOK', Shape, InCall, RecvTimeout \/ RecvEOF
  PROVE  Session!Next
<1>0. /\ Waiting /\ Busy /\ todo # <<>> /\ Fail(TRUE)
      /\ UNCHANGED <<closed, inTx, autoCommit, toSrv, srvUp, tran>>
  BY DEF RecvTimeout, RecvEOF, objs, Waiting, Busy, TypeOK, CallerType
<1>1. UNCHANGED <<Requests, Work>>
  BY <1>0, SameNet
<1>2. CASE RecvTimeout
  <2>1. Lost'
    BY <1>2 DEF RecvTimeout, Lost
  <2>2. Arrived' = "none" /\ GivenUp
    BY <1>0, <2>1, NothingArrived DEF GivenUp
  <2> QED BY <1>0, <1>1, <2>2, FailRefines
<1>3. CASE RecvEOF
  <2>1. toCli' = <<>> /\ ~srvUp /\ UNCHANGED Lost
    BY <1>3, SameNet DEF RecvEOF
  <2>2. Arrived' = "none" /\ GivenUp
    BY <1>0, <2>1, NothingArrived DEF GivenUp
  <2> QED BY <1>0, <1>1, <2>2, FailRefines
<1> QED BY <1>2, <1>3

\* The answer a call takes while the connection is in step is its own.
LEMMA RecvBodyRefines ==
  ASSUME TypeOK, TypeOK', OneInFlight, Paired, Shape, Facts, InCall, RecvBody
  PROVE  Session!Next
<1>0. /\ Waiting /\ todo # <<>> /\ toCli # <<>> /\ toCli \in Seq(Unit) /\ UNCHANGED <<toSrv, srvUp, tran>>
      /\ Lost => Lost'
  BY DEF RecvBody, Waiting, TypeOK, CallerType, NetType, Lost
<1>1. UNCHANGED <<Requests, Work>>
  BY <1>0, SameNet
<1>2. CASE Lost
  <2>1. Head(toCli) \in Unit
    BY <1>0, TailFacts
  <2>2. Head(toCli).a \in Answer
    BY <2>1 DEF Unit
  <2>3. PICK ok \in BOOLEAN : Handler([Head(toCli).a EXCEPT !.ok = ok])
    BY <2>2 DEF RecvBody, Answer
  <2>4. [Head(toCli).a EXCEPT !.ok = ok] \in Answer
    BY <2>2 DEF Answer
  <2>5. UNCHANGED Lost /\ Arrived' = "none"
    BY <1>0, <1>2, NothingArrived DEF Lost
  <2> QED BY <1>0, <1>1, <1>2, <2>3, <2>4, <2>5, HandlerRefines
<1>3. CASE ~Lost
  <2>1. /\ orphaned = {} /\ orphaned' = {} /\ toCli' = <<>> /\ DOMAIN toCli = {1}
        /\ toCli[1].a \in Answer /\ Handler(toCli[1].a)
    BY <1>3, ReadsOwn DEF Lost
  <2>2. Len(toCli) = 1 /\ toCli[1].part = "body"
    <3>1. pc = "body" /\ toCli[1].part = "body" /\ Len(toCli) <= 1
      BY <1>0, <2>1 DEF RecvBody, Paired, OneInFlight
    <3>2. Len(toCli) \in Nat /\ Len(toCli) # 0
      BY <1>0, ShortSeq, DomainOf
    <3> DEFINE n == Len(toCli)
    <3>3. n <= 1 /\ n \in Nat /\ n # 0
      BY <3>1, <3>2
    <3> HIDE DEF n
    <3>4. n = 1
      BY <3>3
    <3> QED BY <3>1, <3>4 DEF n
  <2>3. Arrived = IF toCli[1].a.ok THEN "ok" ELSE "no"
    BY <1>0, <2>1, <2>2 DEF Arrived
  <2>4. UNCHANGED Lost /\ Arrived' = "none"
    BY <2>1, NothingArrived DEF Lost
  <2> QED BY <1>0, <1>1, <2>1, <2>3, <2>4, HandlerRefines
<1> QED BY <1>2, <1>3

\* A length is junk only on a connection that has lost step.
LEMMA RecvJunkRefines ==
  ASSUME TypeOK, TypeOK', OneInFlight, Shape, InCall, RecvJunk
  PROVE  Session!Next
<1>0. /\ Waiting /\ todo # <<>> /\ frame = 0 /\ pc = "body" /\ UNCHANGED <<toSrv, srvUp, tran>>
      /\ Lost => Lost'
  BY DEF RecvJunk, Waiting, TypeOK, CallerType, Lost
<1>1. Lost
  BY <1>0 DEF OneInFlight, Lost
<1>2. UNCHANGED <<Requests, Work>>
  BY <1>0, SameNet
<1>3. UNCHANGED Lost /\ Arrived' = "none"
  BY <1>0, <1>1, NothingArrived DEF Lost
<1>4. PICK a \in [id : {0}, ok : BOOLEAN, h : Opt(Handle), ins : BOOLEAN] : Handler(a)
  BY DEF RecvJunk
<1>5. a \in Answer
  BY <1>4 DEF Answer
<1> QED BY <1>0, <1>1, <1>2, <1>3, <1>4, <1>5, HandlerRefines

LEMMA ReturnRefines ==
  ASSUME TypeOK, TypeOK', OneInFlight, Reset \/ Stop
  PROVE  Session!Next \/ UNCHANGED sessions
<1>0. /\ pc \in {"reset", "stop"} /\ todo = <<>> /\ todo' = <<>> /\ call \in Call /\ Busy /\ ~Waiting
      /\ UNCHANGED <<closed, autoCommit, inTx, toSrv, toCli, srvUp, tran, orphaned>>
  BY DEF Reset, Stop, objs, net, TypeOK, CallerType, Busy, Waiting
<1>1. UNCHANGED <<Requests, Work, Lost, Arrived>>
  BY <1>0, SameNet
<1>2. CASE pc' = "stop" /\ UNCHANGED call
  <2>1. UNCHANGED <<Busy, Waiting, KindOf(call.kind), Result>>
    BY <1>0, <1>2 DEF Busy, Waiting, KindOf, Result, Pending
  <2> QED BY <1>0, <1>1, <2>1, MapsToStutter
<1>3. CASE Return
  <2>1. pc' = "idle" /\ call'.kind = call.kind /\ call'.err = call.err /\ call.err # "none"
    BY <1>0, <1>3 DEF Return, Call
  <2>2. UNCHANGED Result /\ Result # "none"
    BY <1>0, <2>1 DEF Result, Pending
  <2>3. Lost \/ toCli' = <<>>
    BY <1>0 DEF OneInFlight, Lost
  <2>4. Arrived' = "none" /\ GivenUp /\ ~Waiting'
    BY <1>0, <1>1, <2>1, <2>3, NothingArrived DEF GivenUp, Waiting
  <2>5. Ended
    BY <1>0, <1>1, <2>1, <2>4 DEF Ended
  <2> QED BY <1>0, <2>2, <2>4, <2>5, MapsToTidied
<1> QED BY <1>2, <1>3 DEF Reset, Stop

LEMMA StepRefines ==
  ASSUME TypeOK, TypeOK', OneInFlight, Paired, Shape, Facts, InCall, Step \/ RecvJunk
  PROVE  Session!Next \/ UNCHANGED sessions
BY CheckRefines, SendRefines, SendFailRefines, RecvLenRefines, NoAnswerRefines, RecvBodyRefines,
   RecvJunkRefines, ReturnRefines DEF Step

-----------------------------------------------------------------------------
(***************************************************************************)
(* The server and the environment.                                         *)
(***************************************************************************)

\* What the server has committed after a request is what Session says.
LEMMA ServedWork ==
  ASSUME TypeOK, toSrv # <<>>, Cas
  PROVE  \E ok \in BOOLEAN, h \in Opt(Handle) :
           /\ Reply(Head(toSrv), ok, h)
           /\ Work' \in IF ok THEN Session!TranAfter(Work, RequestOf(Head(toSrv))) ELSE {Work}
<1> DEFINE q == Head(toSrv)
           r == RequestOf(q)
<1>0. q \in Request /\ q.fc \in FC /\ q.ac \in BOOLEAN /\ tran \in BOOLEAN
  <2>1. q \in Request
    BY TailFacts DEF TypeOK, NetType
  <2> QED BY <2>1 DEF Request, TypeOK, NetType
<1>1. r.kind = (CASE q.fc \in {"PAE", "EXECUTE"} -> "stmt"
                  [] q.fc = "LASTID" -> "id"
                  [] q.fc = "ENDTRAN" -> "commit"
                  [] OTHER -> "aux")
      /\ r.ac = q.ac /\ r.job = None
  BY DEF RequestOf
<1> HIDE DEF q, r
<1>2. ASSUME q.fc \in {"PAE", "EXECUTE", "LASTID"}, tran' = ~q.ac
      PROVE  Work' \in Session!TranAfter(Work, r)
  <2>1. r.kind \in {"stmt", "id"}
    BY <1>1, <1>2
  <2>2. Work' = IF r.ac THEN {} ELSE Work \cup {r.job}
    BY <1>0, <1>1, <1>2 DEF Work
  <2> QED BY <2>1, <2>2 DEF Session!TranAfter
<1>3. ASSUME q.fc \in {"PREPARE", "FETCH", "CLOSE"}, tran' = tran
      PROVE  Work' \in Session!TranAfter(Work, r)
  <2>1. r.kind = "aux" /\ Work' = Work
    BY <1>1, <1>3 DEF Work
  <2> QED BY <2>1 DEF Session!TranAfter
<1>4. ASSUME q.fc = "VERSION", tran' \in {tran, tran /\ ~q.ac}
      PROVE  Work' \in Session!TranAfter(Work, r)
  <2>1. r.kind = "aux"
    BY <1>1, <1>4
  <2>2. Work' = Work \/ (r.ac /\ Work' = {})
    BY <1>0, <1>1, <1>4 DEF Work
  <2> QED BY <2>1, <2>2 DEF Session!TranAfter
<1>5. ASSUME q.fc = "ENDTRAN", tran' = FALSE
      PROVE  Work' \in Session!TranAfter(Work, r)
  <2>1. r.kind = "commit" /\ Work' = {}
    BY <1>1, <1>5 DEF Work
  <2> QED BY <2>1 DEF Session!TranAfter
<1>6. CASE CasRejects
  <2>1. Reply(q, FALSE, None) /\ Work' = Work /\ None \in Opt(Handle)
    BY <1>6 DEF CasRejects, Work, q, Opt
  <2> QED BY <2>1 DEF q, r
<1>7. CASE CasAllocates
  <2>1. PICK h \in Handle \ open : Reply(q, TRUE, h)
    BY <1>7 DEF CasAllocates, q
  <2>2. q.fc \in {"PREPARE", "PAE", "LASTID"} /\ tran' = IF q.fc = "PREPARE" THEN tran ELSE ~q.ac
    BY <1>7 DEF CasAllocates, q
  <2>3. Work' \in Session!TranAfter(Work, r) /\ h \in Opt(Handle)
    BY <1>2, <1>3, <2>1, <2>2 DEF Opt
  <2> QED BY <2>1, <2>3 DEF q, r
<1>8. CASE CasUses
  <2>1. Reply(q, TRUE, None) /\ None \in Opt(Handle)
    BY <1>8 DEF CasUses, q, Opt
  <2>2. q.fc \in {"EXECUTE", "FETCH", "CLOSE"} /\ tran' = IF q.fc = "EXECUTE" THEN ~q.ac ELSE tran
    BY <1>8 DEF CasUses, q
  <2>3. Work' \in Session!TranAfter(Work, r)
    BY <1>2, <1>3, <2>2
  <2> QED BY <2>1, <2>3 DEF q, r
<1>9. CASE CasSession
  <2>1. Reply(q, TRUE, None) /\ None \in Opt(Handle)
    BY <1>9 DEF CasSession, q, Opt
  <2>2. q.fc \in {"ENDTRAN", "VERSION"} /\ tran' \in IF q.fc = "ENDTRAN" THEN {FALSE} ELSE {tran, tran /\ ~q.ac}
    BY <1>9 DEF CasSession, q
  <2>3. Work' \in Session!TranAfter(Work, r)
    BY <1>4, <1>5, <2>2
  <2> QED BY <2>1, <2>3 DEF q, r
<1> QED BY <1>6, <1>7, <1>8, <1>9 DEF Cas

LEMMA CasRefines ==
  ASSUME TypeOK, TypeOK', Cas
  PROVE  Session!Next
<1>0. /\ srvUp /\ toSrv # <<>> /\ toSrv \in Seq(Request) /\ toCli \in Seq(Unit)
      /\ UNCHANGED <<closed, autoCommit, inTx, pc, call, todo, srvUp, orphaned>>
  BY DEF Cas, CasRejects, CasAllocates, CasUses, CasSession, CasIdle, objs, TypeOK, NetType
<1>1. PICK ok \in BOOLEAN, h \in Opt(Handle) :
        /\ Reply(Head(toSrv), ok, h)
        /\ Work' \in IF ok THEN Session!TranAfter(Work, RequestOf(Head(toSrv))) ELSE {Work}
  BY <1>0, ServedWork
<1> DEFINE a == [id |-> Head(toSrv).id, ok |-> ok, h |-> h, ins |-> Head(toSrv).ins]
           l == [part |-> "len", a |-> a]
           b == [part |-> "body", a |-> a]
<1>2. toSrv' = Tail(toSrv) /\ toCli' = toCli \o <<l, b>>
  BY <1>1 DEF Reply
<1>3. Requests # <<>> /\ Requests' = Tail(Requests) /\ Head(Requests) = RequestOf(Head(toSrv))
  BY <1>0, <1>2, RequestsTail
<1>4. Arrived' = IF Lost THEN "none" ELSE IF ok THEN "ok" ELSE "no"
  <2>1. Head(toSrv) \in Request
    BY <1>0, TailFacts
  <2>2. a \in Answer
    BY <1>1, <2>1 DEF Request, Answer
  <2>3. l \in Unit /\ b \in Unit /\ b.part = "body" /\ b.a.ok = ok
    BY <2>2 DEF Unit
  <2> HIDE DEF l, b
  <2>4. /\ toCli' \in Seq(Unit) /\ Len(toCli') = Len(toCli) + 2
        /\ \A i \in DOMAIN toCli' :
             \/ i \in DOMAIN toCli /\ toCli'[i] = toCli[i]
             \/ i \notin DOMAIN toCli /\ i = Len(toCli) + 1 /\ toCli'[i] = l
             \/ i \notin DOMAIN toCli /\ i = Len(toCli) + 2 /\ toCli'[i] = b
    BY <1>0, <1>2, <2>3, PairFacts
  <2>5. Len(toCli) \in Nat /\ DOMAIN toCli = 1..Len(toCli) /\ DOMAIN toCli' = 1..Len(toCli')
    BY <1>0, <2>4, DomainOf
  <2>6. toCli'[Len(toCli')] = b /\ Len(toCli') # 0
    BY <2>4, <2>5
  <2>7. toCli' # <<>>
    BY <2>4, <2>6, ShortSeq
  <2> QED BY <1>0, <2>3, <2>6, <2>7 DEF Arrived, Lost
<1>5. UNCHANGED <<Result, Lost>>
  BY <1>0 DEF Result, Pending, Lost
<1> HIDE DEF a
<1> QED BY <1>0, <1>1, <1>3, <1>4, <1>5, MapsToServe

\* What the server had sent may still arrive: all of the answer, or none of it
\* that can be taken.
LEMMA CrashRefines ==
  ASSUME TypeOK, TypeOK', OneInFlight, Crash
  PROVE  Session!Next
<1>0. /\ srvUp /\ srvUp' = FALSE /\ toSrv' = <<>> /\ tran' = FALSE /\ toCli \in Seq(Unit)
      /\ UNCHANGED <<closed, autoCommit, inTx, pc, call, todo, orphaned>>
  BY DEF Crash, objs, TypeOK, NetType
<1>1. Requests' = <<>> /\ Work' = {} /\ UNCHANGED <<Result, Lost>>
  BY <1>0, RequestsEmpty DEF Work, Result, Pending, Lost
<1>2. PICK k \in 0..Len(toCli) : toCli' = SubSeq(toCli, 1, k)
  BY DEF Crash
<1>3. toCli' \in Seq(Unit) /\ Len(toCli') = k /\ \A i \in 1..k : toCli'[i] = toCli[i]
  BY <1>0, <1>2, SuffixType
<1>4. Len(toCli) \in Nat /\ k \in 0..Len(toCli)
  BY <1>0, DomainOf
<1>5. CASE Lost
  <2>1. Arrived' = "none"
    BY <1>1, <1>5, NothingArrived
  <2> QED BY <1>0, <1>1, <2>1, MapsToDie
<1>6. CASE ~Lost /\ k = 0
  <2>1. toCli' = <<>>
    BY <1>3, <1>6, ShortSeq
  <2>2. Arrived' = "none"
    BY <2>1, NothingArrived
  <2> QED BY <1>0, <1>1, <2>2, MapsToDie
<1>7. CASE ~Lost /\ k = Len(toCli) /\ k # 0
  <2>1. toCli' # <<>> /\ toCli # <<>> /\ toCli'[Len(toCli')] = toCli[Len(toCli)]
    <3>1. toCli' # <<>> /\ toCli # <<>>
      BY <1>0, <1>3, <1>7, ShortSeq
    <3> QED BY <1>3, <1>4, <1>7, <3>1
  <2>2. UNCHANGED Arrived
    BY <1>0, <1>7, <2>1 DEF Arrived, Lost
  <2> QED BY <1>0, <1>1, <2>2, MapsToDie
<1>8. CASE ~Lost /\ k # 0 /\ k # Len(toCli)
  <2>1. orphaned = {} /\ toCli # <<>>
    BY <1>0, <1>4, <1>8, ShortSeq DEF Lost
  <2>2. pc = "len" /\ Len(toCli) \in {1, 2} /\ toCli[1].part = "len"
    <3>1. pc = "body" => Len(toCli) <= 1
      BY <2>1 DEF OneInFlight
    <3>2. pc # "body"
      BY <1>4, <1>8, <3>1
    <3>3. pc = "len"
      BY <2>1, <3>2 DEF OneInFlight, Waiting
    <3> QED BY <2>1, <3>3 DEF OneInFlight
  <2>3. k = 1
    <3> DEFINE n == Len(toCli)
    <3>1. n \in {1, 2} /\ k \in 0..n /\ k # 0 /\ k # n
      BY <1>4, <1>8, <2>2
    <3> HIDE DEF n
    <3> QED BY <3>1
  <2>4. toCli'[Len(toCli')].part = "len"
    BY <1>3, <2>2, <2>3
  <2>5. Arrived' = "none"
    BY <2>4 DEF Arrived
  <2> QED BY <1>0, <1>1, <2>5, MapsToDie
<1> QED BY <1>5, <1>6, <1>7, <1>8

LEMMA EnvironmentRefines ==
  ASSUME \/ UNCHANGED vars
         \/ \E w \in Watcher : WatchStep(w)
         \/ \E c \in Ctx : Cancel(c) \/ TimePasses(c) \/ Expire(c)
  PROVE  UNCHANGED sessions
<1>1. UNCHANGED <<closed, autoCommit, inTx, call, todo, pc, toSrv, toCli, srvUp, tran, orphaned>>
  BY DEF vars, objs, net, WatchStep, WatchFire, WatchQuit, WatchSet, Cancel, TimePasses, Expire
<1>2. UNCHANGED <<Busy, Waiting, KindOf(call.kind), Result>>
  BY <1>1 DEF Busy, Waiting, KindOf, Result, Pending
<1> QED BY <1>1, <1>2, SameNet, MapsToStutter

-----------------------------------------------------------------------------
(***************************************************************************)
(* A call starts.                                                          *)
(***************************************************************************)

\* A call that has a round trip to make, or BeginTx, which has none.
LEMMA EnterRefines ==
  ASSUME TypeOK, TypeOK', pc = "idle", pc' \in {"check", "send"}, NEW kind \in Kinds,
         call'.kind = kind, call'.err = "nil", UNCHANGED <<closed, autoCommit, net, orphaned>>,
         NEW fc \in FC, NEW h \in Opt(Handle),
         todo' = (IF kind = "beginTx" THEN <<>> ELSE Trips(fc, h)),
         kind # "beginTx" => (fc \in Telling <=> KindOf(kind) \in {"stmt", "commit"}),
         KindOf(kind) \in {"stmt", "begin"} => ~closed, KindOf(kind) = "begin" => ~inTx,
         KindOf(kind) = "commit" => inTx, inTx' = (inTx /\ KindOf(kind) # "commit")
  PROVE  Session!Next
<1>1. UNCHANGED <<srvUp, Requests, Arrived, Work, Lost>>
  BY QuietNet
<1>2. ~Busy /\ Busy' /\ ~Waiting /\ ~Waiting' /\ KindOf(call.kind)' = KindOf(kind)
  BY DEF Busy, Waiting, KindOf
<1>3. KindOf("beginTx") = "begin" /\ KindOf(kind) # "rollback"
  BY DEF KindOf
<1>4. Trips(fc, h) # <<>> /\ Head(Trips(fc, h)).fc = fc
  BY OneTrip
<1>5. Result' = IF KindOf(kind) \in {"stmt", "commit"} THEN "none" ELSE "nil"
  <2>1. Pending' <=> kind # "beginTx" /\ fc \in Telling
    BY <1>4 DEF Pending, Telling
  <2> QED BY <1>3, <2>1 DEF Result
<1> QED BY <1>1, <1>2, <1>3, <1>5, MapsToStart

\* A call that returns an error at once.
LEMMA RefuseRefines ==
  ASSUME TypeOK, TypeOK', pc = "idle", NEW kind, kind # "endTran", NEW err, Refuse(kind, err),
         UNCHANGED <<closed, autoCommit, inTx, net, orphaned>>,
         IF closed THEN err = "badconn" ELSE err \in {"err", "ctx"}
  PROVE  Session!Next
<1>1. UNCHANGED <<srvUp, Requests, Arrived, Work, Lost>>
  BY QuietNet
<1>2. ~Busy /\ ~Busy' /\ ~Waiting /\ ~Waiting' /\ call'.kind = kind /\ call'.err = err
  BY DEF Refuse, Busy, Waiting
<1>3. KindOf(call.kind)' \in {"stmt", "begin", "other"}
  BY <1>2 DEF KindOf
<1>4. Result' = err
  BY <1>2, ResultOfErr
<1> QED BY <1>1, <1>2, <1>3, <1>4, MapsToRefuse

LEMMA CheckedRefines ==
  ASSUME TypeOK, TypeOK', NEW kind \in Kinds, kind \notin {"beginTx", "begin", "endTran"}, NEW ins,
         NEW fc \in FC, NEW h \in Opt(Handle), fc \in Telling <=> KindOf(kind) \in {"stmt", "commit"},
         \/ CallChecked(kind, ins, Trips(fc, h))
         \/ CallBadArgs(kind)
         \/ CallUnchecked(kind, Trips(fc, h)) /\ UNCHANGED <<closed, autoCommit, inTx>> /\ KindOf(kind) = "other"
  PROVE  Session!Next
<1>1. pc = "idle" /\ UNCHANGED <<closed, autoCommit, inTx, net, orphaned>>
  BY DEF CallChecked, CallBadArgs, CallUnchecked, Ready, Quiet, objs
<1>2. KindOf(kind) \notin {"begin", "commit"}
  BY DEF KindOf
<1>3. CASE \E e : Refuse(kind, e) /\ (IF closed THEN e = "badconn" ELSE e \in {"err", "ctx"})
  BY <1>1, <1>3, RefuseRefines
<1>4. CASE (~closed \/ KindOf(kind) = "other") /\ \E i : Enter(kind, i, Trips(fc, h))
  <2>1. call'.kind = kind /\ call'.err = "nil" /\ todo' = Trips(fc, h) /\ pc' = "send"
    BY <1>4 DEF Enter
  <2>2. inTx' = (inTx /\ KindOf(kind) # "commit")
    BY <1>1, <1>2 DEF TypeOK, ObjsType
  <2>3. KindOf(kind) \in {"stmt", "begin"} => ~closed
    BY <1>4
  <2> HIDE DEF KindOf
  <2> QED BY <1>1, <1>2, <2>1, <2>2, <2>3, EnterRefines
<1> QED BY <1>3, <1>4 DEF CallChecked, CallBadArgs, CallUnchecked

LEMMA CallCtxRefines ==
  ASSUME TypeOK, TypeOK', NEW kind \in CtxKinds, NEW c \in Ctx, NEW ins, CallCtx(kind, c, ins)
  PROVE  Session!Next
<1>1. pc = "idle" /\ UNCHANGED <<closed, autoCommit, inTx, net, orphaned>> /\ (kind = "beginTx" => ~inTx)
  BY DEF CallCtx, Ready, objs
<1>2. kind \in Kinds /\ kind # "endTran" /\ (kind = "beginTx" <=> KindOf(kind) = "begin")
      /\ (kind # "beginTx" <=> KindOf(kind) = "stmt")
  BY DEF CtxKinds, Kinds, KindOf
<1>3. CASE \E e : Refuse(kind, e) /\ (IF closed THEN e = "badconn" ELSE e = "ctx")
  BY <1>1, <1>2, <1>3, RefuseRefines
<1>4. CASE /\ ~closed /\ pc' = "check" /\ call'.kind = kind /\ call'.err = "nil"
           /\ todo' = IF kind = "beginTx" THEN <<>> ELSE Trips("PAE", None)
  <2>1. "PAE" \in FC /\ None \in Opt(Handle) /\ "PAE" \in Telling
    BY DEF FC, Opt, Telling
  <2>2. inTx' = (inTx /\ KindOf(kind) # "commit") /\ KindOf(kind) \in {"stmt", "begin"}
    BY <1>1, <1>2 DEF TypeOK, ObjsType
  <2> QED BY <1>1, <1>2, <1>4, <2>1, <2>2, EnterRefines
<1> QED BY <1>3, <1>4 DEF CallCtx

LEMMA EndTranRefines ==
  ASSUME TypeOK, TypeOK', EndTran
  PROVE  Session!Next
<1>1. /\ pc = "idle" /\ pc' = "send" /\ call'.kind = "endTran" /\ call'.err = "nil"
      /\ todo' = Trips("ENDTRAN", None) /\ inTx /\ inTx' = FALSE
      /\ UNCHANGED <<closed, autoCommit, net, orphaned>>
  BY DEF EndTran, CallUnchecked, Ready, Enter, Quiet
<1>2. KindOf("endTran") = "commit" /\ "endTran" \in Kinds /\ "ENDTRAN" \in FC /\ "ENDTRAN" \in Telling
      /\ None \in Opt(Handle)
  BY DEF KindOf, Kinds, FC, Opt, Telling
<1> QED BY <1>1, <1>2, EnterRefines

LEMMA BeginRefines ==
  ASSUME TypeOK, TypeOK', Begin
  PROVE  Session!Next
<1>1. /\ pc = "idle" /\ ~inTx /\ Refuse("begin", IF closed THEN "badconn" ELSE "nil")
      /\ autoCommit' = (closed /\ autoCommit) /\ inTx' = ~closed
      /\ UNCHANGED <<closed, net, orphaned>> /\ inTx \in BOOLEAN /\ autoCommit \in BOOLEAN /\ closed \in BOOLEAN
  BY DEF Begin, Ready, Quiet, TypeOK, ObjsType
<1>2. CASE closed
  BY <1>1, <1>2, RefuseRefines
<1>3. CASE ~closed
  <2>1. UNCHANGED <<srvUp, Requests, Arrived, Work, Lost>>
    BY <1>1, QuietNet
  <2>2. /\ ~Busy /\ Busy' = Busy /\ ~Waiting /\ ~Waiting' /\ call'.kind = "begin" /\ call'.err = "nil"
        /\ todo' = <<>>
    BY <1>1, <1>3 DEF Refuse, Busy, Waiting, TypeOK, CallerType
  <2>3. KindOf(call.kind)' = "begin" /\ Result' = "nil"
    BY <2>2 DEF KindOf, Result, Pending
  <2> QED BY <1>1, <1>3, <2>1, <2>2, <2>3, MapsToBegin
<1> QED BY <1>2, <1>3

LEMMA CloseRefines ==
  ASSUME TypeOK, TypeOK', Close
  PROVE  Session!Next
<1>1. /\ pc = "idle" /\ pc' = "idle" /\ todo' = <<>> /\ call'.kind = "close" /\ call'.err = "nil" /\ closed' = TRUE
      /\ toSrv' = <<>> /\ toCli' = <<>> /\ srvUp' = FALSE /\ tran' = FALSE
      /\ UNCHANGED <<autoCommit, inTx, orphaned>>
  BY DEF Close, Ready, Refuse, TypeOK, CallerType
<1>2. Requests' = <<>> /\ Work' = {} /\ Arrived' = "none" /\ UNCHANGED Lost
  BY <1>1, RequestsEmpty, NothingArrived, SameNet DEF Work
<1>3. KindOf(call.kind)' = "other" /\ Result' = "nil"
  BY <1>1 DEF KindOf, Result, Pending
<1>4. ~Busy /\ ~Busy' /\ ~Waiting /\ ~Waiting'
  BY <1>1 DEF Busy, Waiting
<1> QED BY <1>1, <1>2, <1>3, <1>4, MapsToClose

LEMMA StartRefines ==
  ASSUME TypeOK, TypeOK', Start
  PROVE  Session!Next \/ UNCHANGED sessions
<1>0. /\ {"stmtExec", "stmtExecArgs", "stmtQuery", "stmtQueryArgs", "prepare", "ping", "version", "next",
          "rowsClose", "stmtClose"} \subseteq Kinds \ {"beginTx", "begin", "endTran"}
      /\ {"PREPARE", "EXECUTE", "PAE", "CLOSE", "FETCH", "VERSION"} \subseteq FC
      /\ Handle \cup {None} \subseteq Opt(Handle)
  BY DEF Kinds, CtxKinds, FC, Opt
<1>1. /\ \A k \in {"stmtExec", "stmtExecArgs", "stmtQuery", "stmtQueryArgs"} : KindOf(k) = "stmt"
      /\ \A k \in {"prepare", "ping", "version", "next", "rowsClose", "stmtClose"} : KindOf(k) = "other"
  BY DEF KindOf
<1>2. {"PAE", "EXECUTE"} \subseteq Telling /\ Telling \cap {"PREPARE", "VERSION", "FETCH", "CLOSE"} = {}
  BY DEF Telling
<1>3. CASE \E c \in Ctx : \/ CallCtx("query", c, FALSE)
                          \/ \E ins \in BOOLEAN : CallCtx("exec", c, ins)
                          \/ CallCtx("beginTx", c, FALSE)
  BY <1>3, CallCtxRefines DEF CtxKinds
<1>4. CASE \E h \in Handle : \E ins \in BOOLEAN : StmtExec(h, ins)
  BY <1>0, <1>1, <1>2, <1>4, CheckedRefines DEF StmtExec
<1>5. CASE \E h \in Handle : \E ins \in BOOLEAN : StmtExecArgs(h, ins)
  BY <1>0, <1>1, <1>2, <1>5, CheckedRefines DEF StmtExecArgs
<1>6. CASE \E h \in Handle : StmtQuery(h)
  BY <1>0, <1>1, <1>2, <1>6, CheckedRefines DEF StmtQuery
<1>7. CASE \E h \in Handle : StmtQueryArgs(h)
  BY <1>0, <1>1, <1>2, <1>7, CheckedRefines DEF StmtQueryArgs
<1>8. CASE \E h \in Handle : StmtClose(h)
  BY <1>0, <1>1, <1>2, <1>8, CheckedRefines DEF StmtClose
<1>9. CASE \E h \in Handle : RowsFetch(h)
  BY <1>0, <1>1, <1>2, <1>9, CheckedRefines DEF RowsFetch, objs
<1>10. CASE \E h \in Handle : RowsClose(h)
  BY <1>0, <1>1, <1>2, <1>10, CheckedRefines DEF RowsClose
<1>11. CASE Prepare
  BY <1>0, <1>1, <1>2, <1>11, CheckedRefines DEF Prepare
<1>12. CASE Ping
  BY <1>0, <1>1, <1>2, <1>12, CheckedRefines DEF Ping
<1>13. CASE ServerVersion
  BY <1>0, <1>1, <1>2, <1>13, CheckedRefines DEF ServerVersion, objs
<1>14. CASE \E h \in Handle : RowsForget(h)
  <2>1. UNCHANGED <<closed, autoCommit, inTx, call, todo, pc, net, orphaned>>
    BY <1>14 DEF RowsForget, Quiet
  <2>2. UNCHANGED <<Busy, KindOf(call.kind), Result, Waiting>>
    BY <2>1 DEF Busy, KindOf, Result, Pending, Waiting
  <2> QED BY <2>1, <2>2, QuietNet, MapsToStutter
<1> QED BY <1>3, <1>4, <1>5, <1>6, <1>7, <1>8, <1>9, <1>10, <1>11, <1>12, <1>13, <1>14, EndTranRefines,
           BeginRefines, CloseRefines DEF Start

-----------------------------------------------------------------------------
LEMMA InitRefines == Init => Session!Init
<1> SUFFICES ASSUME Init PROVE Session!Init
  OBVIOUS
<1>1. autoCommit \in BOOLEAN /\ None \in {None} \cup {None}
  BY DEF Init
<1>2. Requests = <<>>
  <2>1. toSrv = <<>> /\ DOMAIN <<>> = {}
    BY EmptySeq DEF Init
  <2> QED BY <2>1, InitType, Match, ShortSeq, EmptySeq DEF RequestsMatch
<1>3. sessionOf = Session!New(autoCommit, None)
  <2>1. KindOf(call.kind) = "begin" /\ Result = "nil" /\ Arrived = "none" /\ Work = {}
    BY DEF Init, KindOf, Result, Pending, Arrived, Work
  <2>2. (pc # "idle") = FALSE /\ (orphaned # {}) = FALSE /\ Waiting = FALSE
    BY DEF Init, Waiting
  <2>3. closed = FALSE /\ inTx = FALSE /\ srvUp = TRUE
    BY DEF Init
  <2> QED BY <1>2, <2>1, <2>2, <2>3 DEF sessionOf, Session!New
<1>4. [c \in {None} |-> sessionOf] = [c \in {None} |-> Session!New(autoCommit, None)]
  BY <1>3
<1> QED BY <1>1, <1>4 DEF Session!Init

LEMMA NextRefines ==
  TypeOK /\ TypeOK' /\ OneInFlight /\ Paired /\ Shape /\ Facts /\ InCall /\ [Next]_vars
  => [Session!Next]_sessions
<1> SUFFICES ASSUME TypeOK, TypeOK', OneInFlight, Paired, Shape, Facts, InCall, [Next]_vars
             PROVE  Session!Next \/ UNCHANGED sessions
  OBVIOUS
<1> QED BY StartRefines, StepRefines, CasRefines, CrashRefines, EnvironmentRefines DEF Next

\* The connection keeps what Session promises to database/sql: on every path
\* of every method of conn, stmt, rows and tx, ErrBadConn is returned only when
\* nothing was sent, success only on the server's word while the connection is
\* in step, and every statement goes out in the mode the connection claims.
THEOREM Refines == Spec => ImplementsSession
<1>1. Init => InCall
  BY DEF Init, InCall
<1>2. Sound /\ InCall /\ [Next]_vars => InCall'
  BY NextInCall DEF Sound
<1>3. Sound /\ Sound' /\ InCall /\ [Next]_vars => [Session!Next]_sessions
  BY NextRefines DEF Sound
<1>4. Session!Spec <=> Session!Init /\ [][Session!Next]_sessions
  BY DEF Session!Spec, sessions
<1> QED BY <1>1, <1>2, <1>3, <1>4, InitRefines, AlwaysSound, PTL DEF Spec, ImplementsSession
=============================================================================
