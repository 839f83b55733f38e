------------------------------- MODULE Cursor -------------------------------
(***************************************************************************)
(* Result sets (type rows): the first batch that arrives with the answer   *)
(* to FC=41 or FC=3, the local buffer, and further batches with FC=8.      *)
(*                                                                         *)
(* Tuple i of the execution behind result set r is the pair <<r, i>>.  The *)
(* server keeps, for every query handle, the result of the last execution  *)
(* on it; FC=8 names a handle and an absolute position.  A rows value has  *)
(* the handle for itself, except when stmt.Query without arguments made    *)
(* it: then it shares the handle of its stmt (SharedReader).               *)
(***************************************************************************)
EXTENDS Naturals, Sequences

CONSTANTS
  Reader,        \* result sets the application opens
  SharedReader,  \* those of them that one prepared statement makes, without arguments
  StmtTypes,     \* the statement types each may have; a prepared statement has one
  FetchSize,     \* rows.fetchSize (defaultFetchSize = 100)
  MaxTotal       \* bound: tuples of an execution

ASSUME CursorAssumption ==
  /\ SharedReader \subseteq Reader
  /\ StmtTypes \in [Reader -> SUBSET {"select", "call", "dml"}]
  /\ \E t \in {"select", "call", "dml"} : \A r \in SharedReader : StmtTypes[r] = {t}
  /\ FetchSize \in Nat \ {0}
  /\ MaxTotal \in Nat

VARIABLES
  totalCount,    \* per result set: TotalTupleCount of the answer
  fetchedCount,
  bufferedRows,  \* the current batch
  bufferOffset,
  exhausted,
  holds,         \* server: which execution each query handle holds last
  avail, state, out  \* as in RowStream; out is a history of what Next returned

vars == <<totalCount, fetchedCount, bufferedRows, bufferOffset, exhausted, holds,
          avail, state, out>>

\* A handle is named by the reader that owns it or, when shared, by "stmt".
HandleOf(r) == IF r \in SharedReader THEN <<"stmt">> ELSE <<"own", r>>

Batch(e, first, n) == [i \in 1..n |-> <<e, first + i - 1>>]

Init ==
  /\ totalCount = [r \in Reader |-> 0]
  /\ fetchedCount = [r \in Reader |-> 0]
  /\ bufferedRows = [r \in Reader |-> <<>>]
  /\ bufferOffset = [r \in Reader |-> 0]
  /\ exhausted = [r \in Reader |-> TRUE]
  /\ holds = [h \in {HandleOf(r) : r \in Reader} |-> <<>>]
  /\ avail = [r \in Reader |-> 0]
  /\ state = [r \in Reader |-> "new"]
  /\ out = [r \in Reader |-> <<>>]

\* Tuples that come with the answer: the parsers read them for a SELECT only.
\* The server sends some of them when there are any.
Inline(type, total) ==
  IF type = "select" /\ total > 0 THEN 1..total ELSE {0}

\* Fault: the first batch is taken for the whole result.
ExhaustedAtOnce(tupleCount, total) == tupleCount <= total

\* The initial value of rows.exhausted.
ExhaustedAtOpen(tupleCount, total) == tupleCount = 0 \/ tupleCount >= total

\* QueryContext or stmt.Query.  For other statements than queries the total is
\* the number of rows they changed, and there is nothing to fetch.
Query(r, type, total) ==
  /\ state[r] = "new"
  /\ \E n \in Inline(type, total) :
       /\ fetchedCount' = [fetchedCount EXCEPT ![r] = n]
       /\ bufferedRows' = [bufferedRows EXCEPT ![r] = Batch(r, 1, n)]
       /\ exhausted' = [exhausted EXCEPT ![r] = ExhaustedAtOpen(n, total)]
  /\ totalCount' = [totalCount EXCEPT ![r] = total]
  /\ bufferOffset' = [bufferOffset EXCEPT ![r] = 0]
  /\ holds' = [holds EXCEPT ![HandleOf(r)] = <<r>>]
  /\ avail' = [avail EXCEPT ![r] = IF type = "dml" THEN 0 ELSE total]
  /\ state' = [state EXCEPT ![r] = "open"]
  /\ UNCHANGED out

Deliver(r, tuple) == out' = [out EXCEPT ![r] = Append(@, tuple)]

\* rows.Next, the row is in the buffer: fillDest advances the offset.
NextBuffered(r) ==
  /\ state[r] = "open" /\ bufferOffset[r] < Len(bufferedRows[r])
  /\ Deliver(r, bufferedRows[r][bufferOffset[r] + 1])
  /\ bufferOffset' = [bufferOffset EXCEPT ![r] = @ + 1]
  /\ UNCHANGED <<totalCount, fetchedCount, bufferedRows, exhausted, holds, avail, state>>

BufferUsedUp(r) == state[r] = "open" /\ bufferOffset[r] >= Len(bufferedRows[r])

\* rows.Next, nothing buffered and exhausted.
NextEOF(r) ==
  /\ BufferUsedUp(r) /\ exhausted[r]
  /\ state' = [state EXCEPT ![r] = "eof"]
  /\ UNCHANGED <<totalCount, fetchedCount, bufferedRows, bufferOffset, exhausted, holds, avail, out>>

\* The execution whose tuples FC=8 reads for r.
Source(r) == holds[HandleOf(r)][1]

\* Fault: the count of tuples fetched is sent as the position.
FetchFromCount(r) == fetchedCount[r]

\* The position WriteFetch asks for.
FetchFrom(r) == fetchedCount[r] + 1

\* Fault: the offset goes on counting in the new batch.
FetchRowsKeepsOffset(r) ==
  /\ BufferUsedUp(r) /\ ~exhausted[r]
  /\ \E n \in 1..FetchSize :
       /\ FetchFrom(r) + n - 1 <= avail[Source(r)]
       /\ bufferedRows' = [bufferedRows EXCEPT ![r] = Batch(Source(r), FetchFrom(r), n)]
       /\ fetchedCount' = [fetchedCount EXCEPT ![r] = @ + n]
       /\ exhausted' = [exhausted EXCEPT ![r] = @ \/ fetchedCount[r] + n >= totalCount[r]]
  /\ Deliver(r, <<Source(r), FetchFrom(r)>>)
  /\ bufferOffset' = [bufferOffset EXCEPT ![r] = @ + 1]
  /\ UNCHANGED <<totalCount, holds, avail, state>>

\* rows.Next, FC=8 answers with a batch, never more than asked
\* for.  (A failed FC=8 is returned to the caller and changes nothing.)
FetchRows(r) ==
  /\ BufferUsedUp(r) /\ ~exhausted[r]
  /\ \E n \in 1..FetchSize :
       /\ FetchFrom(r) + n - 1 <= avail[Source(r)]
       /\ bufferedRows' = [bufferedRows EXCEPT ![r] = Batch(Source(r), FetchFrom(r), n)]
       /\ fetchedCount' = [fetchedCount EXCEPT ![r] = @ + n]
       /\ exhausted' = [exhausted EXCEPT ![r] = @ \/ fetchedCount[r] + n >= totalCount[r]]
  /\ Deliver(r, <<Source(r), FetchFrom(r)>>)
  /\ bufferOffset' = [bufferOffset EXCEPT ![r] = 1]
  /\ UNCHANGED <<totalCount, holds, avail, state>>

\* Fault: an empty batch is asked for again instead of ending the result set.
FetchNoneAgain(r) ==
  /\ BufferUsedUp(r) /\ ~exhausted[r]
  /\ avail[Source(r)] < FetchFrom(r)
  /\ UNCHANGED vars

\* rows.Next, FC=8 answers that there is no tuple at that position.
FetchNone(r) ==
  /\ BufferUsedUp(r) /\ ~exhausted[r]
  /\ avail[Source(r)] < FetchFrom(r)
  /\ exhausted' = [exhausted EXCEPT ![r] = TRUE]
  /\ state' = [state EXCEPT ![r] = "eof"]
  /\ UNCHANGED <<totalCount, fetchedCount, bufferedRows, bufferOffset, holds, avail, out>>

\* rows.Close; Next answers io.EOF from then on.
Close(r) ==
  /\ state[r] \in {"open", "eof"}
  /\ state' = [state EXCEPT ![r] = "closed"]
  /\ UNCHANGED <<totalCount, fetchedCount, bufferedRows, bufferOffset, exhausted, holds, avail, out>>

Next ==
  \E r \in Reader :
    \/ \E type \in StmtTypes[r], total \in 0..MaxTotal : Query(r, type, total)
    \/ NextBuffered(r) \/ NextEOF(r) \/ FetchRows(r) \/ FetchNone(r) \/ Close(r)

Spec == Init /\ [][Next]_vars

\* The application that wants every row calls Next until it gets io.EOF, and
\* the server answers FC=8.
Reads(r) == NextBuffered(r) \/ NextEOF(r) \/ FetchRows(r) \/ FetchNone(r)
FairSpec == Spec /\ \A r \in Reader : WF_vars(Reads(r))

-----------------------------------------------------------------------------
(***************************************************************************)
(* Properties.                                                             *)
(***************************************************************************)
Tuple == Reader \X (Nat \ {0})

\* Types, and the buffer offset stays within the buffer, so that indexing
\* bufferedRows never panics.
TypeOK ==
  /\ totalCount \in [Reader -> Nat] /\ fetchedCount \in [Reader -> Nat]
  /\ bufferedRows \in [Reader -> Seq(Tuple)]
  /\ bufferOffset \in [Reader -> Nat]
  /\ exhausted \in [Reader -> BOOLEAN]
  /\ avail \in [Reader -> Nat]
  /\ state \in [Reader -> {"new", "open", "eof", "closed"}]
  /\ out \in [Reader -> Seq(Tuple)]
  /\ \A r \in Reader : bufferOffset[r] <= Len(bufferedRows[r])
  /\ \A r \in Reader : state[r] # "new" => holds[HandleOf(r)] \in {<<q>> : q \in Reader}

\* The counters and the buffer agree: the buffer is the window of the positions that ends
\* at fetchedCount, and what was returned is everything before the offset in it.
Window(r) ==
  /\ Len(bufferedRows[r]) <= fetchedCount[r]
  /\ Len(out[r]) + Len(bufferedRows[r]) = fetchedCount[r] + bufferOffset[r]
  /\ \A i \in 1..Len(bufferedRows[r]) :
       bufferedRows[r][i][2] = (fetchedCount[r] + i) - Len(bufferedRows[r])

\* The result sets with a handle of their own: those of QueryContext, and of stmt.Query with
\* arguments, over other statements than CALL.
OwnReader == {r \in Reader \ SharedReader : "call" \notin StmtTypes[r]}

\* The window shows the right execution, and the end of it is where the result ends.
Content(r) ==
  /\ fetchedCount[r] <= avail[r]
  /\ \A i \in 1..Len(bufferedRows[r]) : bufferedRows[r][i][1] = r
  /\ exhausted[r] => fetchedCount[r] = avail[r]
  /\ ~exhausted[r] => totalCount[r] = avail[r]

\* The buffer of every result set (rows.go 14-29) is a window of its positions; with a handle
\* of its own it shows its own tuples, exhausted is set only when the whole result was fetched,
\* and otherwise totalCount is the size of the result, whatever runs on other handles.
BufferMatches ==
  /\ \A r \in Reader : Window(r)
  /\ \A r \in OwnReader : Content(r)

RS == INSTANCE RowStream WITH
        Reader <- OwnReader,
        avail <- [r \in OwnReader |-> avail[r]],
        state <- [r \in OwnReader |-> state[r]],
        out <- [r \in OwnReader |-> out[r]]

\* Result sets with a handle of their own keep the promise of RowStream, beside others that
\* share one: rows.Next returns their tuples, each once and in order, then io.EOF.
ImplementsRowStream == RS!SSpec

\* Even through a shared handle rows.Next never repeats or skips a position.
PositionsInOrder == \A r \in Reader : \A i \in 1..Len(out[r]) : out[r][i][2] = i

\* An application that keeps calling Next gets to io.EOF, also when the result
\* behind its handle was replaced by a shorter one.
Drains == \A r \in Reader : (state[r] = "open") ~> (state[r] # "open")

(***************************************************************************)
(* A claim of the repository that the code does not keep.                  *)
(***************************************************************************)

\* rows.go:8, "rows implements driver.Rows and iterates over a CUBRID result
\* set": its own.
OwnTuples == \A r \in Reader : \A i \in 1..Len(out[r]) : out[r][i][1] = r
=============================================================================
