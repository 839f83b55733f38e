-------------------------------- MODULE Wire --------------------------------
(***************************************************************************)
(* Reading packets, byte by byte: PacketReader (packet.go), the parsers of *)
(* protocol.go and the classification of errors (errors.go), run over the  *)
(* answers of a server; and the server reading the driver's requests.      *)
(*                                                                         *)
(* A parser is a sequence of reads, some of which, once their value is     *)
(* known, put further reads in front of the rest (the entries of a count,  *)
(* the bytes of a length).  One read is one step; a read outside of the    *)
(* buffer is a Go panic.                                                   *)
(***************************************************************************)
EXTENDS Packet

CONSTANTS
  Messages,          \* the answers and the requests
  IntegrityWords,    \* newError's keywords, in lower case
  ProgrammingWords

VARIABLES
  msg,     \* what was sent
  parser,  \* which parser reads it
  buf,     \* PacketReader.buf
  offset,  \* PacketReader.offset
  todo,    \* the reads still to do
  meta,    \* statement type and column types known so far
  out,     \* what the parser returns: tagged fields, in the order they are read
  st       \* "run", "done" or "panic"

vars == <<msg, parser, buf, offset, todo, meta, out, st>>

Parsers == {"ParseSimpleResponse", "ParsePrepareAndExecute", "ParsePrepare", "ParseExecute",
            "ParseFetch", "ParseGetDbVersion", "ParseGetLastInsertId", "ParseOpenDatabase"}

\* A read: how, the bytes it takes, the name of what it reads; x is the column
\* type that goes with a size, or the size that goes with a type.
Rd(get, n, to) == [get |-> get, n |-> n, to |-> to, x |-> 0]
GetByte(to) == Rd("byte", 1, to)
GetShort(to) == Rd("short", 2, to)
GetInt(to) == Rd("int", 4, to)
GetRaw(n, to) == Rd("raw", n, to)
GetText(n, to) == Rd("text", IF n <= 0 THEN 0 ELSE n, to)

\* Not reads: n times the reads of an entry; one more entry up to offset n; the
\* rows that may follow.
Loop(n, entry) == Rd("loop", n, entry)
Until(n, to) == Rd("until", n, to)
Inline == Rd("inline", 0, "")

-----------------------------------------------------------------------------
(***************************************************************************)
(* The parsers of protocol.go.                                             *)
(***************************************************************************)

\* Fault: the code is taken for a part of the message.
raiseErrorLong == <<GetInt("errCode"), GetText(Len(buf) - 8, "errMsg")>>

raiseError == <<GetInt("errCode"), GetText(Len(buf) - 8 - 4, "errMsg")>>

parseColumnMetadata ==
  <<GetByte("legacyType"), GetShort(""), GetInt(""), GetInt("nameLen"), GetInt("textLen"), GetInt("textLen"),
    GetByte(""), GetInt("textLen"), GetByte(""), GetByte(""), GetByte(""), GetByte(""), GetByte(""), GetByte(""), GetByte("")>>

parseResultInfos == <<GetByte("infoStmt"), GetInt("infoCount"), GetRaw(8, ""), GetInt(""), GetInt("")>>

\* The type in front of a value counts as a part of its size.
SizeFor(t) == [GetInt("size") EXCEPT !.x = t]
TypeFor(size) == [GetByte("cellType") EXCEPT !.x = size]

parseRowData ==
  <<GetInt(""), GetRaw(8, "")>> \o
    [j \in DOMAIN meta.cols |-> SizeFor(IF meta.stmt = StmtCallSP THEN TypeNull ELSE meta.cols[j])]

Nil == Rd("nil", 0, "null")

\* Types of fixed width are read by their width, whatever the size says.
readValue(t, size) ==
  CASE t \in TextTypes -> <<GetText(size, "text")>>
    [] t = TypeShort   -> <<GetShort("int")>>
    [] t = TypeInt     -> <<GetInt("int")>>
    [] Wide(t) > 0     -> <<GetRaw(Wide(t), "wide")>>
    [] Shorts(t) > 0   -> <<Rd("shorts", 2 * Shorts(t), "time")>>
    [] t = TypeNull    -> <<Nil>>
    [] OTHER           -> <<GetRaw(size, "bytes")>>

\* Fault: the size still counts the type.
readTypedLong(t, size) == IF size - 1 <= 0 THEN <<Nil>> ELSE readValue(t, size)

readTyped(t, size) == IF size - 1 <= 0 THEN <<Nil>> ELSE readValue(t, size - 1)

readSized(t, size) ==
  IF size <= 0 THEN <<Nil>> ELSE IF t = TypeNull THEN <<TypeFor(size)>> ELSE readValue(t, size)

\* A parameter as protocol.go 598-600 describes it: the size of what follows, 0 for NULL, a type,
\* and a value that takes the rest.
readParam(size) == IF size <= 0 THEN <<Nil>> ELSE <<[GetByte("paramType") EXCEPT !.x = size - 1]>>

\* What FC=2 and FC=41 say of the statement, and FC=3 and FC=41 of its results.
Described == <<GetInt(""), GetByte("stmtType"), GetInt("bindCount"), GetByte(""), GetInt("colCount")>>
Executed ==
  <<GetByte(""), GetInt("resultCount")>>
    \o (IF msg.ver > 1 THEN <<GetByte("")>> ELSE <<>>)
    \o (IF msg.ver > 4 THEN <<GetInt("")>> ELSE <<>>)
    \o <<Inline>>

ParsePrepareAndExecute == <<GetInt("handle")>> \o Described \o <<GetInt("totalCount")>> \o Executed
ParsePrepare == <<GetInt("handle")>> \o Described
ParseExecute == <<GetInt("total")>> \o Executed
ParseFetch == <<GetInt("code"), GetInt("tupleCount")>>
ParseSimpleResponse == <<GetInt("code")>>
ParseGetDbVersion == <<GetInt("code"), GetText(Len(buf) - 8, "version")>>
ParseGetLastInsertId == <<GetInt("idLen")>>
ParseOpenDatabase == <<GetInt("code"), GetRaw(16, "proto"), GetInt("session")>>

\* The server: a request is its length, CAS_INFO, a function code and arguments
\* that carry their lengths (FC=3 has the bind parameters in the fifth).
ReadRequest ==
  <<GetInt("dataLen"), GetRaw(4, ""), GetByte("fc")>>
    \o (IF msg.p = "WriteExecute"
        THEN <<GetInt("argLen"), GetInt("argLen"), GetInt("argLen"), GetInt("argLen"), GetInt("bindLen")>> ELSE <<>>)
    \o <<Until(Len(buf), "argLen")>>
ReadOpenDatabase == <<GetRaw(32, "fixed"), GetRaw(32, "fixed"), GetRaw(32, "fixed"), GetRaw(532, "")>>

Program ==
  LET cas == <<GetRaw(4, "")>>
  IN CASE parser = "ParsePrepareAndExecute" -> cas \o ParsePrepareAndExecute
       [] parser = "ParsePrepare"           -> cas \o ParsePrepare
       [] parser = "ParseExecute"           -> cas \o ParseExecute
       [] parser = "ParseFetch"             -> cas \o ParseFetch
       [] parser = "ParseSimpleResponse"    -> cas \o ParseSimpleResponse
       [] parser = "ParseGetDbVersion"      -> cas \o ParseGetDbVersion
       [] parser = "ParseGetLastInsertId"   -> cas \o ParseGetLastInsertId
       [] parser = "ParseOpenDatabase"      -> cas \o ParseOpenDatabase
       [] parser = "WriteOpenDatabase"      -> ReadOpenDatabase
       [] OTHER                             -> ReadRequest

-----------------------------------------------------------------------------
(***************************************************************************)
(* Errors (errors.go).                                                     *)
(***************************************************************************)
toLower(s) == [i \in DOMAIN s |-> IF s[i] \in 65..90 THEN s[i] + 32 ELSE s[i]]

containsCI(s, sub) ==
  \E i \in 0..(Len(s) - Len(sub)) : SubSeq(toLower(s), i + 1, i + Len(sub)) = toLower(sub)

newError(s) ==
  IF \E w \in IntegrityWords : containsCI(s, w) THEN "IntegrityError"
  ELSE IF \E w \in ProgrammingWords : containsCI(s, w) THEN "ProgrammingError"
  ELSE "CubridError"

-----------------------------------------------------------------------------
(***************************************************************************)
(* The answers of the server, as the parsers expect them (external).       *)
(***************************************************************************)
ColumnBytes(c) ==
  (IF c.wide THEN <<128, c.t>> ELSE <<c.t>>) \o writeShort(0) \o writeInt(-1)
    \o writeNullTermString(c.name) \o writeNullTermString(<<>>) \o writeInt(0)
    \o <<1>> \o writeInt(0) \o writeFiller(7)

InfoBytes(i) == <<i.stmt>> \o writeInt(i.count) \o writeFiller(16)

\* A value v is a tag and what it holds.
ValueBytes(t, v) ==
  CASE v[1] = "text" -> v[2] \o <<0>>
    [] v[1] = "int"  -> IF t = TypeShort THEN writeShort(v[2][1]) ELSE writeInt(v[2][1])
    [] v[1] = "time" -> FlattenSeq([i \in DOMAIN v[2] |-> writeShort(v[2][i])])
    [] OTHER         -> v[2]

CellBytes(typed, cell) ==
  IF cell.v[1] = "null" THEN writeInt(0)
  ELSE addBytes((IF typed THEN <<cell.t>> ELSE <<>>) \o ValueBytes(cell.t, cell.v))

\* The values of a row carry their types where the columns do not tell them.
Typed(m, j) == m.stmt = StmtCallSP \/ m.cols[j].t = TypeNull

RowBytes(m, row) ==
  writeInt(1) \o writeFiller(8)
    \o FlattenSeq([j \in DOMAIN row |->
         CellBytes(Typed(m, j), row[j])])

RowsBytes(m) == writeInt(Len(m.rows)) \o FlattenSeq([i \in DOMAIN m.rows |-> RowBytes(m, m.rows[i])])

DescribedBytes(m) ==
  writeInt(0) \o <<m.stmt>> \o writeInt(m.n) \o <<0>>
    \o writeInt(Len(m.cols)) \o FlattenSeq([j \in DOMAIN m.cols |-> ColumnBytes(m.cols[j])])

ExecutedBytes(m) ==
  <<0>> \o writeInt(Len(m.infos)) \o FlattenSeq([i \in DOMAIN m.infos |-> InfoBytes(m.infos[i])])
    \o (IF m.ver > 1 THEN <<0>> ELSE <<>>) \o (IF m.ver > 4 THEN writeInt(0) ELSE <<>>)
    \o (IF m.stmt = StmtSelect THEN writeInt(0) \o RowsBytes(m) ELSE <<>>)

AnswerBytes(m) ==
  IF m.err # <<>> THEN writeInt(-1) \o writeInt(m.err[1]) \o m.text \o <<0>>
  ELSE CASE m.p = "ParsePrepareAndExecute" ->
              writeInt(m.h) \o DescribedBytes(m) \o writeInt(m.total) \o ExecutedBytes(m)
         [] m.p = "ParsePrepare"         -> writeInt(m.h) \o DescribedBytes(m)
         [] m.p = "ParseExecute"         -> writeInt(m.total) \o ExecutedBytes(m)
         [] m.p = "ParseFetch"           -> writeInt(0) \o RowsBytes(m)
         [] m.p = "ParseGetDbVersion"    -> writeInt(0) \o m.text \o <<0>>
         [] m.p = "ParseGetLastInsertId" -> IF m.text = <<>> THEN writeInt(0) ELSE writeNullTermString(m.text)
         [] m.p = "ParseOpenDatabase"    ->
              writeInt(m.n) \o writeFiller(4) \o <<64 + m.ver>> \o writeFiller(11) \o writeInt(m.h)
         [] OTHER                        -> writeInt(0)

Bytes(m) ==
  CASE m.p \in Parsers            -> writeFiller(4) \o AnswerBytes(m)
    [] m.p = "WriteOpenDatabase"  -> WriteOpenDatabase(m)
    [] OTHER                      -> buildProtocolHeader(Payload(m))

-----------------------------------------------------------------------------
(***************************************************************************)
(* What the program and the server can say.                                *)
(***************************************************************************)
Byte == 0..255
MaxShort == 32767
Number16 == -MaxShort - 1..MaxShort
MaxInt == 2147483647
Number32 == -MaxInt - 1..MaxInt

\* A length is a 32-bit number, also with the zero and the type that come with a value.
MaxLen == MaxInt - 7
Text == {s \in Seq(Byte) : Len(s) <= MaxLen}

\* Values of the type t; an empty string of bytes is NULL.
Null == <<"null", <<>>>>
IsValue(t, v) ==
  \/ v = Null
  \/ v[1] = "text" /\ t \in TextTypes /\ v[2] \in Text
  \/ v[1] = "int" /\ t \in {TypeShort, TypeInt} /\ Len(v[2]) = 1
       /\ v[2][1] \in IF t = TypeShort THEN Number16 ELSE Number32
  \/ v[1] = "wide" /\ Wide(t) > 0 /\ Len(v[2]) = Wide(t) /\ v[2] \in Seq(Byte)
  \/ v[1] = "time" /\ Shorts(t) > 0 /\ Len(v[2]) = Shorts(t) /\ v[2] \in Seq(Number16)
  \/ v[1] = "bytes" /\ v[2] \in Text /\ v[2] # <<>>
       /\ t \notin TextTypes \cup {TypeNull, TypeShort, TypeInt} /\ Wide(t) = 0 /\ Shorts(t) = 0

IsArg(a) ==
  CASE a.go = "nil"                  -> TRUE
    [] a.go = "bool"                 -> Len(a.v) = 1 /\ a.v[1] \in Number16
    [] a.go \in {"int64", "float64"} -> Len(a.v) = 8 /\ a.v \in Seq(Byte)
    [] a.go = "time"                 -> Len(a.v) = 7 /\ a.v \in Seq(Number16)
    [] OTHER                         -> a.v \in Text

Column == [t : 0..127, wide : BOOLEAN, name : Text]    \* from 128 on, the type is in a second byte
Cell == [t : Byte, v : STRING \X Seq(Number32)]

IsRow(m, row) ==
  /\ Len(row) = Len(m.cols)
  /\ \A j \in DOMAIN row : IsValue(row[j].t, row[j].v) /\ (Typed(m, j) \/ row[j].t = m.cols[j].t)

\* Answers of success: codes are not negative, rows have columns.
IsSuccess(m) ==
  /\ m.p \in {"ParsePrepareAndExecute", "ParsePrepare"} => m.h >= 0
  /\ m.p = "ParseExecute" => m.total >= 0
  /\ m.p = "ParseOpenDatabase" => m.n >= 0
  /\ m.rows # <<>> => m.cols # <<>>

\* An error has a negative code, and the class that its text calls for.
IsError(m) == m.err[1] \in Number32 /\ m.err[1] < 0 /\ m.err[2] = newError(m.text)

IsMessage(m) ==
  /\ m.p \in Parsers \cup Writers
  /\ m.h \in Number32 /\ m.n \in Number32 /\ m.total \in Number32
  /\ m.stmt \in Byte /\ m.ver \in 0..63 /\ m.ac \in BOOLEAN
  /\ m.text \in Text /\ m.user \in Text /\ m.password \in Text
  /\ m.p = "WriteEndTran" => m.n \in Byte
  /\ m.args \in Seq([go : STRING, v : Seq(Number32)]) /\ \A j \in DOMAIN m.args : IsArg(m.args[j])
  /\ m.cols \in Seq(Column) /\ Len(m.cols) <= MaxLen
  /\ m.rows \in Seq(Seq(Cell)) /\ Len(m.rows) <= MaxLen /\ \A i \in DOMAIN m.rows : IsRow(m, m.rows[i])
  /\ m.infos \in Seq([stmt : Byte, count : Number32]) /\ Len(m.infos) <= MaxLen
  /\ IF m.err = <<>> THEN IsSuccess(m) ELSE IsError(m)
  /\ m.p \in Writers => Len(Bytes(m)) <= MaxLen

ASSUME WireAssumption == \A m \in Messages : IsMessage(m)

-----------------------------------------------------------------------------
(***************************************************************************)
(* PacketReader at work.                                                   *)
(***************************************************************************)

\* A connection that is in step gives an answer to its own parser, one that is
\* not to any; columns and statement type come from PREPARE, where they are not
\* in the answer itself.
Init ==
  /\ msg \in Messages
  /\ parser \in IF msg.p \in Parsers THEN Parsers ELSE {msg.p}
  /\ buf = Bytes(msg) /\ offset = 0
  /\ meta = IF parser \in {"ParseExecute", "ParseFetch"}
            THEN [stmt |-> msg.stmt, cols |-> [j \in DOMAIN msg.cols |-> msg.cols[j].t]]
            ELSE [stmt |-> 0, cols |-> <<>>]
  /\ todo = Program
  /\ out = <<>> /\ st = "run"

Running(get) == st = "run" /\ todo # <<>> /\ Head(todo).get = get

bytesRemaining == Len(buf) - offset

\* Reads that follow from the value v that was read as to.
Follows(to, x, v) ==
  CASE to = "nameLen"     -> <<GetText(v, "name")>>
    [] to = "textLen"     -> <<GetText(v, "")>>
    [] to = "idLen"       -> IF v > 0 THEN <<GetText(v, "id")>> ELSE <<>>
    [] to = "legacyType"  -> IF v >= 128 THEN <<GetByte("colType")>> ELSE <<>>
    [] to = "colCount"    -> <<Loop(v, "column")>>
    [] to = "resultCount" -> <<Loop(v, "info")>>
    [] to = "size"        -> readSized(x, v)
    [] to = "cellType"    -> readTyped(v, x)
    [] to = "paramSize"   -> readParam(v)
    [] to = "paramType"   -> readValue(v, IF x <= 0 THEN 0 ELSE x)
    [] to = "argLen"      -> <<GetRaw(IF v <= 0 THEN 0 ELSE v, "arg")>>
    [] OTHER              -> <<>>

Then(to, x, v) ==
  CASE to = "tupleCount" -> IF parser = "ParsePrepareAndExecute" \/ meta.cols # <<>>
                            THEN <<Loop(v, "row")>> ELSE <<>>
    [] to = "bindLen"    -> <<Until(offset + 4 + v, "paramSize")>>
    [] OTHER             -> Follows(to, x, v)

Dropped == {"", "code", "legacyType", "nameLen", "textLen", "idLen", "colCount", "resultCount",
            "size", "cellType", "paramSize", "paramType", "argLen", "bindLen"}

Fields(to, v) ==
  CASE to = "legacyType" /\ v[1] < 128 -> <<<<"colType", v>>>>
    [] to \in Dropped /\ ~(to = "legacyType" /\ v[1] < 128) -> <<>>
    [] to = "totalCount"    -> <<<<"total", v>>>>
    [] to = "proto"         -> <<<<to, <<v[5] % 64>>>>>>
    [] to = "errMsg"        -> <<<<to, v>>, <<"errClass", newError(v)>>>>
    [] OTHER                -> <<<<to, v>>>>

\* The type of a column, if that is what was read.
ColumnTypes(to, v) ==
  IF to = "colType" \/ (to = "legacyType" /\ v[1] < 128) THEN <<v[1]>> ELSE <<>>

Failed(to, v) == to \in {"handle", "total", "code", "idLen"} /\ v[1] < 0

\* A read of the value v: make([]T, 0, count) panics for a negative count, a
\* negative response code leaves only the error to be read.
Got(v) ==
  LET op == Head(todo)
      fields == IF Failed(op.to, v) THEN <<>> ELSE Fields(op.to, v)
  IN /\ offset' = offset + op.n
     /\ st' = IF op.to \in {"colCount", "resultCount"} /\ v[1] < 0 THEN "panic" ELSE "run"
     /\ todo' = IF Failed(op.to, v) THEN raiseError
                ELSE Then(op.to, op.x, IF v = <<>> THEN 0 ELSE v[1]) \o Tail(todo)
     /\ out' = out \o fields
     /\ meta' = [stmt |-> IF op.to = "stmtType" THEN v[1] ELSE meta.stmt,
                 cols |-> meta.cols \o ColumnTypes(op.to, v)]
     /\ UNCHANGED <<msg, parser, buf>>

InBuffer == Head(todo).n <= bytesRemaining
Window == SubSeq(buf, offset + 1, IF InBuffer THEN offset + Head(todo).n ELSE Len(buf))

parseByte == Running("byte") /\ InBuffer /\ Got(Window)
parseShort == Running("short") /\ InBuffer /\ Got(<<Short(Window)>>)
parseInt == Running("int") /\ InBuffer /\ Got(<<Int32(Window)>>)

\* Fault: as many bytes as there are, without a check.
parseRawBytesUnchecked ==
  /\ Running("raw")
  /\ Got(Window \o writeFiller(IF InBuffer THEN 0 ELSE Head(todo).n - bytesRemaining))

parseRawBytes == Running("raw") /\ InBuffer /\ Got(Window)

\* parseDate, parseTime, parseTimestamp, parseDatetime
parseShorts ==
  /\ Running("shorts") /\ InBuffer
  /\ Got([i \in 1..(Head(todo).n \div 2) |-> Short(SubSeq(Window, 2 * i - 1, 2 * i))])

parseNullTermString ==
  /\ Running("text") /\ InBuffer
  /\ Got(IF Window # <<>> /\ Last(Window) = 0 THEN Front(Window) ELSE Window)

readNil == Running("nil") /\ Got(<<>>)

\* An index out of range.
Panic ==
  /\ \E get \in {"byte", "short", "int", "raw", "shorts", "text"} : Running(get)
  /\ ~InBuffer
  /\ st' = "panic"
  /\ UNCHANGED <<msg, parser, buf, offset, todo, meta, out>>

Entry(e) ==
  CASE e = "column" -> parseColumnMetadata
    [] e = "info"   -> parseResultInfos
    [] e = "row"    -> parseRowData

Expand(reads) ==
  /\ todo' = reads \o Tail(todo)
  /\ UNCHANGED <<msg, parser, buf, offset, meta, out, st>>

\* The for loops of the parsers; the server's over arguments and parameters.
DoLoop ==
  /\ Running("loop")
  /\ LET op == Head(todo)
     IN Expand(IF op.n > 0 THEN Entry(op.to) \o <<Loop(op.n - 1, op.to)>> ELSE <<>>)

DoUntil ==
  /\ Running("until")
  /\ LET op == Head(todo) IN Expand(IF offset < op.n THEN <<GetInt(op.to), op>> ELSE <<>>)

\* Rows come with the answer only for SELECT, and if there is anything left.
DoInline ==
  /\ Running("inline")
  /\ Expand(IF meta.stmt = StmtSelect /\ bytesRemaining >= 8 THEN <<GetInt(""), GetInt("tupleCount")>> ELSE <<>>)

Done ==
  /\ st = "run" /\ todo = <<>>
  /\ st' = "done"
  /\ UNCHANGED <<msg, parser, buf, offset, todo, meta, out>>

Next ==
  \/ parseByte \/ parseShort \/ parseInt \/ parseRawBytes \/ parseShorts \/ parseNullTermString \/ readNil
  \/ DoLoop \/ DoUntil \/ DoInline \/ Done \/ Panic

Spec == Init /\ [][Next]_vars

-----------------------------------------------------------------------------
(***************************************************************************)
(* Properties.                                                             *)
(***************************************************************************)

\* Every variable keeps its type; the reader never leaves its buffer, whatever
\* the parser and the answer.
TypeOK ==
  /\ offset \in 0..Len(buf)
  /\ st \in {"run", "done", "panic"}
  /\ \A i \in DOMAIN meta.cols : meta.cols[i] \in 0..255

One(tag, n) == <<tag, <<n>>>>

SaidDescribed(m) ==
  <<One("stmtType", m.stmt), One("bindCount", m.n)>>
    \o FlattenSeq([j \in DOMAIN m.cols |-> <<One("colType", m.cols[j].t), <<"name", m.cols[j].name>>>>])

SaidRows(m) ==
  <<One("tupleCount", Len(m.rows))>>
    \o FlattenSeq([i \in DOMAIN m.rows |-> [j \in DOMAIN m.rows[i] |-> m.rows[i][j].v]])

SaidExecuted(m) ==
  FlattenSeq([i \in DOMAIN m.infos |-> <<One("infoStmt", m.infos[i].stmt), One("infoCount", m.infos[i].count)>>])
    \o (IF m.stmt = StmtSelect THEN SaidRows(m) ELSE <<>>)

\* What the server meant to say.
Said(m) ==
  CASE m.p = "ParsePrepareAndExecute" ->
         <<One("handle", m.h)>> \o SaidDescribed(m) \o <<One("total", m.total)>> \o SaidExecuted(m)
    [] m.p = "ParsePrepare"         -> <<One("handle", m.h)>> \o SaidDescribed(m)
    [] m.p = "ParseExecute"         -> <<One("total", m.total)>> \o SaidExecuted(m)
    [] m.p = "ParseFetch"           -> SaidRows(m)
    [] m.p = "ParseGetDbVersion"    -> <<<<"version", m.text>>>>
    [] m.p = "ParseGetLastInsertId" -> IF m.text = <<>> THEN <<>> ELSE <<<<"id", m.text>>>>
    [] m.p = "ParseOpenDatabase"    -> <<One("proto", m.ver), One("session", m.h)>>
    [] OTHER                        -> <<>>

Arg(b) == <<"arg", b>>
Number(n) == Arg(writeInt(n))

\* What a parameter is on the other side: only nil is a NULL there, an empty []byte is empty.
ParamValue(a) ==
  CASE a.go = "nil"                -> Null
    [] a.go = "bool"               -> One("int", a.v[1])
    [] a.go \in {"int64", "float64"} -> <<"wide", a.v>>
    [] a.go = "[]byte"             -> <<"bytes", a.v>>
    [] a.go = "time"               -> <<"time", a.v>>
    [] OTHER                       -> <<"text", a.v>>

\* What the driver meant to ask: the function code and its arguments.
Asked(m) ==
  LET ac == Arg(<<IF m.ac THEN 1 ELSE 0>>)
      text == Arg(m.text \o <<0>>)
  IN CASE m.p = "WriteEndTran"         -> <<One("fc", 1), Arg(<<m.n>>)>>
       [] m.p = "WritePrepare"         -> <<One("fc", 2), text, Arg(<<0>>), ac>>
       [] m.p = "WriteExecute"         ->
            <<One("fc", 3), Number(m.h), Arg(<<0>>), Number(0), Number(0)>>
              \o [i \in DOMAIN m.args |-> ParamValue(m.args[i])]
              \o <<Arg(<<IF m.stmt = StmtSelect THEN 1 ELSE 0>>), ac, Arg(<<1>>),
                   Arg(writeFiller(8)), Number(0)>>
       [] m.p = "WriteCloseReqHandle"  -> <<One("fc", 6), Number(m.h)>>
       [] m.p = "WriteFetch"           ->
            <<One("fc", 8), Number(m.h), Number(m.n + 1), Number(100), Arg(<<0>>), Number(0)>>
       [] m.p = "WriteGetDbVersion"    -> <<One("fc", 15), ac>>
       [] m.p = "WriteConClose"        -> <<One("fc", 31)>>
       [] m.p = "WriteGetLastInsertId" -> <<One("fc", 40)>>
       [] m.p = "WritePrepareAndExecute" ->
            <<One("fc", 41), Number(3), text, Arg(<<0>>), ac, Arg(<<2>>), Number(0), Number(0),
              Arg(<<>>), Arg(writeFiller(8)), Number(0)>>

Whole == st = "done" /\ offset = Len(buf)

\* On a connection that is in step every answer reaches the program whole: the
\* parser returns what the server said, NULLs, empty and typed values, optional
\* fields and inline rows included, and uses up every byte.
AnswersArriveWhole ==
  st # "run" /\ msg.p \in Parsers /\ parser = msg.p /\ msg.err = <<>> => Whole /\ out = Said(msg)

\* An error is reported as the server reported it, code, message and class,
\* by whichever parser gets it, also on a connection that is out of step.
ErrorsReadTheSame ==
  st # "run" /\ msg.p \in Parsers /\ msg.err # <<>> =>
    Whole /\ out = <<One("errCode", msg.err[1]), <<"errMsg", msg.text>>, <<"errClass", msg.err[2]>>>>

\* The name s in a field of the open request: as it is, cut at 32 bytes, or filled up with zeros.
InField(b, s) ==
  Len(b) = 32 /\ \A k \in 1..32 : b[k] = IF k <= Len(s) THEN s[k] ELSE 0

\* Database, user and password in the fields that the server read from the open request.
NamesIn(fields, m) ==
  /\ Len(fields) = 3
  /\ \A k \in 1..3 : /\ fields[k][1] = "fixed"
                    /\ InField(fields[k][2], <<m.text, m.user, m.password>>[k])

\* The length in the header is that of the payload, and the server takes it
\* apart into exactly the arguments the driver put in, bind parameters (protocol.go
\* 595-667) included, of which only nil is NULL.  The open request has 628 bytes,
\* and database, user and password each in a field of its own: up to 32 bytes of
\* a name arrive as they are.
RequestsArriveWhole ==
  st # "run" /\ msg.p \notin Parsers =>
    /\ Whole
    /\ IF msg.p = "WriteOpenDatabase"
       THEN Len(buf) = 628 /\ NamesIn(out, msg)
       ELSE out = <<One("dataLen", Len(buf) - 8)>> \o Asked(msg)
=============================================================================
