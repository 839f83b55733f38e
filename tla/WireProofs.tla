----------------------------- MODULE WireProofs -----------------------------
(***************************************************************************)
(* Theorems about Wire, for any messages the program and the server can    *)
(* send.                                                                   *)
(***************************************************************************)
EXTENDS Wire, SequenceLemmas, SequenceTheorems

-----------------------------------------------------------------------------
(***************************************************************************)
(* Bytes.                                                                  *)
(***************************************************************************)

LEMMA Joined ==
  ASSUME NEW S, NEW u \in Seq(S), NEW v \in Seq(S)
  PROVE  /\ u \o v \in Seq(S) /\ Len(u \o v) = Len(u) + Len(v)
         /\ \A j \in 1..Len(u) : (u \o v)[j] = u[j]
         /\ \A j \in 1..Len(v) : (u \o v)[Len(u) + j] = v[j]
<1>1. u \o v \in Seq(S) /\ Len(u \o v) = Len(u) + Len(v)
  BY ConcatProperties
<1>2. \A i \in 1..Len(u) + Len(v) : (u \o v)[i] = IF i <= Len(u) THEN u[i] ELSE v[i - Len(u)]
  BY ConcatProperties
<1>3. Len(u) \in Nat /\ Len(v) \in Nat
  BY LenProperties
<1>4. ASSUME NEW j \in 1..Len(v) PROVE (u \o v)[Len(u) + j] = v[j]
  <2> DEFINE i == Len(u) + j
  <2>1. i \in 1..Len(u) + Len(v) /\ ~(i <= Len(u)) /\ i - Len(u) = j
    BY <1>3
  <2> HIDE DEF i
  <2>2. (u \o v)[i] = v[j]
    BY <1>2, <2>1
  <2> QED
    BY <2>2 DEF i
<1> QED
  BY <1>1, <1>2, <1>3, <1>4

LEMMA WordType ==
  ASSUME NEW n \in Int
  PROVE  /\ writeShort(n) \in Seq(Byte) /\ Len(writeShort(n)) = 2
         /\ writeInt(n) \in Seq(Byte) /\ Len(writeInt(n)) = 4
<1>1. \A k \in Int : k % 256 \in Byte
  BY DEF Byte
<1>2. n \div 256 \in Int /\ n \div 65536 \in Int /\ n \div 16777216 \in Int
  BY SMT
<1>3. \A a, b, c, d \in Byte : /\ <<a, b>> \in Seq(Byte) /\ Len(<<a, b>>) = 2
                               /\ <<a, b, c, d>> \in Seq(Byte) /\ Len(<<a, b, c, d>>) = 4
  OBVIOUS
<1> QED
  BY <1>1, <1>2, <1>3 DEF writeShort, writeInt

\* parseShort and parseInt read what writeShort and writeInt wrote, sign and all.
LEMMA SmallNumber ==
  ASSUME NEW n \in Number16
  PROVE  n \in Int /\ n >= -32768 /\ n <= 32767
<1>1. MaxShort = 32767
  BY DEF MaxShort
<1>2. MaxShort \in Int
  BY <1>1
<1>3. n \in Int /\ n >= -MaxShort - 1 /\ n <= MaxShort
  BY <1>2 DEF Number16
<1> QED
  BY <1>1, <1>3

LEMMA ShortBack ==
  ASSUME NEW n \in Number16
  PROVE  Short(writeShort(n)) = n
<1> DEFINE q == n \div 256
           r == n % 256
<1>0. n \in Int /\ n >= -32768 /\ n <= 32767
  BY SmallNumber
<1>1. n = (256 * q) + r /\ q \in -128..127 /\ r \in Byte
  BY <1>0 DEF Byte
<1>2. writeShort(n)[1] = q % 256 /\ writeShort(n)[2] = r
  BY DEF writeShort
<1> HIDE DEF q, r
<1>3. q % 256 = IF q < 0 THEN q + 256 ELSE q
  BY <1>1
<1>4. High(q % 256) = q
  BY <1>1, <1>3 DEF High
<1> QED
  BY <1>1, <1>2, <1>4 DEF Short, Byte

LEMMA Bounds ==
  /\ MaxInt \in Nat /\ MaxLen \in Nat /\ MaxLen + 7 = MaxInt
  /\ Number32 \subseteq Int /\ \A n \in Number32 : n >= -MaxInt - 1 /\ n <= MaxInt
  /\ Byte \subseteq Number32 /\ Number16 \subseteq Number32
<1>1. MaxInt \in Int /\ MaxInt >= 32768
  BY SMTT(30) DEF MaxInt
<1>2. MaxLen \in Nat /\ MaxLen + 7 = MaxInt
  BY <1>1 DEF MaxLen
<1>3. Number32 \subseteq Int /\ \A n \in Number32 : n >= -MaxInt - 1 /\ n <= MaxInt
  BY <1>1 DEF Number32
<1>4. Byte \subseteq Number32
  BY <1>1 DEF Byte, Number32
<1>5. ASSUME NEW n \in Number16 PROVE n \in Number32
  <2>1. n \in Int /\ n >= -32768 /\ n <= 32767
    BY SmallNumber
  <2> QED
    BY <1>1, <2>1 DEF Number32
<1> QED
  BY <1>1, <1>2, <1>3, <1>4, <1>5

LEMMA IntBack ==
  ASSUME NEW n \in Number32
  PROVE  Int32(writeInt(n)) = n
<1> DEFINE a == n \div 16777216
           b == n \div 65536
           c == n \div 256
<1>0. n \in Int /\ n >= -MaxInt - 1 /\ n <= MaxInt
  BY Bounds
<1>1. n >= -2147483648 /\ n <= 2147483647
  BY <1>0, SMTT(30) DEF MaxInt
<1>2. /\ writeInt(n)[1] = a % 256 /\ writeInt(n)[2] = b % 256
      /\ writeInt(n)[3] = c % 256 /\ writeInt(n)[4] = n % 256
  BY SMTT(30) DEF writeInt
<1>3. -128 <= a /\ a <= 127 /\ a \in Int
  BY <1>0, <1>1, SMTT(30)
<1>4. n = 256 * c + (n % 256) /\ c = 256 * b + (c % 256) /\ b = 256 * a + (b % 256)
  BY <1>0, SMTT(30)
<1>9. b \in Int /\ c \in Int
  BY <1>0
<1> HIDE DEF a, b, c
<1>5. a % 256 = IF a < 0 THEN a + 256 ELSE a
  BY <1>3
<1>6. High(a % 256) = a
  BY <1>3, <1>5 DEF High
<1>7. Int32(writeInt(n)) = a * 16777216 + (b % 256) * 65536 + (c % 256) * 256 + (n % 256)
  BY <1>2, <1>6, SMTT(30) DEF Int32
<1> QED
  BY <1>0, <1>3, <1>4, <1>7, <1>9, SMTT(30)

LEMMA FillerType ==
  ASSUME NEW n \in Nat
  PROVE  writeFiller(n) \in Seq(Byte) /\ Len(writeFiller(n)) = n
BY DEF writeFiller, Byte

LEMMA BytesType ==
  ASSUME NEW b \in Seq(Byte)
  PROVE  addBytes(b) \in Seq(Byte) /\ Len(addBytes(b)) = 4 + Len(b)
<1>1. Len(b) \in Int
  BY LenProperties
<1>2. writeInt(Len(b)) \in Seq(Byte) /\ Len(writeInt(Len(b))) = 4
  BY <1>1, WordType
<1> DEFINE l == writeInt(Len(b))
<1>3. l \in Seq(Byte) /\ Len(l) = 4
  BY <1>2
<1> HIDE DEF l
<1>4. Len(l \o b) = Len(l) + Len(b) /\ l \o b \in Seq(Byte)
  BY <1>3, ConcatProperties
<1> QED
  BY <1>3, <1>4 DEF addBytes, l

-----------------------------------------------------------------------------
(***************************************************************************)
(* The entries of todo: how a field is read, and its name.                 *)
(***************************************************************************)
Gets == {"byte", "short", "int", "raw", "shorts", "text", "nil"}
GetNames == Gets \cup {"loop", "until", "inline"}

\* The names of what is read: what is read as a byte, what has more reads follow,
\* what is in a loop, and the others.
Leaders == {"nameLen", "textLen", "idLen", "legacyType", "argLen", "cellType", "paramType"}
Counts == {"colCount", "resultCount"}
Special == {"tupleCount", "bindLen"}
ByteNames == {"colType", "legacyType", "cellType", "paramType", "stmtType"}
LeadNames == Leaders \cup Counts \cup Special \cup {"size", "paramSize"}
LoopNames == {"column", "info", "row"}
PlainNames == {"", "name", "id", "arg", "text", "int", "wide", "time", "bytes", "errCode", "errMsg", "null",
               "code", "handle", "total", "totalCount", "bindCount", "infoStmt", "infoCount", "proto",
               "session", "version", "dataLen", "fc", "fixed"}
ToNames == ByteNames \cup LeadNames \cup LoopNames \cup PlainNames

Entries == [get : GetNames, n : Int, to : ToNames, x : Int]

\* The value that a read makes of the bytes w.
ValueOf(get, w) ==
  CASE get = "short"  -> <<Short(w)>>
    [] get = "int"    -> <<Int32(w)>>
    [] get = "shorts" -> [i \in 1..(Len(w) \div 2) |-> Short(SubSeq(w, 2 * i - 1, 2 * i))]
    [] get = "text"   -> IF w # <<>> /\ Last(w) = 0 THEN Front(w) ELSE w
    [] get = "nil"    -> <<>>
    [] OTHER          -> w

\* What the entries of a loop are made of.
Info == [stmt : Byte, count : Number32]
Row == Seq(Cell)
Arg32 == [go : STRING, v : Seq(Number32)]
Rows(m) == {r \in Row : IsRow(m, r)}

-----------------------------------------------------------------------------
(***************************************************************************)
(* Packets are sequences of bytes.                                         *)
(***************************************************************************)

LEMMA TextBytes ==
  ASSUME NEW s \in Seq(Byte)
  PROVE  /\ s \o <<0>> \in Seq(Byte) /\ Len(s \o <<0>>) = Len(s) + 1
         /\ writeNullTermString(s) \in Seq(Byte)
<1>1. <<0>> \in Seq(Byte) /\ Len(<<0>>) = 1
  BY DEF Byte
<1>2. s \o <<0>> \in Seq(Byte) /\ Len(s \o <<0>>) = Len(s) + 1
  BY <1>1, ConcatProperties
<1> QED
  BY <1>2, BytesType DEF writeNullTermString

LEMMA SmallBytes ==
  ASSUME NEW b \in Byte
  PROVE  <<b>> \in Seq(Byte) /\ <<128, b>> \in Seq(Byte) /\ <<>> \in Seq(Byte)
         /\ Len(<<b>>) = 1 /\ b \in Int
BY DEF Byte

LEMMA Constants ==
  /\ writeShort(0) \in Seq(Byte) /\ writeInt(0) \in Seq(Byte) /\ writeInt(-1) \in Seq(Byte)
  /\ writeInt(1) \in Seq(Byte) /\ writeFiller(4) \in Seq(Byte) /\ writeFiller(7) \in Seq(Byte)
  /\ writeFiller(8) \in Seq(Byte) /\ writeFiller(11) \in Seq(Byte) /\ writeFiller(16) \in Seq(Byte)
  /\ <<0>> \in Seq(Byte) /\ <<1>> \in Seq(Byte) /\ <<>> \in Seq(Byte)
<1>1. 0 \in Int /\ -1 \in Int /\ 1 \in Int /\ 4 \in Nat /\ 7 \in Nat /\ 8 \in Nat /\ 11 \in Nat /\ 16 \in Nat
  OBVIOUS
<1>2. writeShort(0) \in Seq(Byte) /\ writeInt(0) \in Seq(Byte) /\ writeInt(-1) \in Seq(Byte)
      /\ writeInt(1) \in Seq(Byte)
  BY <1>1, WordType
<1>3. /\ writeFiller(4) \in Seq(Byte) /\ writeFiller(7) \in Seq(Byte) /\ writeFiller(8) \in Seq(Byte)
      /\ writeFiller(11) \in Seq(Byte) /\ writeFiller(16) \in Seq(Byte)
  BY <1>1, FillerType
<1>4. 0 \in Byte /\ 1 \in Byte
  BY DEF Byte
<1>5. <<0>> \in Seq(Byte) /\ <<1>> \in Seq(Byte) /\ <<>> \in Seq(Byte)
  BY <1>4, SmallBytes
<1> QED
  BY <1>2, <1>3, <1>5

LEMMA ColumnBytesType ==
  ASSUME NEW c \in Column
  PROVE  ColumnBytes(c) \in Seq(Byte)
<1> DEFINE ty == IF c.wide THEN <<128, c.t>> ELSE <<c.t>>
<1>0. c.t \in Byte /\ c.wide \in BOOLEAN /\ c.name \in Seq(Byte)
  BY DEF Column, Byte, Text
<1>1. ty \in Seq(Byte)
  BY <1>0, SmallBytes
<1>2. writeNullTermString(c.name) \in Seq(Byte) /\ writeNullTermString(<<>>) \in Seq(Byte)
  BY <1>0, Constants, TextBytes
<1> HIDE DEF ty
<1> QED
  BY <1>1, <1>2, Constants DEF ColumnBytes, ty

LEMMA InfoBytesType ==
  ASSUME NEW i \in Info
  PROVE  InfoBytes(i) \in Seq(Byte)
<1>1. i.stmt \in Byte /\ i.count \in Number32
  BY DEF Info
<1>2. <<i.stmt>> \in Seq(Byte) /\ i.count \in Int
  BY <1>1, SmallBytes, Bounds
<1>3. writeInt(i.count) \in Seq(Byte)
  BY <1>2, WordType
<1> QED
  BY <1>2, <1>3, Constants DEF InfoBytes

LEMMA ShortsType ==
  ASSUME NEW v \in Seq(Number16)
  PROVE  /\ [i \in DOMAIN v |-> writeShort(v[i])] \in Seq(Seq(Byte))
         /\ FlattenSeq([i \in DOMAIN v |-> writeShort(v[i])]) \in Seq(Byte)
<1> DEFINE w == [i \in DOMAIN v |-> writeShort(v[i])]
           F == [n \in Number16 |-> writeShort(n)]
<1>1. Maps(F, Number16, Seq(Byte))
  <2>1. \A n \in Number16 : n \in Int
    BY Bounds
  <2> QED
    BY <2>1, WordType DEF Maps
<1>0. w = Each(F, v)
  BY DEF Each
<1>2. w \in Seq(Seq(Byte))
  <2> HIDE DEF F, w
  <2> QED
    BY <1>0, <1>1, EachType
<1> HIDE DEF w
<1>3. FlattenSeq(w) \in Seq(Byte)
  BY <1>2, FlattenType
<1> QED
  BY <1>2, <1>3 DEF w

LEMMA ValueBytesType ==
  ASSUME NEW t \in Byte, NEW v, IsValue(t, v)
  PROVE  v # Null => ValueBytes(t, v) \in Seq(Byte)
<1> SUFFICES ASSUME v # Null PROVE ValueBytes(t, v) \in Seq(Byte)
  OBVIOUS
<1>1. CASE v[1] = "text"
  <2>1. v[2] \in Seq(Byte)
    BY <1>1 DEF IsValue, Text, Null
  <2> QED
    BY <1>1, <2>1, TextBytes DEF ValueBytes
<1>2. CASE v[1] = "int"
  <2>1. v[2][1] \in Int
    BY <1>2, Bounds DEF IsValue, Null
  <2> QED
    BY <1>2, <2>1, WordType DEF ValueBytes
<1>3. CASE v[1] = "time"
  <2>1. v[2] \in Seq(Number16)
    BY <1>3 DEF IsValue, Null
  <2> QED
    BY <1>3, <2>1, ShortsType DEF ValueBytes
<1>4. CASE v[1] \notin {"text", "int", "time"}
  <2>1. v[2] \in Seq(Byte)
    BY <1>4 DEF IsValue, Null, Text
  <2> QED
    BY <1>4, <2>1 DEF ValueBytes
<1> QED
  BY <1>1, <1>2, <1>3, <1>4

LEMMA CellBytesType ==
  ASSUME NEW c \in Cell, IsValue(c.t, c.v), NEW typed \in BOOLEAN
  PROVE  CellBytes(typed, c) \in Seq(Byte)
<1>1. c.t \in Byte /\ c.v \in STRING \X Seq(Number32)
  BY DEF Cell
<1>2. CASE c.v[1] = "null"
  BY <1>2, Constants DEF CellBytes
<1>3. CASE c.v[1] # "null"
  <2> DEFINE x == IF typed THEN <<c.t>> ELSE <<>>
             y == ValueBytes(c.t, c.v)
  <2>1. x \in Seq(Byte) /\ y \in Seq(Byte)
    BY <1>1, <1>3, SmallBytes, ValueBytesType DEF Null
  <2> HIDE DEF x, y
  <2>2. x \o y \in Seq(Byte)
    BY <2>1
  <2>3. addBytes(x \o y) \in Seq(Byte)
    BY <2>2, BytesType
  <2> QED
    BY <1>3, <2>3 DEF CellBytes, x, y
<1> QED
  BY <1>2, <1>3

LEMMA MessageType ==
  ASSUME NEW m, IsMessage(m)
  PROVE  /\ m.h \in Number32 /\ m.n \in Number32 /\ m.total \in Number32
         /\ m.h \in Int /\ m.n \in Int /\ m.total \in Int
         /\ m.stmt \in Byte /\ m.ver \in 0..63 /\ m.text \in Seq(Byte) /\ Len(m.text) <= MaxLen
         /\ m.user \in Seq(Byte) /\ m.password \in Seq(Byte)
         /\ m.cols \in Seq(Column) /\ Len(m.cols) \in Number32 /\ m.infos \in Seq(Info)
         /\ Len(m.infos) \in Number32 /\ m.rows \in Seq(Rows(m)) /\ Len(m.rows) \in Number32
         /\ m.args \in Seq(Arg32) /\ \A j \in DOMAIN m.args : IsArg(m.args[j])
<1>1. m.h \in Number32 /\ m.n \in Number32 /\ m.total \in Number32
  BY DEF IsMessage
<1>2. /\ m.stmt \in Byte /\ m.ver \in 0..63 /\ m.text \in Seq(Byte) /\ Len(m.text) <= MaxLen
      /\ m.user \in Seq(Byte) /\ m.password \in Seq(Byte)
  BY DEF IsMessage, Text
<1>3. /\ m.cols \in Seq(Column) /\ Len(m.cols) <= MaxLen
      /\ m.infos \in Seq(Info) /\ Len(m.infos) <= MaxLen
      /\ m.rows \in Seq(Row) /\ Len(m.rows) <= MaxLen /\ \A i \in DOMAIN m.rows : IsRow(m, m.rows[i])
  BY DEF IsMessage, Info, Row
<1>4. m.rows \in Seq(Rows(m))
  <2>1. \A i \in DOMAIN m.rows : m.rows[i] \in Rows(m)
    BY <1>3 DEF Rows
  <2> QED
    BY <1>3, <2>1
<1>5. \A n \in Nat : n <= MaxLen => n \in Number32
  BY Bounds DEF Number32
<1>6. Len(m.cols) \in Nat /\ Len(m.infos) \in Nat /\ Len(m.rows) \in Nat
  BY <1>3
<1>7. m.args \in Seq(Arg32) /\ \A j \in DOMAIN m.args : IsArg(m.args[j])
  BY DEF IsMessage, Arg32
<1> QED
  BY <1>1, <1>2, <1>3, <1>4, <1>5, <1>6, <1>7, Bounds

LEMMA RowBytesType ==
  ASSUME NEW m, NEW row \in Rows(m)
  PROVE  /\ [j \in DOMAIN row |-> CellBytes(Typed(m, j), row[j])] \in Seq(Seq(Byte))
         /\ RowBytes(m, row) \in Seq(Byte)
<1> DEFINE w == [j \in DOMAIN row |-> CellBytes(Typed(m, j), row[j])]
<1>1. row \in Seq(Cell) /\ \A j \in DOMAIN row : IsValue(row[j].t, row[j].v)
  BY DEF Rows, Row, IsRow
<1>2. \A j \in DOMAIN row : CellBytes(Typed(m, j), row[j]) \in Seq(Byte)
  <2> SUFFICES ASSUME NEW j \in DOMAIN row PROVE CellBytes(Typed(m, j), row[j]) \in Seq(Byte)
    OBVIOUS
  <2>1. row[j] \in Cell /\ IsValue(row[j].t, row[j].v)
    BY <1>1
  <2>2. Typed(m, j) \in BOOLEAN
    BY DEF Typed
  <2> QED
    BY <2>1, <2>2, CellBytesType
<1>3. DOMAIN row = 1..Len(row) /\ Len(row) \in Nat
  BY <1>1
<1>4. w \in Seq(Seq(Byte))
  BY <1>2, <1>3
<1> HIDE DEF w
<1>5. FlattenSeq(w) \in Seq(Byte)
  BY <1>4, FlattenType
<1> QED
  BY <1>4, <1>5, Constants DEF RowBytes, w

\* The parts of an answer, as images of the entries.
LEMMA EachBytes ==
  ASSUME NEW m, IsMessage(m)
  PROVE  /\ [c \in Column |-> ColumnBytes(c)] \in [Column -> Seq(Byte)]
         /\ [i \in Info |-> InfoBytes(i)] \in [Info -> Seq(Byte)]
         /\ [r \in Rows(m) |-> RowBytes(m, r)] \in [Rows(m) -> Seq(Byte)]
         /\ [j \in DOMAIN m.cols |-> ColumnBytes(m.cols[j])] = Each([c \in Column |-> ColumnBytes(c)], m.cols)
         /\ [i \in DOMAIN m.infos |-> InfoBytes(m.infos[i])] = Each([i \in Info |-> InfoBytes(i)], m.infos)
         /\ [i \in DOMAIN m.rows |-> RowBytes(m, m.rows[i])] = Each([r \in Rows(m) |-> RowBytes(m, r)], m.rows)
<1>1. /\ \A j \in DOMAIN m.cols : m.cols[j] \in Column
      /\ \A j \in DOMAIN m.infos : m.infos[j] \in Info
      /\ \A j \in DOMAIN m.rows : m.rows[j] \in Rows(m)
  BY MessageType
<1>2. [c \in Column |-> ColumnBytes(c)] \in [Column -> Seq(Byte)]
  BY ColumnBytesType
<1>3. [i \in Info |-> InfoBytes(i)] \in [Info -> Seq(Byte)]
  BY InfoBytesType
<1>4. [r \in Rows(m) |-> RowBytes(m, r)] \in [Rows(m) -> Seq(Byte)]
  BY RowBytesType
<1>5. [j \in DOMAIN m.cols |-> ColumnBytes(m.cols[j])] = Each([c \in Column |-> ColumnBytes(c)], m.cols)
  BY <1>1 DEF Each
<1>6. [i \in DOMAIN m.infos |-> InfoBytes(m.infos[i])] = Each([i \in Info |-> InfoBytes(i)], m.infos)
  BY <1>1 DEF Each
<1>7. [i \in DOMAIN m.rows |-> RowBytes(m, m.rows[i])] = Each([r \in Rows(m) |-> RowBytes(m, r)], m.rows)
  BY <1>1 DEF Each
<1> QED
  BY <1>2, <1>3, <1>4, <1>5, <1>6, <1>7

LEMMA AnswerBytesType ==
  ASSUME NEW m, IsMessage(m)
  PROVE  /\ RowsBytes(m) \in Seq(Byte) /\ DescribedBytes(m) \in Seq(Byte)
         /\ ExecutedBytes(m) \in Seq(Byte) /\ AnswerBytes(m) \in Seq(Byte)
<1> DEFINE cb == FlattenSeq([j \in DOMAIN m.cols |-> ColumnBytes(m.cols[j])])
           ib == FlattenSeq([i \in DOMAIN m.infos |-> InfoBytes(m.infos[i])])
           rb == FlattenSeq([i \in DOMAIN m.rows |-> RowBytes(m, m.rows[i])])
<1>1. cb \in Seq(Byte)
  <2> DEFINE F == [c \in Column |-> ColumnBytes(c)]
  <2>1. F \in [Column -> Seq(Byte)] /\ m.cols \in Seq(Column) /\ cb = FlattenSeq(Each(F, m.cols))
    BY EachBytes, MessageType
  <2> HIDE DEF F, cb
  <2>2. FlattenSeq(Each(F, m.cols)) \in Seq(Byte)
    BY <2>1, FlattenEach
  <2> QED
    BY <2>1, <2>2
<1>2. ib \in Seq(Byte)
  <2> DEFINE F == [i \in Info |-> InfoBytes(i)]
  <2>1. F \in [Info -> Seq(Byte)] /\ m.infos \in Seq(Info) /\ ib = FlattenSeq(Each(F, m.infos))
    BY EachBytes, MessageType
  <2> HIDE DEF F, ib
  <2>2. FlattenSeq(Each(F, m.infos)) \in Seq(Byte)
    BY <2>1, FlattenEach
  <2> QED
    BY <2>1, <2>2
<1>3. rb \in Seq(Byte)
  <2> DEFINE F == [r \in Rows(m) |-> RowBytes(m, r)]
  <2>1. F \in [Rows(m) -> Seq(Byte)] /\ m.rows \in Seq(Rows(m)) /\ rb = FlattenSeq(Each(F, m.rows))
    BY EachBytes, MessageType
  <2> HIDE DEF F, rb
  <2>2. FlattenSeq(Each(F, m.rows)) \in Seq(Byte)
    BY <2>1, FlattenEach
  <2> QED
    BY <2>1, <2>2
<1> HIDE DEF cb, ib, rb
<1>4. /\ Len(m.cols) \in Int /\ Len(m.infos) \in Int /\ Len(m.rows) \in Int
      /\ m.h \in Int /\ m.n \in Int /\ m.total \in Int /\ m.stmt \in Byte /\ m.text \in Seq(Byte)
      /\ m.ver \in 0..63
  BY MessageType, Bounds
<1>5. /\ writeInt(Len(m.cols)) \in Seq(Byte) /\ writeInt(Len(m.infos)) \in Seq(Byte)
      /\ writeInt(Len(m.rows)) \in Seq(Byte) /\ writeInt(m.h) \in Seq(Byte)
      /\ writeInt(m.n) \in Seq(Byte) /\ writeInt(m.total) \in Seq(Byte)
      /\ <<m.stmt>> \in Seq(Byte)
      /\ writeNullTermString(m.text) \in Seq(Byte)
  BY <1>4, WordType, SmallBytes, TextBytes
<1>6. <<64 + m.ver>> \in Seq(Byte)
  <2> DEFINE x == m.ver
  <2>0. x \in 0..63
    BY <1>4
  <2> HIDE DEF x
  <2>1. 64 + x \in Byte
    BY <2>0 DEF Byte
  <2> QED
    BY <2>1, SmallBytes DEF x
<1>7. RowsBytes(m) \in Seq(Byte)
  BY <1>3, <1>5 DEF RowsBytes, rb
<1>8. DescribedBytes(m) \in Seq(Byte)
  BY <1>1, <1>5, Constants DEF DescribedBytes, cb
<1>9. ExecutedBytes(m) \in Seq(Byte)
  <2> DEFINE x == IF m.ver > 1 THEN <<0>> ELSE <<>>
             y == IF m.ver > 4 THEN writeInt(0) ELSE <<>>
             z == IF m.stmt = StmtSelect THEN writeInt(0) \o RowsBytes(m) ELSE <<>>
  <2>1. x \in Seq(Byte) /\ y \in Seq(Byte)
    BY Constants
  <2>2. writeInt(0) \o RowsBytes(m) \in Seq(Byte)
    BY <1>7, Constants
  <2>3. z \in Seq(Byte)
    BY <2>2, Constants
  <2> HIDE DEF x, y, z
  <2> QED
    BY <1>2, <1>5, <2>1, <2>3, Constants DEF ExecutedBytes, ib, x, y, z
<1>10. ASSUME m.err # <<>> PROVE AnswerBytes(m) \in Seq(Byte)
  <2>1. m.err[1] \in Int
    BY <1>10, Bounds DEF IsMessage, IsError
  <2>2. writeInt(m.err[1]) \in Seq(Byte)
    BY <2>1, WordType
  <2> QED
    BY <1>4, <1>10, <2>2, Constants DEF AnswerBytes
<1>11. ASSUME m.err = <<>> PROVE AnswerBytes(m) \in Seq(Byte)
  <2>1. /\ writeInt(m.h) \o DescribedBytes(m) \o writeInt(m.total) \o ExecutedBytes(m) \in Seq(Byte)
        /\ writeInt(m.h) \o DescribedBytes(m) \in Seq(Byte)
        /\ writeInt(m.total) \o ExecutedBytes(m) \in Seq(Byte)
        /\ writeInt(0) \o RowsBytes(m) \in Seq(Byte)
    BY <1>5, <1>7, <1>8, <1>9, Constants
  <2>2. /\ writeInt(0) \o m.text \o <<0>> \in Seq(Byte)
        /\ writeInt(m.n) \o writeFiller(4) \o <<64 + m.ver>> \o writeFiller(11) \o writeInt(m.h) \in Seq(Byte)
    BY <1>4, <1>5, <1>6, Constants
  <2> QED
    BY <1>5, <1>11, <2>1, <2>2, Constants DEF AnswerBytes
<1> QED
  BY <1>7, <1>8, <1>9, <1>10, <1>11

LEMMA TypedBytes ==
  ASSUME NEW t \in Byte, NEW b \in Seq(Byte)
  PROVE  writeInt(1 + Len(b)) \o <<t>> \o b \in Seq(Byte)
<1>1. 1 + Len(b) \in Int /\ <<t>> \in Seq(Byte)
  BY SmallBytes
<1> DEFINE l == writeInt(1 + Len(b))
<1>2. l \in Seq(Byte)
  BY <1>1, WordType
<1> HIDE DEF l
<1>3. l \o <<t>> \o b \in Seq(Byte)
  BY <1>1, <1>2
<1> QED
  BY <1>3 DEF l

\* A time has seven parts.
LEMMA TimeBytes ==
  ASSUME NEW v \in Seq(Number16), Len(v) = 7
  PROVE  FlattenSeq([i \in 1..7 |-> writeShort(v[i])]) = FlattenSeq([i \in DOMAIN v |-> writeShort(v[i])])
<1>1. DOMAIN v = 1..7
  OBVIOUS
<1> QED
  BY <1>1

LEMMA ParamBytesType ==
  ASSUME NEW a \in Arg32, IsArg(a)
  PROVE  encodeOneParam(a) \in Seq(Byte)
<1> DEFINE typed(t, b) == writeInt(1 + Len(b)) \o <<t>> \o b
<1>0. /\ TypeShort \in Byte /\ TypeBigInt \in Byte /\ TypeDouble \in Byte /\ TypeVarBit \in Byte
      /\ TypeDatetime \in Byte /\ TypeString \in Byte
  BY DEF TypeShort, TypeBigInt, TypeDouble, TypeVarBit, TypeDatetime, TypeString, Byte
<1>1. \A t \in Byte : \A b \in Seq(Byte) : typed(t, b) \in Seq(Byte)
  BY TypedBytes
<1>2. /\ a.go = "nil" => encodeOneParam(a) = writeInt(0)
      /\ a.go = "bool" => encodeOneParam(a) = typed(TypeShort, writeShort(a.v[1]))
      /\ a.go = "int64" => encodeOneParam(a) = typed(TypeBigInt, a.v)
      /\ a.go = "float64" => encodeOneParam(a) = typed(TypeDouble, a.v)
      /\ a.go = "[]byte" => encodeOneParam(a) = typed(TypeVarBit, a.v)
      /\ a.go = "time" => encodeOneParam(a)
            = typed(TypeDatetime, FlattenSeq([i \in 1..7 |-> writeShort(a.v[i])]))
      /\ a.go \notin {"nil", "bool", "int64", "float64", "[]byte", "time"} =>
            encodeOneParam(a) = typed(TypeString, a.v \o <<0>>)
  BY DEF encodeOneParam
<1> HIDE DEF typed
<1>3. CASE a.go = "nil"
  BY <1>2, <1>3, Constants
<1>4. CASE a.go = "bool"
  <2>1. a.v[1] \in Int
    BY <1>4, Bounds DEF IsArg
  <2>2. writeShort(a.v[1]) \in Seq(Byte)
    BY <2>1, WordType
  <2> QED
    BY <1>0, <1>1, <1>2, <1>4, <2>2
<1>5. CASE a.go \in {"int64", "float64", "[]byte"}
  <2>1. a.v \in Seq(Byte)
    BY <1>5 DEF IsArg, Text
  <2> QED
    BY <1>0, <1>1, <1>2, <1>5, <2>1
<1>6. CASE a.go = "time"
  <2>1. a.v \in Seq(Number16) /\ Len(a.v) = 7
    BY <1>6 DEF IsArg
  <2>2. FlattenSeq([i \in 1..7 |-> writeShort(a.v[i])]) \in Seq(Byte)
    BY <2>1, TimeBytes, ShortsType
  <2> QED
    BY <1>0, <1>1, <1>2, <1>6, <2>2
<1>7. CASE a.go \notin {"nil", "bool", "int64", "float64", "[]byte", "time"}
  <2>1. a.v \in Seq(Byte)
    BY <1>7 DEF IsArg, Text
  <2>2. a.v \o <<0>> \in Seq(Byte)
    BY <2>1, TextBytes
  <2> QED
    BY <1>0, <1>1, <1>2, <1>7, <2>2
<1> QED
  BY <1>3, <1>4, <1>5, <1>6, <1>7

LEMMA BindParamsType ==
  ASSUME NEW m, IsMessage(m)
  PROVE  encodeBindParams(m.args) \in Seq(Byte)
<1> DEFINE w == [i \in DOMAIN m.args |-> encodeOneParam(m.args[i])]
<1>1. m.args \in Seq(Arg32) /\ \A j \in DOMAIN m.args : IsArg(m.args[j])
  BY MessageType
<1>2. \A j \in DOMAIN m.args : encodeOneParam(m.args[j]) \in Seq(Byte)
  BY <1>1, ParamBytesType
<1>3. w \in Seq(Seq(Byte))
  BY <1>1, <1>2
<1> HIDE DEF w
<1>4. FlattenSeq(w) \in Seq(Byte)
  BY <1>3, FlattenType
<1> QED
  BY <1>4 DEF encodeBindParams, w

\* A name fills a field of 32 bytes, cut or filled up.
LEMMA FixedString ==
  ASSUME NEW s \in Seq(Byte)
  PROVE  /\ writeFixedString(s, 32) \in Seq(Byte) /\ Len(writeFixedString(s, 32)) = 32
         /\ InField(writeFixedString(s, 32), s)
<1> DEFINE l == Len(s)
           n == IF l > 32 THEN 32 ELSE l
<1>0. l \in Nat
  BY LenProperties
<1> HIDE DEF l
<1>1. n \in 0..32 /\ n <= l
  BY <1>0
<1>a. \A k \in 1..32 : k <= n <=> k <= l
  BY <1>0
<1> HIDE DEF n
<1> DEFINE t == SubSeq(s, 1, n)
           f == writeFiller(32 - Len(t))
<1>2. t \in Seq(Byte) /\ Len(t) = n /\ \A k \in 1..n : t[k] = s[k]
  BY <1>0, <1>1 DEF l
<1> HIDE DEF t
<1>3. 32 - Len(t) \in Nat
  BY <1>1, <1>2
<1>4. f \in Seq(Byte) /\ Len(f) = 32 - Len(t)
  BY <1>3, FillerType
<1>b. \A k \in 1..Len(f) : f[k] = 0
  BY <1>3, <1>4 DEF writeFiller
<1> HIDE DEF f
<1> DEFINE w == t \o f
<1>5. w \in Seq(Byte) /\ Len(w) = Len(t) + Len(f)
  BY <1>2, <1>4, ConcatProperties
<1>6. Len(w) = 32
  BY <1>1, <1>2, <1>4, <1>5
<1>7. \A k \in 1..32 : w[k] = IF k <= n THEN s[k] ELSE 0
  <2> TAKE k \in 1..32
  <2>1. CASE k <= n
    BY <1>1, <1>2, <1>4, <2>1
  <2>2. CASE ~(k <= n)
    <3>1. k - Len(t) \in 1..Len(f) /\ k \in (Len(t) + 1)..(Len(t) + Len(f))
      BY <1>1, <1>2, <1>4, <2>2
    <3>2. w[k] = f[k - Len(t)]
      BY <1>2, <1>4, <3>1
    <3> QED
      BY <1>b, <2>2, <3>1, <3>2
  <2> QED
    BY <2>1, <2>2
<1>8. w = writeFixedString(s, 32)
  BY DEF writeFixedString, l, n, t, f
<1> HIDE DEF w
<1>9. InField(w, s)
  BY <1>6, <1>7, <1>a DEF InField, l
<1> QED
  BY <1>5, <1>6, <1>8, <1>9

\* An argument with one number or one byte.
LEMMA ArgumentTypes ==
  /\ \A n \in Int : addInt(n) \in Seq(Byte)
  /\ \A b \in Byte : addByte(b) \in Seq(Byte)
  /\ addNull \in Seq(Byte) /\ addCacheTime \in Seq(Byte)
  /\ \A b \in BOOLEAN : Flag(b) \in Byte
<1>1. \A n \in Int : addInt(n) \in Seq(Byte)
  BY WordType, BytesType DEF addInt
<1>2. \A b \in Byte : addByte(b) \in Seq(Byte)
  BY SmallBytes, BytesType DEF addByte
<1>3. writeInt(0) \o writeInt(0) \in Seq(Byte)
  BY Constants
<1>4. addNull \in Seq(Byte) /\ addCacheTime \in Seq(Byte)
  BY <1>3, Constants, BytesType DEF addNull, addCacheTime
<1>5. \A b \in BOOLEAN : Flag(b) \in Byte
  BY DEF Flag, Byte
<1> QED
  BY <1>1, <1>2, <1>4, <1>5

LEMMA PayloadType ==
  ASSUME NEW m, IsMessage(m), m.p \in Writers, m.p # "WriteOpenDatabase"
  PROVE  Payload(m) \in Seq(Byte)
<1>0. m.h \in Int /\ m.n \in Int /\ m.text \in Seq(Byte)
  BY MessageType
<1>a. m.ac \in BOOLEAN
  BY DEF IsMessage
<1>c. Flag(m.ac) \in Byte
  BY <1>a, ArgumentTypes
<1>1. m.n + 1 \in Int /\ 100 \in Int /\ Flag(m.ac) \in Byte
  BY <1>0, <1>c
<1>2. \A b \in {1, 2, 3, 6, 8, 15, 31, 40, 41, 0} : b \in Byte /\ b \in Int
  BY DEF Byte
<1>3. \A b \in {1, 2, 3, 6, 8, 15, 31, 40, 41, 0} :
        <<b>> \in Seq(Byte) /\ addByte(b) \in Seq(Byte) /\ addInt(b) \in Seq(Byte) /\ writeInt(b) \in Seq(Byte)
  BY <1>2, SmallBytes, ArgumentTypes, WordType, ZenonT(40)
<1>b. addInt(m.h) \in Seq(Byte) /\ addInt(m.n + 1) \in Seq(Byte) /\ addInt(100) \in Seq(Byte)
  BY <1>0, <1>1, ArgumentTypes
<1>4. /\ addInt(m.h) \in Seq(Byte) /\ addInt(m.n + 1) \in Seq(Byte) /\ addInt(100) \in Seq(Byte)
      /\ writeNullTermString(m.text) \in Seq(Byte) /\ addByte(Flag(m.ac)) \in Seq(Byte)
      /\ addNull \in Seq(Byte) /\ addCacheTime \in Seq(Byte)
  BY <1>0, <1>1, <1>b, ArgumentTypes, TextBytes
<1>5. CASE m.p = "WriteEndTran"
  <2>1. m.n \in Byte
    BY <1>5 DEF IsMessage
  <2>2. addByte(m.n) \in Seq(Byte)
    BY <2>1, ArgumentTypes
  <2> QED
    BY <1>3, <1>5, <2>2 DEF Payload, WriteEndTran
<1>6. CASE m.p = "WriteCloseReqHandle"
  BY <1>3, <1>4, <1>6 DEF Payload, WriteCloseReqHandle
<1>7. CASE m.p = "WriteGetDbVersion"
  BY <1>3, <1>4, <1>7 DEF Payload, WriteGetDbVersion
<1>8. CASE m.p = "WriteConClose"
  BY <1>3, <1>8 DEF Payload, WriteConClose
<1>9. CASE m.p = "WriteGetLastInsertId"
  BY <1>3, <1>9 DEF Payload, WriteGetLastInsertId
<1>10. CASE m.p = "WriteFetch"
  BY <1>3, <1>4, <1>10 DEF Payload, WriteFetch
<1>11. CASE m.p = "WritePrepare"
  BY <1>3, <1>4, <1>11 DEF Payload, WritePrepare
<1>12. CASE m.p = "WritePrepareAndExecute"
  BY <1>3, <1>4, <1>12 DEF Payload, WritePrepareAndExecute
<1>13. CASE m.p = "WriteExecute"
  <2>1. addBytes(encodeBindParams(m.args)) \in Seq(Byte)
    BY BindParamsType, BytesType
  <2>2. <<Flag(m.stmt = StmtSelect)>> \in Seq(Byte)
    BY ArgumentTypes, SmallBytes
  <2> QED
    BY <1>3, <1>4, <1>13, <2>1, <2>2 DEF Payload, WriteExecute
<1> QED
  BY <1>5, <1>6, <1>7, <1>8, <1>9, <1>10, <1>11, <1>12, <1>13 DEF Writers

LEMMA PacketType ==
  ASSUME NEW m, IsMessage(m)
  PROVE  Bytes(m) \in Seq(Byte)
<1>1. CASE m.p \in Parsers
  <2>1. writeFiller(4) \o AnswerBytes(m) \in Seq(Byte)
    BY AnswerBytesType, Constants
  <2> QED
    BY <1>1, <2>1 DEF Bytes, Parsers
<1>2. CASE m.p = "WriteOpenDatabase"
  <2>0. m.text \in Seq(Byte) /\ m.user \in Seq(Byte) /\ m.password \in Seq(Byte)
    BY MessageType
  <2>1. 512 \in Nat /\ 20 \in Nat
    OBVIOUS
  <2>2. /\ writeFixedString(m.text, 32) \in Seq(Byte) /\ writeFixedString(m.user, 32) \in Seq(Byte)
        /\ writeFixedString(m.password, 32) \in Seq(Byte)
    BY <2>0, FixedString
  <2>a. writeFiller(512) \in Seq(Byte) /\ writeFiller(20) \in Seq(Byte)
    BY <2>1, FillerType
  <2>3. WriteOpenDatabase(m) \in Seq(Byte)
    BY <2>2, <2>a DEF WriteOpenDatabase
  <2> QED
    BY <1>2, <2>3 DEF Bytes, Parsers
<1>3. CASE m.p \notin Parsers \cup {"WriteOpenDatabase"}
  <2>1. m.p \in Writers
    BY <1>3 DEF IsMessage
  <2> DEFINE q == Payload(m)
  <2>2. q \in Seq(Byte)
    BY <1>3, <2>1, PayloadType
  <2> HIDE DEF q
  <2>3. Len(q) \in Int
    BY <2>2
  <2>4. writeInt(Len(q)) \in Seq(Byte)
    BY <2>3, WordType
  <2> DEFINE l == writeInt(Len(q))
  <2>5. l \in Seq(Byte)
    BY <2>4
  <2> HIDE DEF l
  <2>6. l \o writeFiller(4) \o q \in Seq(Byte)
    BY <2>2, <2>5, Constants
  <2> QED
    BY <1>3, <2>6 DEF Bytes, buildProtocolHeader, q, l
<1> QED
  BY <1>1, <1>2, <1>3

-----------------------------------------------------------------------------
(***************************************************************************)
(* Type correctness: what is to be read always has a length, and a type is *)
(* always read as a byte.                                                  *)
(***************************************************************************)
Proper(get, n, to) ==
  /\ get \in GetNames
  /\ get \in Gets => n \in Nat
  /\ get = "byte" => n = 1
  /\ get = "short" => n = 2
  /\ get = "int" => n = 4
  /\ get = "nil" => n = 0
  /\ get \in Gets /\ to \in ByteNames => get = "byte"
  /\ get \in Gets /\ to \in LeadNames => get \in {"byte", "int"}
  /\ get = "loop" => to \in {"column", "info", "row"}
  /\ get = "until" => to \in {"argLen", "paramSize"}

SoundEntries == {op \in Entries : Proper(op.get, op.n, op.to)}

WireType ==
  /\ msg \in Messages /\ buf = Bytes(msg) /\ offset \in 0..Len(buf)
  /\ st \in {"run", "done", "panic"}
  /\ todo \in Seq(SoundEntries)
  /\ meta.cols \in Seq(Byte) /\ meta.stmt \in Int

LEMMA SoundOne ==
  ASSUME NEW get \in GetNames, NEW n \in Int, NEW to \in ToNames, NEW x \in Int, Proper(get, n, to)
  PROVE  [get |-> get, n |-> n, to |-> to, x |-> x] \in SoundEntries
BY DEF SoundEntries, Entries

LEMMA Names ==
  /\ \A to \in PlainNames : to \in ToNames /\ to \notin ByteNames /\ to \notin LeadNames
  /\ \A to \in ByteNames \cup LeadNames \cup LoopNames : to \in ToNames
  /\ \A to \in LeadNames : to = "legacyType" \/ to = "cellType" \/ to = "paramType" \/ to \notin ByteNames
  /\ \A get \in Gets \cup {"loop", "until", "inline"} : get \in GetNames
<1>1. \A to \in PlainNames : to \notin ByteNames
  BY DEF PlainNames, ByteNames
<1>2. \A to \in PlainNames : to \notin LeadNames
  BY DEF PlainNames, LeadNames, Leaders, Counts, Special
<1>3. \A to \in LeadNames : to = "legacyType" \/ to = "cellType" \/ to = "paramType" \/ to \notin ByteNames
  BY DEF LeadNames, Leaders, Counts, Special, ByteNames
<1> QED
  BY <1>1, <1>2, <1>3 DEF ToNames, GetNames

LEMMA SoundReads ==
  /\ \A to \in ToNames : GetByte(to) \in SoundEntries
  /\ \A to \in ToNames : to \notin ByteNames => GetInt(to) \in SoundEntries
  /\ \A to \in ToNames : to \notin ByteNames /\ to \notin LeadNames =>
       /\ GetShort(to) \in SoundEntries
       /\ \A n \in Nat : GetRaw(n, to) \in SoundEntries /\ Rd("shorts", n, to) \in SoundEntries
       /\ \A n \in Int : GetText(n, to) \in SoundEntries
  /\ Nil \in SoundEntries /\ Inline \in SoundEntries
  /\ \A n \in Int : /\ Loop(n, "column") \in SoundEntries /\ Loop(n, "info") \in SoundEntries
                    /\ Loop(n, "row") \in SoundEntries
                    /\ Until(n, "argLen") \in SoundEntries /\ Until(n, "paramSize") \in SoundEntries
<1>a. "column" \in ToNames /\ "info" \in ToNames /\ "row" \in ToNames
  BY Names DEF LoopNames
<1>b. "argLen" \in ToNames /\ "paramSize" \in ToNames
  BY Names DEF LeadNames, Leaders
<1>d. "null" \notin ByteNames /\ "null" \notin LeadNames
  BY Names DEF PlainNames
<1>e. "" \in ToNames /\ "null" \in ToNames
  BY Names DEF PlainNames
<1>1. \A to \in ToNames : GetByte(to) \in SoundEntries
  <2> TAKE to \in ToNames
  <2>1. Proper("byte", 1, to)
    BY DEF Proper, GetNames, Gets, LoopNames
  <2>2. "byte" \in GetNames
    BY DEF GetNames, Gets
  <2> QED
    BY <2>1, <2>2, SoundOne DEF GetByte, Rd
<1>2. \A to \in ToNames : to \notin ByteNames => GetInt(to) \in SoundEntries
  <2> SUFFICES ASSUME NEW to \in ToNames, to \notin ByteNames PROVE GetInt(to) \in SoundEntries
    OBVIOUS
  <2>1. Proper("int", 4, to)
    BY DEF Proper, GetNames, Gets, LoopNames
  <2>2. "int" \in GetNames
    BY DEF GetNames, Gets
  <2> QED
    BY <2>1, <2>2, SoundOne DEF GetInt, Rd
<1>3. \A to \in ToNames : to \notin ByteNames /\ to \notin LeadNames => GetShort(to) \in SoundEntries
  <2> SUFFICES ASSUME NEW to \in ToNames, to \notin ByteNames, to \notin LeadNames
               PROVE  GetShort(to) \in SoundEntries
    OBVIOUS
  <2>1. Proper("short", 2, to)
    BY DEF Proper, GetNames, Gets, LoopNames
  <2>2. "short" \in GetNames
    BY DEF GetNames, Gets
  <2> QED
    BY <2>1, <2>2, SoundOne DEF GetShort, Rd
<1>4. \A to \in ToNames : to \notin ByteNames /\ to \notin LeadNames =>
        /\ \A n \in Nat : GetRaw(n, to) \in SoundEntries /\ Rd("shorts", n, to) \in SoundEntries
        /\ \A n \in Int : GetText(n, to) \in SoundEntries
  <2> SUFFICES ASSUME NEW to \in ToNames, to \notin ByteNames, to \notin LeadNames
               PROVE  /\ \A n \in Nat : GetRaw(n, to) \in SoundEntries /\ Rd("shorts", n, to) \in SoundEntries
                      /\ \A n \in Int : GetText(n, to) \in SoundEntries
    OBVIOUS
  <2>1. \A n \in Nat : Proper("raw", n, to) /\ Proper("shorts", n, to) /\ Proper("text", n, to)
    BY DEF Proper, GetNames, Gets
  <2>2. "raw" \in GetNames /\ "shorts" \in GetNames /\ "text" \in GetNames
    BY DEF GetNames, Gets
  <2>3. ASSUME NEW n \in Nat
        PROVE  /\ GetRaw(n, to) \in SoundEntries /\ Rd("shorts", n, to) \in SoundEntries
               /\ Rd("text", n, to) \in SoundEntries
    BY <2>1, <2>2, SoundOne DEF GetRaw, Rd
  <2>4. ASSUME NEW n \in Int PROVE GetText(n, to) \in SoundEntries
    <3> DEFINE k == IF n <= 0 THEN 0 ELSE n
    <3>1. k \in Nat
      OBVIOUS
    <3> HIDE DEF k
    <3> QED
      BY <2>3, <3>1 DEF GetText, k
  <2> QED
    BY <2>3, <2>4
<1>5. Nil \in SoundEntries /\ Inline \in SoundEntries
  <2>0. 0 \in Int
    OBVIOUS
  <2>1. Proper("nil", 0, "null")
    BY <1>d DEF Proper, GetNames, Gets
  <2>2. Proper("inline", 0, "")
    BY DEF Proper, GetNames, Gets
  <2>3. "nil" \in GetNames /\ "inline" \in GetNames
    BY DEF GetNames, Gets
  <2> QED
    <3>1. Nil \in SoundEntries
      BY <1>e, <2>1, <2>3, <2>0, SoundOne, Zenon DEF Nil, Rd
    <3>2. Inline \in SoundEntries
      BY <1>e, <2>2, <2>3, <2>0, SoundOne, Zenon DEF Inline, Rd
    <3> QED
      BY <3>1, <3>2
<1>6. \A n \in Int : Loop(n, "column") \in SoundEntries /\ Loop(n, "info") \in SoundEntries
                     /\ Loop(n, "row") \in SoundEntries
  <2> TAKE n \in Int
  <2>1. Proper("loop", n, "column") /\ Proper("loop", n, "info") /\ Proper("loop", n, "row")
    BY DEF Proper, GetNames, Gets
  <2>2. "loop" \in GetNames
    BY DEF GetNames
  <2> QED
    BY <1>a, <2>1, <2>2, SoundOne DEF Loop, Rd
<1>7. \A n \in Int : Until(n, "argLen") \in SoundEntries /\ Until(n, "paramSize") \in SoundEntries
  <2> TAKE n \in Int
  <2>1. Proper("until", n, "argLen") /\ Proper("until", n, "paramSize")
    BY DEF Proper, GetNames, Gets
  <2>2. "until" \in GetNames
    BY DEF GetNames
  <2> QED
    BY <1>b, <2>1, <2>2, SoundOne DEF Until, Rd
<1> QED
  BY <1>1, <1>2, <1>3, <1>4, <1>5, <1>6, <1>7

LEMMA SoundTypes ==
  ASSUME NEW n \in Int
  PROVE  TypeFor(n) \in SoundEntries /\ SizeFor(n) \in SoundEntries
<1>1. TypeFor(n) = [get |-> "byte", n |-> 1, to |-> "cellType", x |-> n]
  BY DEF TypeFor, GetByte, Rd
<1>2. SizeFor(n) = [get |-> "int", n |-> 4, to |-> "size", x |-> n]
  BY DEF SizeFor, GetInt, Rd
<1>3. Proper("byte", 1, "cellType")
  BY DEF Proper, GetNames, Gets
<1>4. Proper("int", 4, "size")
  BY DEF Proper, GetNames, Gets, ByteNames
<1>5. "byte" \in GetNames /\ "int" \in GetNames
  BY DEF GetNames, Gets
<1>6. "size" \in ToNames /\ "cellType" \in ToNames
  BY Names DEF LeadNames, Leaders
<1> QED
  BY <1>1, <1>2, <1>3, <1>4, <1>5, <1>6, SoundOne

LEMMA ReadValueType ==
  ASSUME NEW t, NEW size \in Nat
  PROVE  \E o \in SoundEntries : readValue(t, size) = <<o>>
<1>1. \A to \in {"text", "int", "wide", "time", "bytes"} :
        to \in ToNames /\ to \notin ByteNames /\ to \notin LeadNames
  BY Names DEF PlainNames
<1>2. Wide(t) \in Nat /\ 2 * Shorts(t) \in Nat /\ size \in Nat
  BY DEF Wide, Shorts
<1>3. /\ GetText(size, "text") \in SoundEntries /\ GetShort("int") \in SoundEntries
      /\ GetInt("int") \in SoundEntries /\ GetRaw(Wide(t), "wide") \in SoundEntries
      /\ Rd("shorts", 2 * Shorts(t), "time") \in SoundEntries /\ Nil \in SoundEntries
      /\ GetRaw(size, "bytes") \in SoundEntries
  BY <1>1, <1>2, SoundReads
<1>4. \/ readValue(t, size) = <<GetText(size, "text")>>
      \/ readValue(t, size) = <<GetShort("int")>>
      \/ readValue(t, size) = <<GetInt("int")>>
      \/ readValue(t, size) = <<GetRaw(Wide(t), "wide")>>
      \/ readValue(t, size) = <<Rd("shorts", 2 * Shorts(t), "time")>>
      \/ readValue(t, size) = <<Nil>>
      \/ readValue(t, size) = <<GetRaw(size, "bytes")>>
  BY DEF readValue
<1> QED
  BY <1>3, <1>4

LEMMA FollowsType ==
  ASSUME NEW to \in ToNames, NEW x \in Int, NEW v, to \in LeadNames => v \in Int
  PROVE  Follows(to, x, v) \in Seq(SoundEntries)
<1>0. /\ \A o \in SoundEntries : <<o>> \in Seq(SoundEntries)
      /\ <<>> \in Seq(SoundEntries)
  OBVIOUS
<1>1. \A k \in {"name", "", "id", "arg"} : k \in ToNames /\ k \notin ByteNames /\ k \notin LeadNames
  BY Names DEF PlainNames
<1>a. Nil \in SoundEntries
  BY SoundReads
<1>2. CASE to \in {"nameLen", "textLen", "idLen", "argLen"}
  <2>1. v \in Int
    BY <1>2 DEF LeadNames, Leaders
  <2>2. /\ GetText(v, "name") \in SoundEntries /\ GetText(v, "") \in SoundEntries /\ GetText(v, "id") \in SoundEntries
        /\ GetRaw(IF v <= 0 THEN 0 ELSE v, "arg") \in SoundEntries
    <3>1. (IF v <= 0 THEN 0 ELSE v) \in Nat
      BY <2>1
    <3> QED
      BY <1>1, <2>1, <3>1, SoundReads
  <2> QED
    BY <1>0, <1>2, <2>2 DEF Follows
<1>3. CASE to = "legacyType"
  <2>0. "colType" \in ToNames
    BY Names DEF ByteNames
  <2>1. GetByte("colType") \in SoundEntries
    BY <2>0, SoundReads
  <2> QED
    BY <1>0, <1>3, <2>1 DEF Follows
<1>4. CASE to \in {"colCount", "resultCount"}
  <2>1. v \in Int
    BY <1>4 DEF LeadNames, Counts
  <2>2. Loop(v, "column") \in SoundEntries /\ Loop(v, "info") \in SoundEntries
    BY <2>1, SoundReads
  <2> QED
    BY <1>0, <1>4, <2>2 DEF Follows
<1>5. CASE to = "size"
  <2>1. v \in Int
    BY <1>5 DEF LeadNames
  <2>3. TypeFor(v) \in SoundEntries
    BY <2>1, SoundTypes
  <2>4. readSized(x, v) \in Seq(SoundEntries)
    <3>1. CASE v <= 0 \/ x = TypeNull
      BY <1>0, <1>a, <2>3, <3>1 DEF readSized
    <3>2. CASE v > 0 /\ x # TypeNull
      <4>1. \E o \in SoundEntries : readValue(x, v) = <<o>>
        <5>1. v \in Nat
          BY <2>1, <3>2
        <5> QED
          BY <5>1, ReadValueType
      <4> QED
        BY <1>0, <2>1, <3>2, <4>1 DEF readSized
    <3> QED
      BY <2>1, <3>1, <3>2
  <2> QED
    BY <1>5, <2>4 DEF Follows
<1>6. CASE to = "cellType"
  <2>2. readTyped(v, x) \in Seq(SoundEntries)
    <3>1. CASE x - 1 <= 0
      BY <1>0, <1>a, <3>1 DEF readTyped
    <3>2. CASE x - 1 > 0
      <4>1. \E o \in SoundEntries : readValue(v, x - 1) = <<o>>
        <5>1. x - 1 \in Nat
          BY <3>2
        <5> QED
          BY <5>1, ReadValueType
      <4>2. readTyped(v, x) = readValue(v, x - 1)
        BY <3>2 DEF readTyped
      <4> QED
        BY <1>0, <4>1, <4>2
    <3> QED
      BY <3>1, <3>2
  <2> QED
    BY <1>6, <2>2 DEF Follows
<1>7. CASE to = "paramSize"
  <2>1. v \in Int
    BY <1>7 DEF LeadNames
  <2>2. \E o \in SoundEntries : readParam(v) = <<o>>
    <3> DEFINE o == [GetByte("paramType") EXCEPT !.x = v - 1]
    <3>1. o = [get |-> "byte", n |-> 1, to |-> "paramType", x |-> v - 1]
      BY DEF GetByte, Rd
    <3>2. Proper("byte", 1, "paramType")
      BY DEF Proper, GetNames, Gets
    <3>3. "byte" \in GetNames /\ "paramType" \in ToNames
      BY Names DEF GetNames, Gets, ByteNames
    <3>4. v - 1 \in Int
      BY <2>1
    <3>5. o \in SoundEntries
      BY <3>1, <3>2, <3>3, <3>4, SoundOne
    <3>6. readParam(v) = IF v <= 0 THEN <<Nil>> ELSE <<o>>
      BY DEF readParam
    <3> HIDE DEF o
    <3> QED
      BY <1>a, <3>5, <3>6
  <2>3. Follows(to, x, v) = readParam(v)
    BY <1>7 DEF Follows
  <2> QED
    BY <1>0, <2>2, <2>3
<1>8. CASE to = "paramType"
  <2> DEFINE n == IF x <= 0 THEN 0 ELSE x
  <2>1. n \in Nat
    OBVIOUS
  <2>2. Follows(to, x, v) = readValue(v, n)
    BY <1>8 DEF Follows
  <2> HIDE DEF n
  <2>3. \E o \in SoundEntries : readValue(v, n) = <<o>>
    BY <2>1, ReadValueType
  <2> QED
    BY <1>0, <2>2, <2>3
<1>9. CASE to \notin {"nameLen", "textLen", "idLen", "argLen", "legacyType", "colCount", "resultCount", "size",
                    "cellType", "paramSize", "paramType"}
  BY <1>0, <1>9 DEF Follows
<1> QED
  BY <1>2, <1>3, <1>4, <1>5, <1>6, <1>7, <1>8, <1>9

Span(b, k, n) == SubSeq(b, k + 1, k + n)
Taken == Span(buf, offset, Head(todo).n)

Reading ==
  /\ st = "run" /\ todo # <<>> /\ Head(todo).get \in Gets
  /\ offset + Head(todo).n <= Len(buf)
  /\ Got(ValueOf(Head(todo).get, Taken))

\* What is read from a packet is as long as asked for.
LEMMA TakenType ==
  ASSUME NEW b \in Seq(Byte), NEW k \in 0..Len(b), NEW n \in Nat, k + n <= Len(b)
  PROVE  SubSeq(b, k + 1, k + n) \in Seq(Byte) /\ Len(SubSeq(b, k + 1, k + n)) = n
<1> DEFINE l == Len(b)
           i == k + 1
           j == k + n
<1>1. l \in Nat /\ i \in Int /\ j \in Int /\ (i <= j => i >= 1 /\ j <= l)
  OBVIOUS
<1>2. (IF i <= j THEN j - i + 1 ELSE 0) = n
  BY <1>1
<1>3. i \in 1..l + 1 /\ j \in i - 1..l
  BY <1>1
<1> HIDE DEF l, i, j
<1>4. SubSeq(b, i, j) \in Seq(Byte) /\ Len(SubSeq(b, i, j)) = IF i <= j THEN j - i + 1 ELSE 0
  BY <1>3, SubSeqProperties DEF l
<1> QED
  BY <1>2, <1>4 DEF i, j

LEMMA NumberType ==
  ASSUME NEW w \in Seq(Byte)
  PROVE  /\ Len(w) = 2 => Short(w) \in Int
         /\ Len(w) = 4 => Int32(w) \in Int
<1>1. Len(w) = 2 => w[1] \in Byte /\ w[2] \in Byte
  OBVIOUS
<1>2. Len(w) = 4 => w[1] \in Byte /\ w[2] \in Byte /\ w[3] \in Byte /\ w[4] \in Byte
  OBVIOUS
<1>3. \A b \in Byte : b \in Int /\ High(b) \in Int
  BY DEF Byte, High
<1>4. Len(w) = 2 => Short(w) \in Int
  BY <1>1, <1>3 DEF Short
<1>5. Len(w) = 4 => Int32(w) \in Int
  <2> SUFFICES ASSUME Len(w) = 4 PROVE Int32(w) \in Int
    OBVIOUS
  <2> DEFINE h == High(w[1])
  <2>1. h \in Int /\ w[2] \in Int /\ w[3] \in Int /\ w[4] \in Int
    BY <1>2, <1>3
  <2> HIDE DEF h
  <2>2. h * 16777216 + w[2] * 65536 + w[3] * 256 + w[4] \in Int
    BY <2>1, SMTT(30)
  <2> QED
    BY <2>2 DEF h, Int32
<1> QED
  BY <1>4, <1>5

LEMMA ValueType ==
  ASSUME NEW get \in Gets, NEW n \in Nat, NEW to \in ToNames, Proper(get, n, to),
         NEW w \in Seq(Byte), Len(w) = n
  PROVE  /\ ValueOf(get, w) \in Seq(Int)
         /\ get = "byte" => ValueOf(get, w) = w /\ w # <<>> /\ w[1] \in Byte
         /\ get = "int" => ValueOf(get, w) = <<Int32(w)>>
<1>0. w \in Seq(Int)
  <2>1. \A b \in Byte : b \in Int
    BY DEF Byte
  <2> QED
    BY <2>1
<1>1. CASE get = "short"
  <2>1. Short(w) \in Int
    BY <1>1, NumberType DEF Proper
  <2>2. ValueOf(get, w) = <<Short(w)>>
    BY <1>1 DEF ValueOf
  <2>3. ValueOf(get, w) \in Seq(Int)
    BY <2>1, <2>2
  <2> QED
    BY <1>1, <2>3
<1>2. CASE get = "int"
  <2>1. Int32(w) \in Int
    BY <1>2, NumberType DEF Proper
  <2>2. ValueOf(get, w) = <<Int32(w)>>
    BY <1>2 DEF ValueOf
  <2>3. ValueOf(get, w) \in Seq(Int)
    BY <2>1, <2>2
  <2> QED
    BY <1>2, <2>2, <2>3
<1>3. CASE get = "shorts"
  <2> DEFINE k == n \div 2
             f == [i \in 1..k |-> Short(SubSeq(w, 2 * i - 1, 2 * i))]
  <2>1. k \in Nat /\ 2 * k <= n
    OBVIOUS
  <2> HIDE DEF k
  <2>2. ASSUME NEW i \in 1..k PROVE Short(SubSeq(w, 2 * i - 1, 2 * i)) \in Int
    <3> DEFINE j == 2 * i - 2
    <3>1. j \in 0..Len(w) /\ j + 2 <= Len(w) /\ j + 1 = 2 * i - 1 /\ j + 2 = 2 * i
      BY <2>1
    <3> HIDE DEF j
    <3>2. SubSeq(w, j + 1, j + 2) \in Seq(Byte) /\ Len(SubSeq(w, j + 1, j + 2)) = 2
      BY <3>1, TakenType
    <3>3. Short(SubSeq(w, j + 1, j + 2)) \in Int
      BY <3>2, NumberType
    <3> QED
      BY <3>1, <3>3
  <2>3. f \in Seq(Int)
    BY <2>1, <2>2
  <2>4. ValueOf(get, w) = f
    BY <1>3 DEF ValueOf, k
  <2> QED
    BY <1>3, <2>3, <2>4
<1>4. CASE get = "text"
  <2>1. CASE w # <<>> /\ Last(w) = 0
    <3>1. Front(w) \in Seq(Int)
      BY <1>0, <2>1 DEF Front
    <3> QED
      BY <1>4, <2>1, <3>1 DEF ValueOf
  <2>2. CASE ~(w # <<>> /\ Last(w) = 0)
    BY <1>0, <1>4, <2>2 DEF ValueOf
  <2> QED
    BY <2>1, <2>2
<1>5. CASE get = "nil"
  BY <1>5 DEF ValueOf
<1>6. CASE get \in {"byte", "raw"}
  <2>1. ValueOf(get, w) = w
    BY <1>6 DEF ValueOf
  <2>2. get = "byte" => n = 1
    BY DEF Proper
  <2>3. get = "byte" => w # <<>> /\ w[1] \in Byte
    BY <2>2
  <2> QED
    BY <1>0, <1>6, <2>1, <2>3
<1> QED
  BY <1>1, <1>2, <1>3, <1>4, <1>5, <1>6 DEF Gets

\* A step either reads, expands an entry, or ends.
LEMMA StepKinds ==
  ASSUME WireType, Next
  PROVE  Reading \/ DoLoop \/ DoUntil \/ DoInline \/ Done \/ Panic
<1>1. todo # <<>> => Head(todo) \in SoundEntries
  BY DEF WireType
<1>2. SUFFICES ASSUME parseByte \/ parseShort \/ parseInt \/ parseRawBytes \/ parseShorts \/ parseNullTermString \/ readNil
               PROVE  Reading
  BY DEF Next
<1> DEFINE op == Head(todo)
<1>3. /\ st = "run" /\ todo # <<>>
      /\ op.get \in {"byte", "short", "int", "raw", "shorts", "text", "nil"}
  BY <1>2 DEF parseByte, parseShort, parseInt, parseRawBytes, parseShorts, parseNullTermString, readNil, Running
<1>4. Proper(op.get, op.n, op.to) /\ op.n \in Nat /\ (op.get = "nil" => op.n = 0)
  BY <1>1, <1>3 DEF SoundEntries, Proper, Gets
<1>5. Len(buf) \in Nat /\ offset \in 0..Len(buf) /\ buf \in Seq(Byte)
  <2>1. buf \in Seq(Byte)
    BY WireAssumption, PacketType DEF WireType
  <2> QED
    BY <2>1 DEF WireType
<1>6. InBuffer => offset + op.n <= Len(buf) /\ Window = Taken
  BY <1>4, <1>5 DEF InBuffer, bytesRemaining, Window, Taken, Span
<1>7. offset + op.n <= Len(buf) => Taken \in Seq(Byte) /\ Len(Taken) = op.n
  BY <1>4, <1>5, TakenType DEF Taken, Span
<1>8. CASE parseByte
  <2>1. InBuffer /\ op.get = "byte" /\ Got(Window)
    BY <1>8 DEF parseByte, Running
  <2>2. ValueOf(op.get, Taken) = Taken
    BY <2>1 DEF ValueOf
  <2> QED
    BY <1>3, <1>6, <2>1, <2>2 DEF Reading, Gets
<1>9. CASE parseShort
  <2>1. InBuffer /\ op.get = "short" /\ Got(<<Short(Window)>>)
    BY <1>9 DEF parseShort, Running
  <2>2. ValueOf(op.get, Taken) = <<Short(Taken)>>
    BY <2>1 DEF ValueOf
  <2> QED
    BY <1>3, <1>6, <2>1, <2>2 DEF Reading, Gets
<1>10. CASE parseInt
  <2>1. InBuffer /\ op.get = "int" /\ Got(<<Int32(Window)>>)
    BY <1>10 DEF parseInt, Running
  <2>2. ValueOf(op.get, Taken) = <<Int32(Taken)>>
    BY <2>1 DEF ValueOf
  <2> QED
    BY <1>3, <1>6, <2>1, <2>2 DEF Reading, Gets
<1>11. CASE parseRawBytes
  <2>1. InBuffer /\ op.get = "raw" /\ Got(Window)
    BY <1>11 DEF parseRawBytes, Running
  <2>2. ValueOf(op.get, Taken) = Taken
    BY <2>1 DEF ValueOf
  <2> QED
    BY <1>3, <1>6, <2>1, <2>2 DEF Reading, Gets
<1>12. CASE parseShorts
  <2> DEFINE v(w, k) == [i \in 1..(k \div 2) |-> Short(SubSeq(w, 2 * i - 1, 2 * i))]
  <2>1. InBuffer /\ op.get = "shorts" /\ Got(v(Window, op.n))
    BY <1>12 DEF parseShorts, Running
  <2>2. ValueOf(op.get, Taken) = v(Taken, Len(Taken))
    BY <2>1 DEF ValueOf
  <2> HIDE DEF v
  <2>3. Window = Taken /\ Len(Taken) = op.n
    BY <1>6, <1>7, <2>1
  <2> QED
    BY <1>3, <1>6, <2>1, <2>2, <2>3 DEF Reading, Gets
<1>13. CASE parseNullTermString
  <2> DEFINE v(w) == IF w # <<>> /\ Last(w) = 0 THEN Front(w) ELSE w
  <2>1. InBuffer /\ op.get = "text" /\ Got(v(Window))
    BY <1>13 DEF parseNullTermString, Running
  <2>2. ValueOf(op.get, Taken) = v(Taken)
    BY <2>1 DEF ValueOf
  <2> HIDE DEF v
  <2> QED
    BY <1>3, <1>6, <2>1, <2>2 DEF Reading, Gets
<1>14. CASE readNil
  <2>1. op.get = "nil" /\ Got(<<>>)
    BY <1>14 DEF readNil, Running
  <2>2. ValueOf(op.get, Taken) = <<>>
    BY <2>1 DEF ValueOf
  <2>3. offset + op.n <= Len(buf)
    BY <1>4, <1>5, <2>1
  <2> QED
    BY <1>3, <2>1, <2>2, <2>3 DEF Reading, Gets
<1> QED
  BY <1>2, <1>8, <1>9, <1>10, <1>11, <1>12, <1>13, <1>14

\* What follows a read has lengths, too.
LEMMA ThenType ==
  ASSUME NEW to \in ToNames, NEW x \in Int, NEW v \in Int, offset \in Int
  PROVE  Then(to, x, v) \in Seq(SoundEntries)
<1>0. /\ \A o \in SoundEntries : <<o>> \in Seq(SoundEntries)
      /\ <<>> \in Seq(SoundEntries)
  OBVIOUS
<1>1. CASE to = "tupleCount"
  <2>1. Loop(v, "row") \in SoundEntries
    BY SoundReads
  <2> QED
    BY <1>0, <1>1, <2>1 DEF Then
<1>2. CASE to = "bindLen"
  <2>1. offset + 4 + v \in Int
    OBVIOUS
  <2>2. Until(offset + 4 + v, "paramSize") \in SoundEntries
    BY <2>1, SoundReads
  <2>3. Then(to, x, v) = <<Until(offset + 4 + v, "paramSize")>>
    BY <1>2 DEF Then
  <2> QED
    BY <1>0, <2>2, <2>3
<1>3. CASE to # "tupleCount" /\ to # "bindLen"
  <2>1. Then(to, x, v) = Follows(to, x, v)
    BY <1>3 DEF Then
  <2> QED
    BY <2>1, FollowsType
<1> QED
  BY <1>1, <1>2, <1>3

LEMMA ErrorReads ==
  ASSUME buf \in Seq(Byte)
  PROVE  raiseError \in Seq(SoundEntries)
<1>1. Len(buf) - 8 - 4 \in Int
  OBVIOUS
<1>2. "errCode" \in ToNames /\ "errMsg" \in ToNames
  BY Names DEF PlainNames
<1>3. "errCode" \notin ByteNames /\ "errMsg" \notin ByteNames
  BY DEF ByteNames
<1>4. "errMsg" \notin LeadNames
  BY Names DEF PlainNames
<1>5. GetInt("errCode") \in SoundEntries
  BY <1>2, <1>3, SoundReads
<1>6. GetText(Len(buf) - 8 - 4, "errMsg") \in SoundEntries
  BY <1>1, <1>2, <1>3, <1>4, SoundReads
<1> QED
  BY <1>5, <1>6 DEF raiseError

LEMMA TupleTypes ==
  ASSUME NEW S
  PROVE  /\ <<>> \in Seq(S)
         /\ \A a \in S : <<a>> \in Seq(S)
         /\ \A a, b \in S : <<a, b>> \in Seq(S)
         /\ \A a, b, c \in S : <<a, b, c>> \in Seq(S)
         /\ \A a, b, c, d \in S : <<a, b, c, d>> \in Seq(S)
         /\ \A a, b, c, d, e \in S : <<a, b, c, d, e>> \in Seq(S)
OBVIOUS

LEMMA LongTuple ==
  ASSUME NEW S, NEW a \in S, NEW b \in S, NEW c \in S, NEW d \in S, NEW e \in S, NEW f \in S
  PROVE  <<a, b, c, d, e, e, f, e, f, f, f, f, f, f, f>> \in Seq(S)
OBVIOUS

LEMMA ReadKinds ==
  /\ \A to \in PlainNames \cup ByteNames : GetByte(to) \in SoundEntries
  /\ \A to \in PlainNames \cup LeadNames : to \notin ByteNames => GetInt(to) \in SoundEntries
  /\ \A to \in PlainNames : /\ GetShort(to) \in SoundEntries
                            /\ \A n \in Nat : GetRaw(n, to) \in SoundEntries
                            /\ \A n \in Int : GetText(n, to) \in SoundEntries
<1>1. \A to \in PlainNames : to \in ToNames /\ to \notin ByteNames /\ to \notin LeadNames
  BY Names
<1>2. \A to \in LeadNames \cup ByteNames : to \in ToNames
  BY Names
<1> QED
  BY <1>1, <1>2, SoundReads

LEMMA EntryType ==
  ASSUME WireType
  PROVE  /\ parseColumnMetadata \in Seq(SoundEntries)
         /\ parseResultInfos \in Seq(SoundEntries)
         /\ parseRowData \in Seq(SoundEntries)
<1>0. "" \in PlainNames /\ "infoStmt" \in PlainNames /\ "infoCount" \in PlainNames
  BY DEF PlainNames
<1>1. "nameLen" \in LeadNames /\ "textLen" \in LeadNames
  BY DEF LeadNames, Leaders
<1>2. "nameLen" \notin ByteNames /\ "textLen" \notin ByteNames /\ "legacyType" \in ByteNames
  BY DEF ByteNames
<1>3. \A to \in PlainNames : GetInt(to) \in SoundEntries
  BY Names, ReadKinds
<1>4. parseColumnMetadata \in Seq(SoundEntries)
  <2>1. GetByte("legacyType") \in SoundEntries
    BY <1>2, ReadKinds
  <2>2. GetInt("nameLen") \in SoundEntries
    BY <1>1, <1>2, ReadKinds
  <2>3. GetInt("textLen") \in SoundEntries
    BY <1>1, <1>2, ReadKinds
  <2>4. GetByte("") \in SoundEntries /\ GetShort("") \in SoundEntries /\ GetInt("") \in SoundEntries
    BY <1>0, <1>3, ReadKinds
  <2> DEFINE a == GetByte("legacyType")
             b == GetShort("")
             c == GetInt("")
             d == GetInt("nameLen")
             e == GetInt("textLen")
             f == GetByte("")
  <2>5. parseColumnMetadata = <<a, b, c, d, e, e, f, e, f, f, f, f, f, f, f>>
    BY DEF parseColumnMetadata
  <2>6. a \in SoundEntries /\ b \in SoundEntries /\ c \in SoundEntries
    BY <2>1, <2>4
  <2>7. d \in SoundEntries /\ e \in SoundEntries /\ f \in SoundEntries
    BY <2>2, <2>3, <2>4
  <2> HIDE DEF a, b, c, d, e, f
  <2> QED
    BY <2>5, <2>6, <2>7, LongTuple
<1>5. parseResultInfos \in Seq(SoundEntries)
  <2>1. GetByte("infoStmt") \in SoundEntries /\ GetInt("infoCount") \in SoundEntries /\ GetInt("") \in SoundEntries
    BY <1>0, <1>3, ReadKinds
  <2>2. GetRaw(8, "") \in SoundEntries
    BY <1>0, ReadKinds
  <2> QED
    BY <2>1, <2>2, TupleTypes DEF parseResultInfos
<1>6. parseRowData \in Seq(SoundEntries)
  <2> DEFINE t(j) == IF meta.stmt = StmtCallSP THEN TypeNull ELSE meta.cols[j]
             c == [j \in DOMAIN meta.cols |-> SizeFor(t(j))]
             h == <<GetInt(""), GetRaw(8, "")>>
  <2>1. GetInt("") \in SoundEntries
    BY <1>0, <1>3
  <2>2. GetRaw(8, "") \in SoundEntries
    BY <1>0, ReadKinds
  <2>3. h \in Seq(SoundEntries)
    BY <2>1, <2>2, TupleTypes
  <2>4. ASSUME NEW j \in DOMAIN meta.cols PROVE SizeFor(t(j)) \in SoundEntries
    <3>1. t(j) \in Int
      <4>1. meta.cols[j] \in Byte
        BY DEF WireType
      <4>2. meta.cols[j] \in Int /\ TypeNull \in Int
        BY <4>1 DEF Byte, TypeNull
      <4> QED
        BY <4>2
    <3> HIDE DEF t
    <3> QED
      BY <3>1, SoundTypes
  <2>5. c \in Seq(SoundEntries)
    <3> HIDE DEF t
    <3>1. meta.cols \in Seq(Byte)
      BY DEF WireType
    <3> QED
      BY <2>4, <3>1
  <2> HIDE DEF c, h
  <2>6. h \o c \in Seq(SoundEntries)
    BY <2>3, <2>5
  <2> QED
    BY <2>6 DEF parseRowData, h, c
<1> QED
  BY <1>4, <1>5, <1>6

\* The parsers themselves.
LEMMA ProgramType ==
  ASSUME buf \in Seq(Byte), msg.ver \in Int
  PROVE  /\ Program \in Seq(SoundEntries)
         /\ Described \in Seq(SoundEntries) /\ Executed \in Seq(SoundEntries)
<1> DEFINE S == Seq(SoundEntries)
<1>1. \A to \in {"", "code", "handle", "total", "totalCount", "bindCount", "session", "dataLen"} :
        to \in PlainNames
  BY DEF PlainNames
<1>2. \A to \in PlainNames : GetInt(to) \in SoundEntries /\ GetByte(to) \in SoundEntries
  BY Names, ReadKinds
<1>3. /\ GetInt("") \in SoundEntries /\ GetByte("") \in SoundEntries /\ GetInt("code") \in SoundEntries
      /\ GetInt("handle") \in SoundEntries /\ GetInt("total") \in SoundEntries
      /\ GetInt("totalCount") \in SoundEntries /\ GetInt("bindCount") \in SoundEntries
      /\ GetInt("session") \in SoundEntries /\ GetInt("dataLen") \in SoundEntries
  BY <1>1, <1>2
<1>4. "fc" \in PlainNames /\ "fixed" \in PlainNames /\ "proto" \in PlainNames /\ "version" \in PlainNames
  BY DEF PlainNames
<1>5. "argLen" \in LeadNames /\ "bindLen" \in LeadNames /\ "colCount" \in LeadNames
  BY DEF LeadNames, Leaders, Counts, Special
<1>6. "resultCount" \in LeadNames /\ "tupleCount" \in LeadNames /\ "idLen" \in LeadNames
  BY DEF LeadNames, Leaders, Counts, Special
<1>7. "argLen" \notin ByteNames /\ "bindLen" \notin ByteNames /\ "colCount" \notin ByteNames
  BY DEF ByteNames
<1>8. "resultCount" \notin ByteNames /\ "tupleCount" \notin ByteNames /\ "idLen" \notin ByteNames
  BY DEF ByteNames
<1>9. GetInt("argLen") \in SoundEntries /\ GetInt("bindLen") \in SoundEntries /\ GetInt("colCount") \in SoundEntries
  BY <1>5, <1>7, ReadKinds
<1>10. GetInt("resultCount") \in SoundEntries /\ GetInt("tupleCount") \in SoundEntries /\ GetInt("idLen") \in SoundEntries
  BY <1>6, <1>8, ReadKinds
<1>11. GetByte("stmtType") \in SoundEntries
  BY ReadKinds DEF ByteNames
<1>12. Inline \in SoundEntries
  BY SoundReads
<1>13. \A n \in Nat : GetRaw(n, "") \in SoundEntries /\ GetRaw(n, "fixed") \in SoundEntries /\ GetRaw(n, "proto") \in SoundEntries
  BY <1>1, <1>4, ReadKinds
<1>14. Len(buf) \in Nat
  OBVIOUS
<1>15. GetText(Len(buf) - 8, "version") \in SoundEntries
  <2>1. Len(buf) - 8 \in Int
    BY <1>14
  <2> QED
    BY <1>4, <2>1, ReadKinds
<1>16. Until(Len(buf), "argLen") \in SoundEntries
  <2>1. Len(buf) \in Int
    BY <1>14
  <2> QED
    BY <2>1, SoundReads
<1>17. \A u, w \in S : u \o w \in S
  OBVIOUS
<1>18. Described \in S
  BY <1>3, <1>9, <1>11, TupleTypes DEF Described
<1>19. Executed \in S
  <2> DEFINE a == <<GetByte(""), GetInt("resultCount")>>
             b == IF msg.ver > 1 THEN <<GetByte("")>> ELSE <<>>
             c == IF msg.ver > 4 THEN <<GetInt("")>> ELSE <<>>
             d == <<Inline>>
  <2>1. a \in S /\ b \in S /\ c \in S /\ d \in S
    BY <1>3, <1>10, <1>12, TupleTypes
  <2> HIDE DEF a, b, c, d
  <2>2. a \o b \o c \o d \in S
    BY <1>17, <2>1
  <2> QED
    BY <2>2 DEF Executed, a, b, c, d
<1>20. <<GetRaw(4, "")>> \in S
  <2>1. GetRaw(4, "") \in SoundEntries
    BY <1>13
  <2> QED
    BY <2>1, TupleTypes
<1>21. ParsePrepareAndExecute \in S
  <2>1. <<GetInt("handle")>> \in S /\ <<GetInt("totalCount")>> \in S
    BY <1>3, TupleTypes
  <2> HIDE DEF S
  <2>2. <<GetInt("handle")>> \o Described \o <<GetInt("totalCount")>> \o Executed \in S
    BY <1>17, <1>18, <1>19, <2>1
  <2> QED
    BY <2>2 DEF ParsePrepareAndExecute
<1>22. ParsePrepare \in S /\ ParseExecute \in S
  <2>1. <<GetInt("handle")>> \in S /\ <<GetInt("total")>> \in S
    BY <1>3, TupleTypes
  <2> HIDE DEF S
  <2>2. <<GetInt("handle")>> \o Described \in S /\ <<GetInt("total")>> \o Executed \in S
    BY <1>17, <1>18, <1>19, <2>1
  <2> QED
    BY <2>2 DEF ParsePrepare, ParseExecute
<1>23. ParseFetch \in S /\ ParseSimpleResponse \in S /\ ParseGetLastInsertId \in S
  BY <1>3, <1>10, TupleTypes DEF ParseFetch, ParseSimpleResponse, ParseGetLastInsertId
<1>24. ParseGetDbVersion \in S
  BY <1>3, <1>15, TupleTypes DEF ParseGetDbVersion
<1>25. ParseOpenDatabase \in S
  <2>1. GetRaw(16, "proto") \in SoundEntries
    BY <1>13
  <2> QED
    BY <1>3, <2>1, TupleTypes DEF ParseOpenDatabase
<1>26. ReadOpenDatabase \in S
  <2>0. 32 \in Nat /\ 532 \in Nat
    OBVIOUS
  <2>1. GetRaw(32, "fixed") \in SoundEntries /\ GetRaw(532, "") \in SoundEntries
    BY <1>13, <2>0, ZenonT(40)
  <2> DEFINE a == GetRaw(32, "fixed")
             b == GetRaw(532, "")
  <2>2. a \in SoundEntries /\ b \in SoundEntries /\ ReadOpenDatabase = <<a, a, a, b>>
    BY <2>1 DEF ReadOpenDatabase
  <2> HIDE DEF a, b
  <2>3. <<a, a, a, b>> \in S
    BY <2>2, TupleTypes
  <2> QED
    BY <2>2, <2>3
<1>27. ReadRequest \in S
  <2> DEFINE a == <<GetInt("dataLen"), GetRaw(4, ""), GetByte("fc")>>
             b == IF msg.p = "WriteExecute"
                  THEN <<GetInt("argLen"), GetInt("argLen"), GetInt("argLen"), GetInt("argLen"), GetInt("bindLen")>> ELSE <<>>
             c == <<Until(Len(buf), "argLen")>>
  <2>0. GetByte("fc") \in SoundEntries /\ GetRaw(4, "") \in SoundEntries
    BY <1>2, <1>4, <1>13
  <2>1. a \in S /\ b \in S /\ c \in S
    BY <1>3, <1>9, <1>16, <2>0, TupleTypes
  <2> HIDE DEF a, b, c
  <2>2. a \o b \o c \in S
    BY <1>17, <2>1
  <2> QED
    BY <2>2 DEF ReadRequest, a, b, c
<1> DEFINE k == <<GetRaw(4, "")>>
<1>28. /\ Program \in {k \o ParsePrepareAndExecute, k \o ParsePrepare, k \o ParseExecute, k \o ParseFetch,
                       k \o ParseSimpleResponse, k \o ParseGetDbVersion, k \o ParseGetLastInsertId,
                       k \o ParseOpenDatabase, ReadOpenDatabase, ReadRequest}
  BY DEF Program
<1> HIDE DEF k, S
<1>29. /\ k \o ParsePrepareAndExecute \in S /\ k \o ParsePrepare \in S /\ k \o ParseExecute \in S
       /\ k \o ParseFetch \in S /\ k \o ParseSimpleResponse \in S /\ k \o ParseGetDbVersion \in S
       /\ k \o ParseGetLastInsertId \in S /\ k \o ParseOpenDatabase \in S
  BY <1>17, <1>20, <1>21, <1>22, <1>23, <1>24, <1>25 DEF k
<1>30. Program \in S
  BY <1>26, <1>27, <1>28, <1>29
<1> QED
  BY <1>18, <1>19, <1>30 DEF S

\* A read keeps the types; those of columns and of the statement are bytes.
LEMMA ReadingType ==
  ASSUME WireType, Reading
  PROVE  WireType'
<1> DEFINE op == Head(todo)
           v == ValueOf(op.get, Taken)
           f == IF v = <<>> THEN 0 ELSE v[1]
<1>1. buf \in Seq(Byte) /\ Len(buf) \in Nat
  BY WireAssumption, PacketType DEF WireType
<1>2. op \in SoundEntries /\ op \in Entries /\ Proper(op.get, op.n, op.to) /\ Tail(todo) \in Seq(SoundEntries)
  BY DEF WireType, Reading, SoundEntries
<1>3. op.get \in Gets /\ op.to \in ToNames /\ op.x \in Int
  BY <1>2 DEF Reading, Entries
<1>4. op.n \in Nat /\ offset \in 0..Len(buf) /\ offset + op.n <= Len(buf)
  BY <1>2 DEF Reading, WireType, Proper
<1>5. Taken \in Seq(Byte) /\ Len(Taken) = op.n
  BY <1>1, <1>4, TakenType DEF Taken, Span
<1>6. v \in Seq(Int) /\ (op.get = "byte" => v # <<>> /\ v[1] \in Byte)
  BY <1>2, <1>3, <1>4, <1>5, ValueType
<1>7. Got(v)
  BY DEF Reading
<1> HIDE DEF v
<1>8. f \in Int
  BY <1>6
<1> HIDE DEF f
<1>9. op.to \in ByteNames => op.get = "byte"
  BY <1>2, <1>3 DEF Proper
<1>10. /\ msg' = msg /\ buf' = buf /\ offset' = offset + op.n
       /\ st' \in {"run", "panic"}
       /\ todo' = raiseError \/ todo' = Then(op.to, op.x, f) \o Tail(todo)
       /\ meta'.cols = meta.cols \o ColumnTypes(op.to, v)
       /\ meta'.stmt = IF op.to = "stmtType" THEN v[1] ELSE meta.stmt
  BY <1>7 DEF Got, f
<1>11. todo' \in Seq(SoundEntries)
  <2>1. raiseError \in Seq(SoundEntries)
    BY <1>1, ErrorReads
  <2>2. Then(op.to, op.x, f) \in Seq(SoundEntries)
    <3>1. offset \in Int
      BY <1>4
    <3> QED
      BY <1>3, <1>8, <3>1, ThenType
  <2>3. \A a, b \in Seq(SoundEntries) : a \o b \in Seq(SoundEntries)
    OBVIOUS
  <2> QED
    BY <1>2, <1>10, <2>1, <2>2, <2>3
<1>12. ColumnTypes(op.to, v) \in Seq(Byte)
  <2>1. CASE op.to \in {"colType", "legacyType"}
    <3>1. op.get = "byte"
      BY <1>9, <2>1 DEF ByteNames
    <3>2. <<v[1]>> \in Seq(Byte) /\ <<>> \in Seq(Byte)
      BY <1>6, <3>1
    <3> QED
      BY <3>2 DEF ColumnTypes
  <2>2. CASE op.to \notin {"colType", "legacyType"}
    <3>1. ColumnTypes(op.to, v) = <<>>
      BY <2>2 DEF ColumnTypes
    <3> QED
      BY <3>1, TupleTypes
  <2> QED
    BY <2>1, <2>2
<1>13. meta'.cols \in Seq(Byte)
  <2>1. meta.cols \in Seq(Byte)
    BY DEF WireType
  <2>2. \A a, b \in Seq(Byte) : a \o b \in Seq(Byte)
    OBVIOUS
  <2> QED
    BY <1>10, <1>12, <2>1, <2>2
<1>14. meta'.stmt \in Int
  <2>1. CASE op.to = "stmtType"
    <3>1. v[1] \in Byte
      BY <1>6, <1>9, <2>1 DEF ByteNames
    <3>2. v[1] \in Int
      BY <3>1 DEF Byte
    <3> QED
      BY <1>10, <2>1, <3>2
  <2>2. CASE op.to # "stmtType"
    BY <1>10, <2>2 DEF WireType
  <2> QED
    BY <2>1, <2>2
<1>15. offset' \in 0..Len(buf')
  BY <1>1, <1>4, <1>10
<1>16. msg' \in Messages /\ buf' = Bytes(msg')
  BY <1>10 DEF WireType
<1>17. st' \in {"run", "done", "panic"}
  BY <1>10
<1> QED
  BY <1>11, <1>13, <1>14, <1>15, <1>16, <1>17 DEF WireType

LEMMA ExpandType ==
  ASSUME WireType, NEW reads \in Seq(SoundEntries), todo # <<>>, Expand(reads)
  PROVE  WireType'
<1>1. Tail(todo) \in Seq(SoundEntries)
  BY DEF WireType
<1>2. todo' \in Seq(SoundEntries)
  BY <1>1 DEF Expand
<1>3. /\ msg' = msg /\ buf' = buf /\ offset' = offset /\ meta' = meta /\ st' = st
  BY DEF Expand
<1> QED
  BY <1>2, <1>3 DEF WireType

LEMMA WireTypeInit ==
  ASSUME Init
  PROVE  WireType
<1>1. IsMessage(msg) /\ msg \in Messages
  BY WireAssumption DEF Init
<1>2. buf = Bytes(msg) /\ buf \in Seq(Byte) /\ offset = 0
  BY <1>1, PacketType DEF Init
<1>3. msg.ver \in Int /\ msg.cols \in Seq(Column) /\ msg.stmt \in Byte
  <2>1. msg.ver \in 0..63
    BY <1>1, MessageType
  <2>2. msg.cols \in Seq(Column) /\ msg.stmt \in Byte
    BY <1>1, MessageType
  <2>3. msg.ver \in Int
    BY <2>1
  <2> QED
    BY <2>2, <2>3
<1>4. todo \in Seq(SoundEntries)
  BY <1>2, <1>3, ProgramType DEF Init
<1>5. /\ meta.stmt \in {msg.stmt, 0}
      /\ meta.cols \in {[j \in DOMAIN msg.cols |-> msg.cols[j].t], <<>>}
  BY DEF Init
<1>6. meta.stmt \in Int
  <2>1. msg.stmt \in Byte
    BY <1>3
  <2>2. \A b \in Byte : b \in Int
    BY DEF Byte
  <2> QED
    BY <1>5, <2>1, <2>2
<1>7. meta.cols \in Seq(Byte)
  <2>1. \A c \in Column : c.t \in Byte
    BY DEF Column, Byte
  <2>2. [j \in DOMAIN msg.cols |-> msg.cols[j].t] \in Seq(Byte)
    BY <1>3, <2>1
  <2>3. <<>> \in Seq(Byte)
    OBVIOUS
  <2> QED
    BY <1>5, <2>2, <2>3
<1>8. offset \in 0..Len(buf)
  BY <1>2
<1> QED
  BY <1>1, <1>2, <1>4, <1>6, <1>7, <1>8 DEF WireType, Init

LEMMA WireTypeStep ==
  ASSUME WireType, [Next]_vars
  PROVE  WireType'
<1>1. CASE UNCHANGED vars
  BY <1>1 DEF WireType, vars
<1>2. CASE Reading
  BY <1>2, ReadingType
<1>3. CASE DoLoop
  <2> DEFINE op == Head(todo)
             r == IF op.n > 0 THEN Entry(op.to) \o <<Loop(op.n - 1, op.to)>> ELSE <<>>
  <2>1. todo # <<>> /\ op.get = "loop" /\ Expand(r)
    BY <1>3 DEF DoLoop, Running
  <2>2. op.n \in Int /\ op.to \in {"column", "info", "row"}
    BY <2>1 DEF WireType, SoundEntries, Entries, Proper
  <2>3. r \in Seq(SoundEntries)
    <3>1. Entry(op.to) \in Seq(SoundEntries)
      BY <2>2, EntryType DEF Entry
    <3>2. op.n - 1 \in Int
      BY <2>2
    <3>3. Loop(op.n - 1, op.to) \in SoundEntries
      BY <2>2, <3>2, SoundReads
    <3>4. <<Loop(op.n - 1, op.to)>> \in Seq(SoundEntries) /\ <<>> \in Seq(SoundEntries)
      BY <3>3, TupleTypes
    <3>5. \A a, b \in Seq(SoundEntries) : a \o b \in Seq(SoundEntries)
      OBVIOUS
    <3> QED
      BY <3>1, <3>4, <3>5
  <2> HIDE DEF r
  <2> QED
    BY <2>1, <2>3, ExpandType
<1>4. CASE DoUntil
  <2> DEFINE op == Head(todo)
             r == IF offset < op.n THEN <<GetInt(op.to), op>> ELSE <<>>
  <2>1. todo # <<>> /\ op.get = "until" /\ Expand(r)
    BY <1>4 DEF DoUntil, Running
  <2>2. op \in SoundEntries /\ op.to \in {"argLen", "paramSize"}
    BY <2>1 DEF WireType, SoundEntries, Proper
  <2>3. r \in Seq(SoundEntries)
    <3>1. op.to \in LeadNames
      BY <2>2 DEF LeadNames, Leaders
    <3>2. op.to \notin ByteNames
      BY <2>2 DEF ByteNames
    <3>3. GetInt(op.to) \in SoundEntries
      BY <3>1, <3>2, ReadKinds
    <3> QED
      BY <2>2, <3>3, TupleTypes
  <2> HIDE DEF r
  <2> QED
    BY <2>1, <2>3, ExpandType
<1>5. CASE DoInline
  <2> DEFINE r == IF meta.stmt = StmtSelect /\ bytesRemaining >= 8 THEN <<GetInt(""), GetInt("tupleCount")>> ELSE <<>>
  <2>1. todo # <<>> /\ Expand(r)
    BY <1>5 DEF DoInline, Running
  <2>2. r \in Seq(SoundEntries)
    <3>1. "tupleCount" \in LeadNames /\ "" \in PlainNames
      BY DEF LeadNames, Special, PlainNames
    <3>2. "tupleCount" \notin ByteNames /\ "" \notin ByteNames
      BY DEF ByteNames
    <3>3. GetInt("tupleCount") \in SoundEntries /\ GetInt("") \in SoundEntries
      BY <3>1, <3>2, ReadKinds
    <3> QED
      BY <3>3, TupleTypes
  <2> HIDE DEF r
  <2> QED
    BY <2>1, <2>2, ExpandType
<1>6. CASE Done
  BY <1>6 DEF Done, WireType
<1>7. CASE Panic
  BY <1>7 DEF Panic, WireType
<1> QED
  BY <1>1, <1>2, <1>3, <1>4, <1>5, <1>6, <1>7, StepKinds

LEMMA WireTypeAlways == Spec => []WireType
<1>1. Init => WireType
  BY WireTypeInit
<1>2. WireType /\ [Next]_vars => WireType'
  BY WireTypeStep
<1> QED
  BY <1>1, <1>2, PTL DEF Spec

\* No parser ever reads outside of its packet, whatever the packet and whatever
\* is in it, and column types are bytes.
THEOREM WireTypeCorrect == Spec => []TypeOK
<1>1. WireType => TypeOK
  <2> SUFFICES ASSUME WireType PROVE TypeOK
    OBVIOUS
  <2>1. meta.cols \in Seq(Byte) /\ offset \in 0..Len(buf) /\ st \in {"run", "done", "panic"}
    BY DEF WireType
  <2>2. \A i \in DOMAIN meta.cols : meta.cols[i] \in 0..255
    <3>1. \A i \in DOMAIN meta.cols : meta.cols[i] \in Byte
      BY <2>1
    <3> QED
      BY <3>1 DEF Byte
  <2> QED
    BY <2>1, <2>2 DEF TypeOK
<1> QED
  BY <1>1, WireTypeAlways, PTL

-----------------------------------------------------------------------------
(***************************************************************************)
(* What is left of the packet.                                             *)
(***************************************************************************)
RestOf(b, k) == SubSeq(b, k + 1, Len(b))

\* What follows the offset k in b is w, then r.
Cut(b, k, w, r) ==
  k + Len(w) \in 0..Len(b) /\ Span(b, k, Len(w)) = w /\ RestOf(b, k + Len(w)) = r
Rest == RestOf(buf, offset)

LEMMA TakeRest ==
  ASSUME NEW b \in Seq(Byte), NEW k \in 0..Len(b), NEW w \in Seq(Byte), NEW r \in Seq(Byte),
         RestOf(b, k) = w \o r
  PROVE  Cut(b, k, w, r)
<1> DEFINE n == Len(b)
           p == Len(w)
           q == Len(r)
           s == w \o r
<1>1. n \in Nat /\ p \in Nat /\ q \in Nat /\ k \in Int /\ 0 <= k /\ k <= n
  BY LenProperties
<1>2. /\ Len(s) = p + q /\ \A i \in 1..p : s[i] = w[i]
      /\ \A i \in 1..q : s[p + i] = r[i]
  BY Joined
<1>3. Len(s) = n - k /\ \A i \in 1..n - k : s[i] = b[k + i]
  <2>1. k + (n - k) = n /\ n - k \in Nat /\ k + (n - k) <= Len(b)
    BY <1>1
  <2>2. s = SubSeq(b, k + 1, n) /\ Len(SubSeq(b, k + 1, n)) = n - k
    <3>0. s = SubSeq(b, k + 1, n)
      BY DEF RestOf
    <3>1. Len(SubSeq(b, k + 1, k + (n - k))) = n - k
      BY <2>1, TakenType
    <3> QED
      BY <2>1, <3>0, <3>1
  <2>3. ASSUME NEW i \in 1..n - k PROVE SubSeq(b, k + 1, n)[i] = b[k + i]
    <3>1. k + 1 + i - 1 = k + i /\ k + 1 \in Int
      BY <1>1
    <3>2. i \in 1..Len(SubSeq(b, k + 1, n))
      BY <2>2
    <3> QED
      BY <1>1, <2>3, <3>1, <3>2, SMTT(40)
  <2> QED
    BY <2>2, <2>3
<1>4. p + q = n - k /\ k + p \in 0..n
  BY <1>1, <1>2, <1>3
<1> HIDE DEF n, p, q, s
<1>5. SubSeq(b, k + 1, k + p) = w
  <2> DEFINE t == SubSeq(b, k + 1, k + p)
  <2>1. t \in Seq(Byte) /\ Len(t) = p
    BY <1>1, <1>4, TakenType DEF n
  <2>2. ASSUME NEW i \in 1..p PROVE t[i] = w[i]
    <3>1. t[i] = b[k + i]
      BY <1>1, <2>1
    <3>2. i \in 1..n - k
      BY <1>1, <1>4
    <3> QED
      BY <1>2, <1>3, <3>1, <3>2
  <2> HIDE DEF t
  <2>3. t = w
    BY <2>1, <2>2, SeqEqual DEF p
  <2> QED
    BY <2>3 DEF t
<1>6. SubSeq(b, k + p + 1, n) = r
  <2> DEFINE h == k + p
             t == SubSeq(b, h + 1, h + q)
  <2>1. h \in 0..n /\ h + q = n
    BY <1>1, <1>4
  <2> HIDE DEF h
  <2>2. t \in Seq(Byte) /\ Len(t) = q
    BY <1>1, <2>1, TakenType DEF n
  <2>3. ASSUME NEW i \in 1..q PROVE t[i] = r[i]
    <3>0. h \in Int /\ h + 1 + i - 1 = h + i /\ i \in 1..(h + q) - (h + 1) + 1
      BY <1>1, <2>1
    <3>a. \A j \in h + 1..h + q : b[j] \in Byte
      BY <1>1, <2>1 DEF n
    <3>b. h + 1 \in Int /\ h + q \in Int
      BY <1>1, <2>1
    <3>c. t[i] = b[h + 1 + i - 1]
      BY <3>0, <3>a, <3>b, SubSeqProperties
    <3>1. t[i] = b[h + i]
      BY <3>0, <3>c
    <3>2. p + i \in 1..n - k /\ h + i = k + (p + i)
      BY <1>1, <1>4 DEF h
    <3>3. s[p + i] = b[h + i]
      BY <1>3, <3>2
    <3> QED
      BY <1>2, <3>1, <3>3
  <2> HIDE DEF t
  <2>4. t = r
    BY <2>2, <2>3, SeqEqual DEF q
  <2>5. SubSeq(b, h + 1, n) = r
    BY <2>1, <2>4 DEF t
  <2> QED
    BY <2>5 DEF h
<1> QED
  BY <1>4, <1>5, <1>6 DEF p, n, Span, RestOf, Cut

\* With w in front of the packet, and a read of that length to do, a step can
\* only be that read.
LEMMA ReadsNext ==
  ASSUME WireType, Next, todo # <<>>, Head(todo).get \in Gets,
         NEW w \in Seq(Byte), NEW r \in Seq(Byte), Rest = w \o r, Head(todo).n = Len(w)
  PROVE  /\ Reading /\ Got(ValueOf(Head(todo).get, w))
         /\ offset' = offset + Len(w) /\ Rest' = r
<1> DEFINE op == Head(todo)
<1>1. buf \in Seq(Byte) /\ Len(buf) \in Nat /\ offset \in 0..Len(buf)
  <2>1. buf \in Seq(Byte)
    BY WireAssumption, PacketType DEF WireType
  <2> QED
    BY <2>1 DEF WireType
<1>2. /\ offset + op.n \in 0..Len(buf) /\ Taken = w
      /\ RestOf(buf, offset + op.n) = r
  <2>1. RestOf(buf, offset) = w \o r
    BY DEF Rest
  <2>2. Cut(buf, offset, w, r)
    BY <1>1, <2>1, TakeRest
  <2> QED
    BY <2>2 DEF Taken, Cut
<1>3. op.n \in Nat
  OBVIOUS
<1>4. InBuffer
  BY <1>1, <1>2, <1>3 DEF InBuffer, bytesRemaining
<1>5. op.get \notin {"loop", "until", "inline"}
  BY DEF Gets
<1>6. Reading
  <2>1. ~Panic
    BY <1>4 DEF Panic
  <2>2. ~DoLoop /\ ~DoUntil /\ ~DoInline
    BY <1>5 DEF DoLoop, DoUntil, DoInline, Running
  <2>3. ~Done
    BY DEF Done
  <2> QED
    BY <2>1, <2>2, <2>3, StepKinds
<1>7. Got(ValueOf(op.get, w))
  BY <1>2, <1>6 DEF Reading
<1>8. offset' = offset + op.n /\ buf' = buf
  BY <1>7 DEF Got
<1>9. Rest' = RestOf(buf', offset')
  BY DEF Rest
<1> QED
  BY <1>2, <1>6, <1>7, <1>8, <1>9

-----------------------------------------------------------------------------
(***************************************************************************)
(* Errors.  A parser is five reads away from the end of an error: CAS_INFO *)
(* and the negative code, which it takes for its own first field, then the *)
(* code, the message, and nothing.                                         *)
(***************************************************************************)
Codes == {"handle", "total", "code", "idLen"}
Blame == writeInt(-1)
Code(m) == writeInt(m.err[1])
Because(m) == m.text \o <<0>>

Reported(m) ==
  <<One("errCode", m.err[1]), <<"errMsg", m.text>>, <<"errClass", m.err[2]>>>>

Stage1 ==
  /\ Rest = writeFiller(4) \o (Blame \o (Code(msg) \o Because(msg))) /\ offset = 0 /\ out = <<>>
  /\ \E to \in Codes, ops \in Seq(SoundEntries) : todo = <<GetRaw(4, "")>> \o (<<GetInt(to)>> \o ops)

Stage2 ==
  /\ Rest = Blame \o (Code(msg) \o Because(msg)) /\ offset = 4 /\ out = <<>>
  /\ \E to \in Codes, ops \in Seq(SoundEntries) : todo = <<GetInt(to)>> \o ops

Stage3 == Rest = Code(msg) \o Because(msg) /\ offset = 8 /\ out = <<>> /\ todo = raiseError

Stage4 ==
  /\ Rest = Because(msg) /\ offset = 12 /\ out = <<One("errCode", msg.err[1])>>
  /\ todo = <<GetText(Len(buf) - 8 - 4, "errMsg")>>

Stage5 == Rest = <<>> /\ out = Reported(msg) /\ todo = <<>>

Fails == msg.p \in Parsers /\ msg.err # <<>>

Reporting ==
  Fails => \/ st = "run" /\ (Stage1 \/ Stage2 \/ Stage3 \/ Stage4 \/ Stage5)
           \/ st = "done" /\ Stage5

LEMMA ErrorType ==
  ASSUME NEW m, IsMessage(m), m.err # <<>>
  PROVE  /\ m.err[1] \in Number32 /\ m.err[1] \in Int /\ m.err[2] = newError(m.text)
         /\ m.text \in Seq(Byte) /\ Blame \in Seq(Byte) /\ Len(Blame) = 4
         /\ Code(m) \in Seq(Byte) /\ Len(Code(m)) = 4
         /\ Because(m) \in Seq(Byte) /\ Len(Because(m)) = Len(m.text) + 1
         /\ writeFiller(4) \in Seq(Byte) /\ Len(writeFiller(4)) = 4
         /\ Blame \o (Code(m) \o Because(m)) \in Seq(Byte)
         /\ Code(m) \o Because(m) \in Seq(Byte)
<1>1. IsError(m) /\ m.text \in Seq(Byte)
  BY MessageType DEF IsMessage
<1>2. m.err[1] \in Number32 /\ m.err[1] \in Int /\ m.err[2] = newError(m.text)
  BY <1>1, Bounds DEF IsError
<1>3. -1 \in Int /\ 4 \in Nat
  OBVIOUS
<1>4. Blame \in Seq(Byte) /\ Len(Blame) = 4
  BY <1>3, WordType DEF Blame
<1>5. Code(m) \in Seq(Byte) /\ Len(Code(m)) = 4
  BY <1>2, WordType DEF Code
<1>6. Because(m) \in Seq(Byte) /\ Len(Because(m)) = Len(m.text) + 1
  BY <1>1, TextBytes DEF Because
<1>7. writeFiller(4) \in Seq(Byte) /\ Len(writeFiller(4)) = 4
  BY <1>3, FillerType
<1>8. \A u, w \in Seq(Byte) : u \o w \in Seq(Byte)
  OBVIOUS
<1>9. Code(m) \o Because(m) \in Seq(Byte)
  BY <1>5, <1>6, <1>8
<1>10. Blame \o (Code(m) \o Because(m)) \in Seq(Byte)
  BY <1>4, <1>8, <1>9
<1> QED
  BY <1>1, <1>2, <1>4, <1>5, <1>6, <1>7, <1>9, <1>10

LEMMA ErrorPacket ==
  ASSUME NEW m, IsMessage(m), m.p \in Parsers, m.err # <<>>
  PROVE  Bytes(m) = writeFiller(4) \o (Blame \o (Code(m) \o Because(m)))
<1> DEFINE a == Blame
           b == Code(m)
           c == m.text
           d == <<0>>
<1>1. a \in Seq(Byte) /\ b \in Seq(Byte) /\ c \in Seq(Byte)
  BY ErrorType
<1>2. d \in Seq(Byte)
  BY Constants
<1>3. AnswerBytes(m) = a \o b \o c \o d
  BY DEF AnswerBytes, Blame, Code
<1>4. Bytes(m) = writeFiller(4) \o AnswerBytes(m)
  BY DEF Bytes, Parsers
<1>5. Because(m) = c \o d
  BY DEF Because
<1> HIDE DEF a, b, c, d
<1>6. a \o b \in Seq(Byte) /\ c \o d \in Seq(Byte)
  BY <1>1, <1>2
<1>7. (a \o b) \o c \o d = (a \o b) \o (c \o d)
  BY <1>1, <1>2, <1>6, Assoc, SMTT(40)
<1>8. (a \o b) \o (c \o d) = a \o (b \o (c \o d))
  BY <1>1, <1>6, Assoc, SMTT(40)
<1>9. AnswerBytes(m) = a \o (b \o (c \o d))
  BY <1>3, <1>7, <1>8
<1> QED
  BY <1>4, <1>5, <1>9 DEF a, b

\* Every parser reads CAS_INFO, then a code that is negative for an error.
LEMMA TupleSplits ==
  ASSUME NEW S
  PROVE  /\ \A a \in S : <<a>> = <<a>> \o <<>>
         /\ \A a, b \in S : <<a, b>> = <<a>> \o <<b>>
         /\ \A a, b, c \in S : <<a, b, c>> = <<a>> \o <<b, c>>
<1>1. ASSUME NEW a \in S PROVE <<a>> = <<a>> \o <<>>
  <2>1. <<a>> \in Seq(S)
    OBVIOUS
  <2> QED
    BY <2>1, ConcatEmptySeq
<1>2. ASSUME NEW a \in S, NEW b \in S PROVE <<a, b>> = <<a>> \o <<b>>
  <2>1. <<a>> \o <<b>> \in Seq(S) /\ <<a, b>> \in Seq(S) /\ Len(<<a>> \o <<b>>) = 2
    OBVIOUS
  <2>2. \A i \in 1..2 : (<<a>> \o <<b>>)[i] = <<a, b>>[i]
    OBVIOUS
  <2> QED
    BY <2>1, <2>2, SeqEqual
<1>3. ASSUME NEW a \in S, NEW b \in S, NEW c \in S PROVE <<a, b, c>> = <<a>> \o <<b, c>>
  <2>1. <<a>> \o <<b, c>> \in Seq(S) /\ <<a, b, c>> \in Seq(S) /\ Len(<<a>> \o <<b, c>>) = 3
    OBVIOUS
  <2>2. \A i \in 1..3 : (<<a>> \o <<b, c>>)[i] = <<a, b, c>>[i]
    OBVIOUS
  <2> QED
    BY <2>1, <2>2, SeqEqual
<1> QED
  BY <1>1, <1>2, <1>3

LEMMA ProgramStarts ==
  ASSUME parser \in Parsers, buf \in Seq(Byte), msg.ver \in Int
  PROVE  \E to \in Codes, ops \in Seq(SoundEntries) : Program = <<GetRaw(4, "")>> \o (<<GetInt(to)>> \o ops)
<1> DEFINE k == <<GetRaw(4, "")>>
           S == SoundEntries
<1>1. /\ "handle" \in Codes /\ "total" \in Codes /\ "code" \in Codes /\ "idLen" \in Codes
  BY DEF Codes
<1>2. Described \in Seq(S) /\ Executed \in Seq(S)
  BY ProgramType
<1>3. SUFFICES \E to \in Codes, ops \in Seq(S) : Program = k \o (<<GetInt(to)>> \o ops)
  OBVIOUS
<1>a. /\ "code" \in PlainNames /\ "handle" \in PlainNames /\ "total" \in PlainNames
      /\ "totalCount" \in PlainNames
  BY DEF PlainNames
<1>b. "session" \in PlainNames /\ "version" \in PlainNames /\ "proto" \in PlainNames
  BY DEF PlainNames
<1>c. \A to \in PlainNames : GetInt(to) \in S
  BY Names, ReadKinds
<1>d. GetInt("idLen") \in S /\ GetInt("tupleCount") \in S
  <2>1. "idLen" \in LeadNames /\ "tupleCount" \in LeadNames
    BY DEF LeadNames, Leaders, Special
  <2>2. "idLen" \notin ByteNames /\ "tupleCount" \notin ByteNames
    BY DEF ByteNames
  <2> QED
    BY <2>1, <2>2, ReadKinds
<1>e. GetInt("handle") \in S /\ GetInt("total") \in S /\ GetInt("code") \in S
  BY <1>a, <1>c
<1>f. GetInt("totalCount") \in S /\ GetInt("session") \in S
  BY <1>a, <1>b, <1>c
<1>g. GetText(Len(buf) - 8, "version") \in S
  <2>1. Len(buf) - 8 \in Int
    OBVIOUS
  <2> QED
    BY <1>b, <2>1, ReadKinds
<1>h. GetRaw(16, "proto") \in S
  BY <1>b, ReadKinds
<1> HIDE DEF S
<1>4. CASE parser = "ParsePrepareAndExecute"
  <2> DEFINE h == <<GetInt("handle")>>
             t == <<GetInt("totalCount")>>
             d == Described
             e == Executed
  <2>1. Program = k \o (h \o d \o t \o e)
    BY <1>4 DEF Program, ParsePrepareAndExecute
  <2>2. h \in Seq(S) /\ t \in Seq(S) /\ d \in Seq(S) /\ e \in Seq(S)
    BY <1>2, <1>e, <1>f, TupleTypes
  <2> HIDE DEF h, t, d, e, k
  <2>3. d \o t \in Seq(S) /\ d \o t \o e \in Seq(S)
    BY <2>2
  <2>a. \A u, v, w \in Seq(S) : (u \o v) \o w = u \o (v \o w)
    BY Assoc, SMTT(40)
  <2>4. h \o d \o t = h \o (d \o t)
    BY <2>2, <2>a
  <2>5. h \o (d \o t) \o e = h \o (d \o t \o e)
    BY <2>2, <2>3, <2>a, ZenonT(40)
  <2>6. Program = k \o (h \o (d \o t \o e))
    BY <2>1, <2>4, <2>5
  <2> QED
    BY <1>1, <2>3, <2>6 DEF h
<1>5. CASE parser = "ParsePrepare"
  <2>1. Program = k \o (<<GetInt("handle")>> \o Described)
    BY <1>5 DEF Program, ParsePrepare
  <2> QED
    BY <1>1, <1>2, <2>1
<1>6. CASE parser = "ParseExecute"
  <2>1. Program = k \o (<<GetInt("total")>> \o Executed)
    BY <1>6 DEF Program, ParseExecute
  <2> QED
    BY <1>1, <1>2, <2>1
<1>7. CASE parser = "ParseFetch"
  <2>1. Program = k \o <<GetInt("code"), GetInt("tupleCount")>>
    BY <1>7 DEF Program, ParseFetch
  <2>2. Program = k \o (<<GetInt("code")>> \o <<GetInt("tupleCount")>>)
    BY <1>d, <1>e, <2>1, TupleSplits
  <2>3. <<GetInt("tupleCount")>> \in Seq(S)
    BY <1>d, TupleTypes
  <2> QED
    BY <1>1, <2>2, <2>3
<1>8. CASE parser = "ParseSimpleResponse"
  <2>1. Program = k \o <<GetInt("code")>>
    BY <1>8 DEF Program, ParseSimpleResponse
  <2>2. Program = k \o (<<GetInt("code")>> \o <<>>)
    BY <1>e, <2>1, TupleSplits
  <2>3. <<>> \in Seq(S)
    BY TupleTypes
  <2> QED
    BY <1>1, <2>2, <2>3
<1>9. CASE parser = "ParseGetDbVersion"
  <2>1. Program = k \o <<GetInt("code"), GetText(Len(buf) - 8, "version")>>
    BY <1>9 DEF Program, ParseGetDbVersion
  <2>2. Program = k \o (<<GetInt("code")>> \o <<GetText(Len(buf) - 8, "version")>>)
    BY <1>e, <1>g, <2>1, TupleSplits
  <2>3. <<GetText(Len(buf) - 8, "version")>> \in Seq(S)
    BY <1>g, TupleTypes
  <2> QED
    BY <1>1, <2>2, <2>3
<1>10. CASE parser = "ParseGetLastInsertId"
  <2>1. Program = k \o <<GetInt("idLen")>>
    BY <1>10 DEF Program, ParseGetLastInsertId
  <2>2. Program = k \o (<<GetInt("idLen")>> \o <<>>)
    BY <1>d, <2>1, TupleSplits
  <2>3. <<>> \in Seq(S)
    BY TupleTypes
  <2> QED
    BY <1>1, <2>2, <2>3
<1>11. CASE parser = "ParseOpenDatabase"
  <2>1. Program = k \o <<GetInt("code"), GetRaw(16, "proto"), GetInt("session")>>
    BY <1>11 DEF Program, ParseOpenDatabase
  <2>2. Program = k \o (<<GetInt("code")>> \o <<GetRaw(16, "proto"), GetInt("session")>>)
    <3>1. \A a, b, c \in S : <<a, b, c>> = <<a>> \o <<b, c>>
      BY TupleSplits
    <3> QED
      BY <1>e, <1>f, <1>h, <2>1, <3>1
  <2>3. <<GetRaw(16, "proto"), GetInt("session")>> \in Seq(S)
    BY <1>f, <1>h, TupleTypes
  <2> QED
    BY <1>1, <2>2, <2>3
<1> QED
  BY <1>4, <1>5, <1>6, <1>7, <1>8, <1>9, <1>10, <1>11 DEF Parsers

LEMMA GotPlain ==
  ASSUME WireType, todo # <<>>, NEW v, Got(v), Head(todo).to \in {"", "errCode", "errMsg"}
  PROVE  /\ st' = "run" /\ todo' = Tail(todo) /\ out' = out \o Fields(Head(todo).to, v)
         /\ msg' = msg /\ buf' = buf
<1> DEFINE op == Head(todo)
           k == IF v = <<>> THEN 0 ELSE v[1]
<1>1. ~Failed(op.to, v)
  BY DEF Failed
<1>2. Then(op.to, op.x, k) = Follows(op.to, op.x, k)
  BY DEF Then
<1>3. Follows(op.to, op.x, k) = <<>>
  BY DEF Follows
<1>4. Tail(todo) \in Seq(SoundEntries)
  <2>1. todo \in Seq(SoundEntries)
    BY DEF WireType
  <2> QED
    BY <2>1, HeadTailProperties
<1>5. todo' = Then(op.to, op.x, k) \o Tail(todo)
  BY <1>1 DEF Got
<1>6. <<>> \o Tail(todo) = Tail(todo)
  BY <1>4, ConcatEmptySeq
<1>7. st' = "run"
  BY DEF Got
<1>8. out' = out \o Fields(op.to, v) /\ msg' = msg /\ buf' = buf
  BY <1>1 DEF Got
<1> QED
  BY <1>2, <1>3, <1>5, <1>6, <1>7, <1>8

LEMMA After1 ==
  ASSUME WireType, Fails, Next, Stage1, st = "run"
  PROVE  st' = "run" /\ msg' = msg /\ Stage2'
<1> DEFINE w == writeFiller(4)
           r == Blame \o (Code(msg) \o Because(msg))
<1>1. IsMessage(msg) /\ msg.err # <<>>
  BY WireAssumption DEF WireType, Fails
<1>2. w \in Seq(Byte) /\ r \in Seq(Byte) /\ Len(w) = 4
  BY <1>1, ErrorType
<1>3. Rest = w \o r /\ offset = 0 /\ out = <<>>
  BY DEF Stage1
<1>4. PICK to \in Codes, ops \in Seq(SoundEntries) : todo = <<GetRaw(4, "")>> \o (<<GetInt(to)>> \o ops)
  BY DEF Stage1
<1> DEFINE t == <<GetInt(to)>> \o ops
<1>5. GetInt(to) \in SoundEntries /\ GetRaw(4, "") \in SoundEntries
  <2>1. to \in PlainNames \cup LeadNames /\ to \notin ByteNames
    BY DEF Codes, PlainNames, LeadNames, Leaders, ByteNames
  <2>2. "" \in PlainNames
    BY DEF PlainNames
  <2> QED
    BY <2>1, <2>2, ReadKinds
<1>6. t \in Seq(SoundEntries)
  BY <1>5, ConsOf
<1>7. todo # <<>> /\ Head(todo) = GetRaw(4, "") /\ Tail(todo) = t
  BY <1>4, <1>5, <1>6, ConsOf, ZenonT(40)
<1> HIDE DEF t, w, r
<1>8. Head(todo).get = "raw" /\ Head(todo).n = 4 /\ Head(todo).to = ""
  <2> DEFINE op == GetRaw(4, "")
  <2>1. op.get = "raw"
    BY DEF GetRaw, Rd
  <2>2. op.n = 4
    BY DEF GetRaw, Rd
  <2>3. op.to = ""
    BY DEF GetRaw, Rd
  <2> HIDE DEF op
  <2>4. Head(todo) = op
    BY <1>7 DEF op
  <2> QED
    BY <2>1, <2>2, <2>3, <2>4
<1>9. /\ Got(ValueOf(Head(todo).get, w)) /\ offset' = offset + Len(w) /\ Rest' = r
  BY <1>2, <1>3, <1>7, <1>8, ReadsNext DEF Gets
<1>10. Got(w)
  BY <1>8, <1>9 DEF ValueOf
<1>11. st' = "run" /\ todo' = t /\ out' = out \o Fields("", w) /\ msg' = msg
  BY <1>7, <1>8, <1>10, GotPlain
<1>12. Fields("", w) = <<>>
  BY DEF Fields, Dropped
<1>13. out' = <<>> /\ offset' = 4
  <2>1. <<>> \o <<>> = <<>>
    OBVIOUS
  <2>2. out' = <<>>
    BY <1>3, <1>11, <1>12, <2>1
  <2>3. offset' = 4
    BY <1>2, <1>3, <1>9
  <2> QED
    BY <2>2, <2>3
<1> QED
  BY <1>9, <1>11, <1>13 DEF Stage2, r, t

\* The code is -1: the parser returns nothing and goes for the error.
LEMMA After2 ==
  ASSUME WireType, Fails, Next, Stage2, st = "run"
  PROVE  st' = "run" /\ msg' = msg /\ Stage3'
<1> DEFINE w == Blame
           r == Code(msg) \o Because(msg)
<1>1. IsMessage(msg) /\ msg.err # <<>>
  BY WireAssumption DEF WireType, Fails
<1>2. w \in Seq(Byte) /\ r \in Seq(Byte) /\ Len(w) = 4
  BY <1>1, ErrorType
<1>3. Rest = w \o r /\ offset = 4 /\ out = <<>>
  BY DEF Stage2
<1>4. PICK to \in Codes, ops \in Seq(SoundEntries) : todo = <<GetInt(to)>> \o ops
  BY DEF Stage2
<1>5. GetInt(to) \in SoundEntries
  <2>1. to \in PlainNames \cup LeadNames /\ to \notin ByteNames
    BY DEF Codes, PlainNames, LeadNames, Leaders, ByteNames
  <2> QED
    BY <2>1, ReadKinds
<1>6. todo # <<>> /\ Head(todo) = GetInt(to)
  BY <1>4, <1>5, ConsOf
<1> HIDE DEF w, r
<1>7. Head(todo).get = "int" /\ Head(todo).n = 4 /\ Head(todo).to = to
  BY <1>6 DEF GetInt, Rd
<1>8. /\ Got(ValueOf(Head(todo).get, w)) /\ offset' = offset + Len(w) /\ Rest' = r
  BY <1>2, <1>3, <1>6, <1>7, ReadsNext DEF Gets
<1>9. Int32(w) = -1
  <2>1. -1 \in Number32
    BY Bounds DEF Number32
  <2> QED
    BY <2>1, IntBack DEF w, Blame
<1>10. Got(<<-1>>)
  BY <1>7, <1>8, <1>9 DEF ValueOf
<1>11. Failed(to, <<-1>>)
  BY DEF Failed, Codes
<1>12. todo' = raiseError /\ out' = out \o <<>> /\ msg' = msg /\ buf' = buf
  BY <1>7, <1>10, <1>11 DEF Got
<1>13. st' = "run"
  BY <1>7, <1>10 DEF Got, Codes
<1>14. raiseError' = raiseError
  BY <1>12 DEF raiseError
<1>15. out' = <<>> /\ offset' = 8
  BY <1>2, <1>3, <1>8, <1>12
<1> QED
  BY <1>8, <1>12, <1>13, <1>14, <1>15 DEF Stage3, r

LEMMA After3 ==
  ASSUME WireType, Fails, Next, Stage3, st = "run"
  PROVE  st' = "run" /\ msg' = msg /\ Stage4'
<1> DEFINE w == Code(msg)
           r == Because(msg)
           t == GetText(Len(buf) - 8 - 4, "errMsg")
           e == msg.err[1]
<1>1. IsMessage(msg) /\ msg.err # <<>>
  BY WireAssumption DEF WireType, Fails
<1>2. w \in Seq(Byte) /\ r \in Seq(Byte) /\ Len(w) = 4 /\ e \in Number32
  BY <1>1, ErrorType
<1>3. Rest = w \o r /\ offset = 8 /\ out = <<>> /\ todo = raiseError
  BY DEF Stage3
<1>4. todo # <<>> /\ Head(todo) = GetInt("errCode") /\ Tail(todo) = <<t>>
  BY <1>3 DEF raiseError
<1> HIDE DEF w, r, t
<1>5. Head(todo).get = "int" /\ Head(todo).n = 4 /\ Head(todo).to = "errCode"
  BY <1>4 DEF GetInt, Rd
<1>6. /\ Got(ValueOf(Head(todo).get, w)) /\ offset' = offset + Len(w) /\ Rest' = r
  BY <1>2, <1>3, <1>4, <1>5, ReadsNext DEF Gets
<1>7. Int32(w) = e
  BY <1>2, IntBack DEF w, Code
<1> HIDE DEF e
<1>8. Got(<<e>>)
  BY <1>5, <1>6, <1>7 DEF ValueOf
<1>9. st' = "run" /\ todo' = <<t>> /\ out' = out \o Fields("errCode", <<e>>) /\ msg' = msg /\ buf' = buf
  BY <1>4, <1>5, <1>8, GotPlain
<1>10. Fields("errCode", <<e>>) = <<One("errCode", e)>>
  BY DEF Fields, Dropped, One
<1>11. out' = <<One("errCode", e)>> /\ offset' = 12
  BY <1>2, <1>3, <1>6, <1>9, <1>10
<1>12. t' = t
  BY <1>9 DEF t
<1> QED
  BY <1>6, <1>9, <1>11, <1>12 DEF Stage4, r, t, e

LEMMA After4 ==
  ASSUME WireType, Fails, Next, Stage4, st = "run"
  PROVE  st' = "run" /\ msg' = msg /\ Stage5'
<1> DEFINE w == Because(msg)
           s == msg.text
           e == msg.err[1]
           n == Len(buf) - 8 - 4
<1>1. IsMessage(msg) /\ msg.err # <<>>
  BY WireAssumption DEF WireType, Fails
<1>2. w \in Seq(Byte) /\ Len(w) = Len(s) + 1 /\ s \in Seq(Byte) /\ msg.err[2] = newError(s)
  BY <1>1, ErrorType
<1>3. Rest = w /\ offset = 12 /\ out = <<One("errCode", e)>> /\ todo = <<GetText(n, "errMsg")>>
  BY DEF Stage4
<1>4. todo # <<>> /\ Head(todo) = GetText(n, "errMsg") /\ Tail(todo) = <<>>
  BY <1>3
<1>5. buf \in Seq(Byte) /\ offset \in 0..Len(buf)
  BY <1>1, PacketType DEF WireType
<1>6. n = Len(w) /\ n \in Nat
  <2>1. Len(RestOf(buf, 12)) = Len(buf) - 12
    <3>1. 12 + (Len(buf) - 12) = Len(buf) /\ Len(buf) - 12 \in Nat /\ 12 \in 0..Len(buf)
      BY <1>3, <1>5
    <3>2. Len(SubSeq(buf, 12 + 1, 12 + (Len(buf) - 12))) = Len(buf) - 12
      BY <1>5, <3>1, TakenType, SMTT(40)
    <3> QED
      BY <3>1, <3>2 DEF RestOf
  <2> QED
    BY <1>3, <1>5, <2>1 DEF Rest
<1>7. w \o <<>> = w /\ <<>> \in Seq(Byte)
  BY <1>2, ConcatEmptySeq
<1>8. Last(w) = 0 /\ Front(w) = s /\ w # <<>>
  BY <1>2 DEF Last, Front, Because
<1> HIDE DEF w, n, s, e
<1>9. Head(todo).get = "text" /\ Head(todo).n = n /\ Head(todo).to = "errMsg"
  BY <1>4, <1>6 DEF GetText, Rd
<1>10. /\ Got(ValueOf(Head(todo).get, w)) /\ Rest' = <<>>
  BY <1>2, <1>3, <1>4, <1>6, <1>7, <1>9, ReadsNext DEF Gets
<1>11. Got(s)
  BY <1>8, <1>9, <1>10 DEF ValueOf
<1>12. st' = "run" /\ todo' = <<>> /\ out' = out \o Fields("errMsg", s) /\ msg' = msg
  BY <1>4, <1>9, <1>11, GotPlain
<1>13. Fields("errMsg", s) = <<<<"errMsg", s>>, <<"errClass", newError(s)>>>>
  BY DEF Fields, Dropped
<1>14. out' = Reported(msg)
  <2> DEFINE a == One("errCode", e)
             b == <<"errMsg", s>>
             c == <<"errClass", newError(s)>>
  <2>1. <<a>> \o <<b, c>> = <<a, b, c>>
    <3> HIDE DEF a, b, c
    <3>1. a \in {a, b, c} /\ b \in {a, b, c} /\ c \in {a, b, c}
      OBVIOUS
    <3> QED
      BY <3>1, TupleSplits
  <2>2. out' = <<a>> \o <<b, c>>
    BY <1>3, <1>12, <1>13
  <2>3. Reported(msg) = <<a, b, c>>
    BY <1>2 DEF Reported, e, s
  <2>4. Reported(msg)' = Reported(msg)
    BY <1>12 DEF Reported
  <2> QED
    BY <2>1, <2>2, <2>3
<1> QED
  BY <1>10, <1>12, <1>14 DEF Stage5

LEMMA ReportingStep ==
  ASSUME WireType, Reporting, [Next]_vars
  PROVE  Reporting'
<1>1. CASE UNCHANGED vars
  BY <1>1 DEF Reporting, Fails, Stage1, Stage2, Stage3, Stage4, Stage5, Rest, vars, raiseError, GetInt, GetText, GetRaw, Rd
<1>2. CASE Next
  <2>1. msg' = msg
    BY <1>2 DEF Next, parseByte, parseShort, parseInt, parseRawBytes, parseShorts, parseNullTermString, readNil,
                Got, DoLoop, DoUntil, DoInline, Expand, Done, Panic
  <2>2. SUFFICES ASSUME Fails
                 PROVE  \/ st' = "run" /\ (Stage1' \/ Stage2' \/ Stage3' \/ Stage4' \/ Stage5')
                        \/ st' = "done" /\ Stage5'
    BY <2>1 DEF Reporting, Fails
  <2>3. \/ st = "run" /\ (Stage1 \/ Stage2 \/ Stage3 \/ Stage4 \/ Stage5)
        \/ st = "done"
    BY <2>2 DEF Reporting
  <2>4. CASE st = "run" /\ Stage1
    BY <1>2, <2>2, <2>4, After1
  <2>5. CASE st = "run" /\ Stage2
    BY <1>2, <2>2, <2>5, After2
  <2>6. CASE st = "run" /\ Stage3
    BY <1>2, <2>2, <2>6, After3
  <2>7. CASE st = "run" /\ Stage4
    BY <1>2, <2>2, <2>7, After4
  <2>8. CASE st = "run" /\ Stage5
    <3>1. todo = <<>>
      BY <2>8 DEF Stage5
    <3>2. Done
      BY <1>2, <3>1, StepKinds DEF Reading, DoLoop, DoUntil, DoInline, Panic, Running
    <3>3. st' = "done" /\ Rest' = Rest /\ out' = out /\ todo' = todo
      BY <3>2 DEF Done, Rest
    <3> QED
      BY <2>1, <2>8, <3>3 DEF Stage5, Reported
  <2>9. CASE st = "done"
    BY <1>2, <2>9, StepKinds DEF Reading, DoLoop, DoUntil, DoInline, Panic, Running, Done
  <2> QED
    BY <2>3, <2>4, <2>5, <2>6, <2>7, <2>8, <2>9
<1> QED
  BY <1>1, <1>2

LEMMA ReportingInit ==
  ASSUME Init
  PROVE  Reporting
<1>1. SUFFICES ASSUME Fails PROVE st = "run" /\ Stage1
  BY DEF Reporting
<1>2. WireType
  BY WireTypeInit
<1>3. IsMessage(msg) /\ msg.err # <<>> /\ msg.p \in Parsers
  BY <1>1, <1>2, WireAssumption DEF WireType, Fails
<1>4. buf = Bytes(msg) /\ buf \in Seq(Byte)
  BY <1>2, <1>3, PacketType DEF WireType
<1>5. st = "run" /\ offset = 0 /\ out = <<>> /\ todo = Program /\ parser \in Parsers
  BY <1>3 DEF Init
<1>6. msg.ver \in Int
  <2>1. msg.ver \in 0..63
    BY <1>3, MessageType
  <2> QED
    BY <2>1
<1>7. \E to \in Codes, ops \in Seq(SoundEntries) : todo = <<GetRaw(4, "")>> \o (<<GetInt(to)>> \o ops)
  BY <1>4, <1>5, <1>6, ProgramStarts
<1>8. Rest = buf
  <2>1. SubSeq(buf, 0 + 1, Len(buf)) = buf
    BY <1>4, SubSeqFull
  <2> QED
    BY <1>5, <2>1 DEF Rest, RestOf
<1>9. Rest = writeFiller(4) \o (Blame \o (Code(msg) \o Because(msg)))
  BY <1>3, <1>4, <1>8, ErrorPacket
<1> QED
  BY <1>5, <1>7, <1>9 DEF Stage1

\* An error is reported as the server reported it, code, message and class, by
\* whichever parser gets it, for any code, text and keywords.
THEOREM ErrorsReported == Spec => []ErrorsReadTheSame
<1>1. Init => Reporting
  BY ReportingInit
<1>2. WireType /\ Reporting /\ [Next]_vars => Reporting'
  BY ReportingStep
<1>3. WireType /\ Reporting => ErrorsReadTheSame
  <2> SUFFICES ASSUME WireType, Reporting, st # "run", msg.p \in Parsers, msg.err # <<>>
               PROVE  Whole /\ out = Reported(msg)
    BY DEF ErrorsReadTheSame, Reported
  <2>1. st = "done" /\ Rest = <<>> /\ out = Reported(msg)
    BY DEF Reporting, Fails, Stage5
  <2>2. buf \in Seq(Byte) /\ offset \in 0..Len(buf)
    BY WireAssumption, PacketType DEF WireType
  <2>3. Len(RestOf(buf, offset)) = Len(buf) - offset
    <3> DEFINE k == Len(buf) - offset
    <3>1. k \in Nat /\ offset + k = Len(buf)
      BY <2>2
    <3> HIDE DEF k
    <3>2. Len(SubSeq(buf, offset + 1, offset + k)) = k
      BY <2>2, <3>1, TakenType
    <3> QED
      BY <3>1, <3>2 DEF RestOf, k
  <2>4. offset = Len(buf)
    BY <2>1, <2>2, <2>3 DEF Rest
  <2> QED
    BY <2>1, <2>4 DEF Whole
<1> QED
  BY <1>1, <1>2, <1>3, WireTypeAlways, PTL DEF Spec

-----------------------------------------------------------------------------
(***************************************************************************)
(* What a parser makes of a packet.  A situation is what is left of the    *)
(* packet, what was returned so far, and what is known of the columns and  *)
(* the statement; Leads says that the reads ops, with all that follow from *)
(* them, take the parser from one situation to another.                    *)
(***************************************************************************)
Field == ToNames \X Seq(Int)
Metas == [stmt : Int, cols : Seq(Byte)]
Situation == [rest : Seq(Byte), out : Seq(Field), meta : Metas]
Ops == Seq(SoundEntries)

At(rest, fields, known) == [rest |-> rest, out |-> fields, meta |-> known]
Now == At(Rest, out, meta)

First(v) == IF v = <<>> THEN 0 ELSE v[1]
Position(m, a) == Len(Bytes(m)) - Len(a.rest)

\* The reads that follow a value, and those that an entry of another kind stands for.
Later(m, op, x, v) ==
  IF op.to # "tupleCount" THEN Follows(op.to, op.x, v)
  ELSE IF m.p = "ParsePrepareAndExecute" \/ x.cols # <<>> THEN <<Loop(v, "row")>> ELSE <<>>

Further(m, op, a, v) ==
  IF op.to = "bindLen" THEN <<Until(Position(m, a) + 4 + v, "paramSize")>> ELSE Later(m, op, a.meta, v)

RowReads(x) ==
  <<GetInt(""), GetRaw(8, "")>> \o
    [j \in DOMAIN x.cols |-> SizeFor(IF x.stmt = StmtCallSP THEN TypeNull ELSE x.cols[j])]

EntryReads(e, x) ==
  CASE e = "column" -> parseColumnMetadata
    [] e = "info"   -> parseResultInfos
    [] e = "row"    -> RowReads(x)

Unrolled(m, op, a) ==
  CASE op.get = "loop"  -> IF op.n > 0 THEN EntryReads(op.to, a.meta) \o <<Loop(op.n - 1, op.to)>> ELSE <<>>
    [] op.get = "until" -> IF Position(m, a) < op.n THEN <<GetInt(op.to), op>> ELSE <<>>
    [] OTHER            -> IF a.meta.stmt = StmtSelect /\ Len(a.rest) >= 8
                           THEN <<GetInt(""), GetInt("tupleCount")>> ELSE <<>>

Learned(to, v, x) ==
  [stmt |-> IF to = "stmtType" THEN v[1] ELSE x.stmt, cols |-> x.cols \o ColumnTypes(to, v)]

\* A value that does not stop the parser.
Fine(to, v) == ~Failed(to, v) /\ ~(to \in Counts /\ v[1] < 0)

\* The entry op takes the bytes w off the packet.
Takes(m, op, a, c, w, f) ==
  LET v == ValueOf(op.get, w)
  IN /\ w \in Seq(Byte) /\ Len(w) = op.n /\ a.rest = w \o c.rest
     /\ Fine(op.to, v)
     /\ c.out = a.out \o Fields(op.to, v)
     /\ c.meta = Learned(op.to, v, a.meta)
     /\ f = Further(m, op, a, First(v))

\* The entry op leads from a to c, with the reads f in front of the rest.
Goes(m, op, a, c, f) ==
  IF op.get \in Gets THEN \E w : Takes(m, op, a, c, w, f)
  ELSE c = a /\ f = Unrolled(m, op, a)

Points == Ops \X Situation

Onward(m, p, q) ==
  /\ p[1] # <<>>
  /\ \E f \in Ops : Goes(m, Head(p[1]), p[2], q[2], f) /\ q[1] = f \o Tail(p[1])

IsPath(m, n, T) == T \in [0..n -> Points] /\ \A i \in 1..n : Onward(m, T[i - 1], T[i])

LeadsIn(m, n, ops, a, b) == \E T : IsPath(m, n, T) /\ T[0] = <<ops, a>> /\ T[n] = <<<<>>, b>>
Leads(m, ops, a, b) == \E n \in Nat : LeadsIn(m, n, ops, a, b)

\* Concatenation is associative, for each of the three kinds of sequences.
LEMMA BytesAssoc ==
  ASSUME NEW s \in Seq(Byte), NEW t \in Seq(Byte), NEW u \in Seq(Byte)
  PROVE  (s \o t) \o u = s \o (t \o u)
BY Assoc, SMTT(40)

LEMMA FieldsAssoc ==
  ASSUME NEW s \in Seq(Field), NEW t \in Seq(Field), NEW u \in Seq(Field)
  PROVE  (s \o t) \o u = s \o (t \o u)
BY Assoc, SMTT(40)

LEMMA OpsAssoc ==
  ASSUME NEW s \in Ops, NEW t \in Ops, NEW u \in Ops
  PROVE  (s \o t) \o u = s \o (t \o u)
BY Assoc, SMTT(40) DEF Ops

LEMMA LeadsNowhere ==
  ASSUME NEW m, NEW a \in Situation
  PROVE  Leads(m, <<>>, a, a) /\ \A n \in Nat : \A b : LeadsIn(m, n, <<>>, a, b) => b = a
<1> DEFINE T == [i \in 0..0 |-> <<<<>>, a>>]
<1>1. Leads(m, <<>>, a, a)
  <2>1. <<>> \in Seq(SoundEntries)
    OBVIOUS
  <2>2. <<<<>>, a>> \in Points
    BY <2>1 DEF Points, Ops
  <2>3. T \in [0..0 -> Points] /\ T[0] = <<<<>>, a>> /\ 1..0 = {} /\ 0 \in Nat
    BY <2>2
  <2>4. IsPath(m, 0, T)
    BY <2>3 DEF IsPath
  <2> QED
    BY <2>3, <2>4 DEF Leads, LeadsIn
<1>2. ASSUME NEW n \in Nat, NEW b, LeadsIn(m, n, <<>>, a, b) PROVE b = a
  <2>1. PICK U : IsPath(m, n, U) /\ U[0] = <<<<>>, a>> /\ U[n] = <<<<>>, b>>
    BY <1>2 DEF LeadsIn
  <2>2. CASE n = 0
    BY <2>1, <2>2
  <2>3. CASE n # 0
    <3>1. 1 \in 1..n /\ 1 - 1 = 0
      BY <2>3
    <3>2. Onward(m, U[0], U[1])
      BY <2>1, <3>1 DEF IsPath
    <3> QED
      BY <2>1, <3>2 DEF Onward
  <2> QED
    BY <2>2, <2>3
<1> QED
  BY <1>1, <1>2

\* The first step of a path, and a path with one more step in front.
LEMMA LeadsFirst ==
  ASSUME NEW m, NEW op \in SoundEntries, NEW ops \in Ops, NEW a \in Situation, NEW b,
         NEW n \in Nat, LeadsIn(m, n, <<op>> \o ops, a, b)
  PROVE  \E k \in Nat, c \in Situation, f \in Ops :
           n = k + 1 /\ Goes(m, op, a, c, f) /\ LeadsIn(m, k, f \o ops, c, b)
<1> DEFINE all == <<op>> \o ops
<1>1. all \in Ops /\ all # <<>> /\ Head(all) = op /\ Tail(all) = ops
  BY ConsOf DEF Ops
<1> HIDE DEF all
<1>2. PICK T : IsPath(m, n, T) /\ T[0] = <<all, a>> /\ T[n] = <<<<>>, b>>
  BY DEF LeadsIn, all
<1>3. n # 0
  BY <1>1, <1>2
<1> DEFINE k == n - 1
           U == [i \in 0..k |-> T[i + 1]]
<1>4. k \in Nat /\ n = k + 1 /\ 1 \in 1..n /\ 1 \in 0..n /\ 1 - 1 = 0 /\ 0 + 1 = 1 /\ 0 \in 0..k /\ k \in 0..k
  BY <1>3
<1> HIDE DEF k
<1>5. /\ \A i \in 0..n : T[i] \in Points
      /\ \A i \in 1..n : Onward(m, T[i - 1], T[i])
  BY <1>2 DEF IsPath
<1>6. U \in [0..k -> Points] /\ \A i \in 0..k : U[i] = T[i + 1]
  BY <1>4, <1>5
<1> HIDE DEF U
<1>7. ASSUME NEW i \in 1..k PROVE Onward(m, U[i - 1], U[i])
  <2> DEFINE j == i + 1
             h == i - 1
  <2>1. j \in 1..n /\ j - 1 = i /\ h + 1 = i /\ h \in 0..k /\ i \in 0..k
    BY <1>4
  <2>2. U[i] = T[j] /\ U[h] = T[h + 1]
    BY <1>6, <2>1
  <2> HIDE DEF j
  <2>3. Onward(m, T[j - 1], T[j])
    BY <1>5, <2>1
  <2> QED
    BY <2>1, <2>2, <2>3
<1>8. IsPath(m, k, U) /\ U[0] = T[1] /\ U[k] = <<<<>>, b>>
  BY <1>2, <1>4, <1>6, <1>7 DEF IsPath
<1>9. Onward(m, <<all, a>>, T[1]) /\ T[1] \in Points
  BY <1>2, <1>4, <1>5
<1>10. PICK f \in Ops : Goes(m, op, a, T[1][2], f) /\ T[1][1] = f \o ops
  BY <1>1, <1>9 DEF Onward
<1>11. T[1] = <<f \o ops, T[1][2]>> /\ T[1][2] \in Situation
  BY <1>9, <1>10 DEF Points
<1>12. LeadsIn(m, k, f \o ops, T[1][2], b)
  BY <1>8, <1>11 DEF LeadsIn
<1> QED
  BY <1>4, <1>10, <1>11, <1>12

LEMMA LeadsOn ==
  ASSUME NEW m, NEW op \in SoundEntries, NEW ops \in Ops, NEW a \in Situation, NEW b,
         NEW c \in Situation, NEW f \in Ops, Goes(m, op, a, c, f), Leads(m, f \o ops, c, b)
  PROVE  Leads(m, <<op>> \o ops, a, b)
<1> DEFINE all == <<op>> \o ops
           p == <<all, a>>
           q == <<f \o ops, c>>
<1>1. all \in Ops /\ all # <<>> /\ Head(all) = op /\ Tail(all) = ops
  BY ConsOf DEF Ops
<1> HIDE DEF all
<1>2. p \in Points /\ Onward(m, p, q)
  BY <1>1 DEF Points, Onward
<1>0. PICK n \in Nat : LeadsIn(m, n, f \o ops, c, b)
  BY DEF Leads
<1>3. PICK T : IsPath(m, n, T) /\ T[0] = q /\ T[n] = <<<<>>, b>>
  BY <1>0 DEF LeadsIn
<1> HIDE DEF p, q
<1> DEFINE k == n + 1
           U == [i \in 0..k |-> IF i = 0 THEN p ELSE T[i - 1]]
<1>4. /\ \A i \in 0..n : T[i] \in Points
      /\ \A i \in 1..n : Onward(m, T[i - 1], T[i])
  BY <1>3 DEF IsPath
<1>5. k \in Nat /\ k - 1 = n /\ 0 \in 0..k /\ k \in 0..k /\ k # 0
  OBVIOUS
<1>6. ASSUME NEW i \in 0..k PROVE i = 0 \/ i - 1 \in 0..n
  OBVIOUS
<1> HIDE DEF k
<1>7. /\ U \in [0..k -> Points] /\ U[0] = p /\ U[k] = T[n]
      /\ \A i \in 0..k : i = 0 \/ U[i] = T[i - 1]
  BY <1>2, <1>4, <1>5, <1>6
<1> HIDE DEF U
<1>8. ASSUME NEW i \in 1..k PROVE Onward(m, U[i - 1], U[i])
  <2> DEFINE j == i - 1
  <2>1. j \in 0..k /\ i \in 0..k /\ i # 0 /\ (j = 0 \/ j \in 1..n)
    BY <1>5
  <2>2. U[i] = T[j] /\ (j = 0 \/ U[j] = T[j - 1])
    BY <1>7, <2>1
  <2> HIDE DEF j
  <2>3. CASE j = 0
    BY <1>2, <1>3, <1>7, <2>2, <2>3 DEF j
  <2>4. CASE j # 0
    <3>1. Onward(m, T[j - 1], T[j])
      BY <1>4, <2>1, <2>4
    <3> QED
      BY <2>2, <2>4, <3>1 DEF j
  <2> QED
    BY <2>3, <2>4
<1>9. IsPath(m, k, U) /\ U[0] = <<all, a>> /\ U[k] = <<<<>>, b>>
  BY <1>3, <1>7, <1>8 DEF IsPath, p
<1>10. Leads(m, all, a, b)
  BY <1>5, <1>9 DEF Leads, LeadsIn
<1> QED
  BY <1>10 DEF all

LEMMA Unique ==
  ASSUME NEW S, NEW s \in Seq(S), NEW t \in Seq(S), s # <<>>, t # <<>>,
         Head(s) = Head(t), Tail(s) = Tail(t)
  PROVE  s = t
<1>1. Len(s) = Len(t) /\ s[1] = t[1]
  BY Uncons
<1>2. ASSUME NEW i \in 1..Len(s) PROVE s[i] = t[i]
  <2> DEFINE k == i - 1
  <2>1. i = 1 \/ (k \in 1..Len(Tail(s)) /\ k \in 1..Len(Tail(t)) /\ k + 1 = i)
    BY <1>1, Uncons
  <2>2. CASE i = 1
    BY <1>1, <2>2
  <2>3. CASE i # 1
    <3>1. s[k + 1] = Tail(s)[k] /\ t[k + 1] = Tail(t)[k]
      BY <2>1, <2>3, Uncons
    <3> QED
      BY <2>1, <2>3, <3>1
  <2> QED
    BY <2>2, <2>3
<1> QED
  BY <1>1, <1>2, SeqEqual

\* One sequence of reads after another.
LEMMA LeadsJoin ==
  ASSUME NEW m, NEW p \in Ops, NEW q \in Ops, NEW a \in Situation, NEW b \in Situation, NEW c,
         Leads(m, p, a, b), Leads(m, q, b, c)
  PROVE  Leads(m, p \o q, a, c)
<1> DEFINE Joins(n) == \A ops \in Ops, s \in Situation : LeadsIn(m, n, ops, s, b) => Leads(m, ops \o q, s, c)
           P == {n \in Nat : Joins(n)}
<1>1. ASSUME NEW n \in Nat, NEW ops \in Ops, NEW s \in Situation, LeadsIn(m, n, ops, s, b), ops = <<>>
      PROVE  Leads(m, ops \o q, s, c)
  <2>1. b = s
    BY <1>1, LeadsNowhere
  <2>2. ops \o q = q
    BY <1>1 DEF Ops
  <2> QED
    BY <2>1, <2>2
<1>2. ASSUME NEW n \in Nat, NEW ops \in Ops, NEW s \in Situation, LeadsIn(m, n, ops, s, b), ops # <<>>
      PROVE  \E op \in SoundEntries, t \in Ops, k \in Nat, d \in Situation, f \in Ops :
               /\ n = k + 1 /\ ops = <<op>> \o t
               /\ Goes(m, op, s, d, f) /\ LeadsIn(m, k, f \o t, d, b)
  <2> DEFINE op == Head(ops)
             t == Tail(ops)
  <2>1. op \in SoundEntries /\ t \in Ops /\ ops = <<op>> \o t
    <3>1. op \in SoundEntries /\ t \in Ops
      BY <1>2, Uncons DEF Ops
    <3> DEFINE u == <<op>> \o t
    <3>2. u \in Ops /\ Head(u) = op /\ Tail(u) = t /\ u # <<>>
      BY <3>1, ConsOf DEF Ops
    <3> HIDE DEF u
    <3>3. ops = u
      BY <1>2, <3>2, Unique DEF Ops
    <3> QED
      BY <3>1, <3>3 DEF u
  <2> HIDE DEF op, t
  <2>2. LeadsIn(m, n, <<op>> \o t, s, b)
    BY <1>2, <2>1
  <2>3. \E k \in Nat, d \in Situation, f \in Ops :
          n = k + 1 /\ Goes(m, op, s, d, f) /\ LeadsIn(m, k, f \o t, d, b)
    BY <2>1, <2>2, LeadsFirst
  <2> QED
    BY <2>1, <2>3
<1>3. Joins(0)
  <2>1. ASSUME NEW k \in Nat PROVE 0 # k + 1
    OBVIOUS
  <2> QED
    BY <1>1, <1>2, <2>1
<1>4. ASSUME NEW n \in Nat, Joins(n) PROVE Joins(n + 1)
  <2> SUFFICES ASSUME NEW ops \in Ops, NEW s \in Situation, LeadsIn(m, n + 1, ops, s, b), ops # <<>>
               PROVE  Leads(m, ops \o q, s, c)
    BY <1>1
  <2>1. PICK op \in SoundEntries, t \in Ops, k \in Nat, d \in Situation, f \in Ops :
          /\ n + 1 = k + 1 /\ ops = <<op>> \o t
          /\ Goes(m, op, s, d, f) /\ LeadsIn(m, k, f \o t, d, b)
    <3> DEFINE l == n + 1
    <3>1. l \in Nat /\ LeadsIn(m, l, ops, s, b)
      OBVIOUS
    <3> HIDE DEF l
    <3>2. \E op \in SoundEntries, t \in Ops, k \in Nat, d \in Situation, f \in Ops :
            /\ l = k + 1 /\ ops = <<op>> \o t
            /\ Goes(m, op, s, d, f) /\ LeadsIn(m, k, f \o t, d, b)
      BY <1>2, <3>1, ZenonT(40)
    <3> QED
      BY <3>2 DEF l
  <2>2. k = n /\ f \o t \in Ops /\ t \o q \in Ops /\ <<op>> \in Ops
    BY <2>1 DEF Ops
  <2>3. Leads(m, (f \o t) \o q, d, c)
    BY <1>4, <2>1, <2>2
  <2>4. (f \o t) \o q = f \o (t \o q)
    BY <2>1, OpsAssoc, SMTT(40)
  <2>6. (<<op>> \o t) \o q = <<op>> \o (t \o q)
    BY <2>1, <2>2, OpsAssoc, SMTT(40)
  <2>5. Leads(m, <<op>> \o (t \o q), s, c)
    BY <2>1, <2>2, <2>3, <2>4, LeadsOn
  <2> QED
    BY <2>1, <2>5, <2>6
<1> HIDE DEF Joins
<1>5. Nat \subseteq P
  <2>1. 0 \in P /\ \A n \in Nat : n \in P => n + 1 \in P
    BY <1>3, <1>4
  <2> HIDE DEF P
  <2> QED
    BY <2>1, SetInduction
<1>6. PICK n \in Nat : LeadsIn(m, n, p, a, b)
  BY DEF Leads
<1> QED
  BY <1>5, <1>6 DEF Joins

\* Where the parser is.
LEMMA PositionNow ==
  ASSUME WireType
  PROVE  Position(msg, Now) = offset /\ buf \in Seq(Byte) /\ Rest \in Seq(Byte)
         /\ Len(Rest) = Len(buf) - offset
<1>1. buf \in Seq(Byte) /\ Len(buf) \in Nat /\ offset \in 0..Len(buf)
  <2>1. buf \in Seq(Byte)
    BY WireAssumption, PacketType DEF WireType
  <2> QED
    BY <2>1 DEF WireType
<1> DEFINE n == Len(buf) - offset
<1>2. n \in Nat /\ offset + n = Len(buf) /\ offset + n <= Len(buf)
  BY <1>1
<1> HIDE DEF n
<1>3. SubSeq(buf, offset + 1, offset + n) \in Seq(Byte) /\ Len(SubSeq(buf, offset + 1, offset + n)) = n
  BY <1>1, <1>2, TakenType
<1>4. Rest = SubSeq(buf, offset + 1, offset + n)
  BY <1>2 DEF Rest, RestOf
<1>5. Len(Rest) = n
  BY <1>3, <1>4
<1>6. Position(msg, Now) = Len(buf) - n
  BY <1>5 DEF Position, Now, At, WireType
<1>7. Len(buf) - n = offset /\ n = Len(buf) - offset
  BY <1>1 DEF n
<1> QED
  BY <1>1, <1>3, <1>4, <1>5, <1>6, <1>7

\* A step of the parser follows the path.
LEMMA ReadsOn ==
  ASSUME WireType, Next, todo # <<>>, parser = msg.p, NEW c \in Situation, NEW f \in Ops,
         Head(todo).get \in Gets, Goes(msg, Head(todo), Now, c, f)
  PROVE  Now' = c /\ todo' = f \o Tail(todo) /\ st' = "run" /\ msg' = msg /\ parser' = parser
<1> DEFINE op == Head(todo)
<1>1. PICK w : Takes(msg, op, Now, c, w, f)
  BY DEF Goes
<1> DEFINE v == ValueOf(op.get, w)
<1>2. w \in Seq(Byte) /\ Len(w) = op.n /\ Rest = w \o c.rest /\ c.rest \in Seq(Byte)
  BY <1>1 DEF Takes, Now, At, Situation
<1>3. Got(v) /\ Rest' = c.rest
  BY <1>2, ReadsNext
<1>4. Fine(op.to, v) /\ c.out = out \o Fields(op.to, v) /\ c.meta = Learned(op.to, v, meta)
      /\ f = Further(msg, op, Now, First(v))
  BY <1>1 DEF Takes, Now, At
<1> HIDE DEF v
<1>5. st' = "run"
  BY <1>3, <1>4 DEF Got, Fine, Counts
<1>6. out' = c.out
  BY <1>3, <1>4 DEF Got, Fine
<1>7. meta' = c.meta
  BY <1>3, <1>4 DEF Got, Learned
<1>8. todo' = Then(op.to, op.x, First(v)) \o Tail(todo)
  BY <1>3, <1>4 DEF Got, Fine, First
<1>9. Then(op.to, op.x, First(v)) = Further(msg, op, Now, First(v))
  <2>1. Position(msg, Now) = offset /\ Now.meta = meta
    BY PositionNow DEF Now, At
  <2> QED
    BY <2>1 DEF Then, Further, Later
<1>10. c = At(c.rest, c.out, c.meta)
  BY DEF Situation, At
<1>11. msg' = msg /\ parser' = parser
  BY <1>3 DEF Got
<1>12. Now' = At(Rest', out', meta')
  BY DEF Now, At
<1> QED
  BY <1>3, <1>4, <1>5, <1>6, <1>7, <1>8, <1>9, <1>10, <1>11, <1>12

LEMMA GoesOn ==
  ASSUME WireType, Next, todo # <<>>, parser = msg.p, NEW c \in Situation, NEW f \in Ops,
         Goes(msg, Head(todo), Now, c, f)
  PROVE  Now' = c /\ todo' = f \o Tail(todo) /\ st' = "run" /\ msg' = msg /\ parser' = parser
<1> DEFINE op == Head(todo)
<1>1. CASE op.get \in Gets
  BY <1>1, ReadsOn
<1>2. CASE op.get \notin Gets
  <2>1. c = Now /\ f = Unrolled(msg, op, Now)
    BY <1>2 DEF Goes
  <2>2. DoLoop \/ DoUntil \/ DoInline
    <3>1. ~Panic
      BY <1>2 DEF Panic, Gets, Running
    <3>2. ~Done /\ ~Reading
      BY <1>2 DEF Done, Reading
    <3> QED
      BY <3>1, <3>2, StepKinds
  <2>3. st = "run" /\ Expand(f)
    <3>1. CASE DoLoop
      <4>1. op.get = "loop" /\ st = "run"
        BY <3>1 DEF DoLoop, Running
      <4>2. Unrolled(msg, op, Now) = IF op.n > 0 THEN EntryReads(op.to, meta) \o <<Loop(op.n - 1, op.to)>> ELSE <<>>
        BY <4>1 DEF Unrolled, Now, At
      <4>3. EntryReads(op.to, meta) = Entry(op.to)
        BY DEF EntryReads, Entry, parseRowData, RowReads
      <4> QED
        BY <2>1, <3>1, <4>1, <4>2, <4>3 DEF DoLoop
    <3>2. CASE DoUntil
      <4>1. op.get = "until" /\ st = "run"
        BY <3>2 DEF DoUntil, Running
      <4>2. Unrolled(msg, op, Now) = IF offset < op.n THEN <<GetInt(op.to), op>> ELSE <<>>
        BY <4>1, PositionNow DEF Unrolled
      <4> QED
        BY <2>1, <3>2, <4>1, <4>2 DEF DoUntil
    <3>3. CASE DoInline
      <4>1. op.get = "inline" /\ st = "run"
        BY <3>3 DEF DoInline, Running
      <4>2. Len(Rest) = bytesRemaining
        BY PositionNow DEF bytesRemaining
      <4>3. Unrolled(msg, op, Now) =
              IF meta.stmt = StmtSelect /\ bytesRemaining >= 8 THEN <<GetInt(""), GetInt("tupleCount")>> ELSE <<>>
        BY <4>1, <4>2 DEF Unrolled, Now, At
      <4> QED
        BY <2>1, <3>3, <4>1, <4>3 DEF DoInline
    <3> QED
      BY <2>2, <3>1, <3>2, <3>3
  <2>4. Now' = Now
    BY <2>3 DEF Expand, Now, At, Rest
  <2> QED
    BY <2>1, <2>3, <2>4 DEF Expand
<1> QED
  BY <1>1, <1>2

\* So whatever a path leads to stays ahead of the parser.
LEMMA LeadsStep ==
  ASSUME WireType, Next, st = "run", parser = msg.p, NEW e \in Situation, Now \in Situation,
         Leads(msg, todo, Now, e)
  PROVE  /\ msg' = msg /\ parser' = parser
         /\ \/ todo = <<>> /\ Now = e /\ st' = "done" /\ Now' = Now
            \/ st' = "run" /\ Now' \in Situation /\ Leads(msg, todo', Now', e)
<1>0. PICK n \in Nat : LeadsIn(msg, n, todo, Now, e)
  BY DEF Leads
<1>1. CASE todo = <<>>
  <2>1. Now = e
    BY <1>0, <1>1, LeadsNowhere
  <2>2. Done
    <3>1. ~Reading /\ ~DoLoop /\ ~DoUntil /\ ~DoInline /\ ~Panic
      BY <1>1 DEF Reading, DoLoop, DoUntil, DoInline, Panic, Running
    <3> QED
      BY <3>1, StepKinds
  <2>3. Now' = Now
    BY <2>2 DEF Done, Now, At, Rest
  <2> QED
    BY <1>1, <2>1, <2>2, <2>3 DEF Done
<1>2. CASE todo # <<>>
  <2> DEFINE op == Head(todo)
             t == Tail(todo)
             u == <<op>> \o t
  <2>1. op \in SoundEntries /\ t \in Ops /\ todo \in Ops
    BY <1>2, Uncons DEF Ops, WireType
  <2>2. u \in Ops /\ Head(u) = op /\ Tail(u) = t /\ u # <<>>
    BY <2>1, ConsOf DEF Ops
  <2> HIDE DEF u
  <2>3. todo = u
    BY <1>2, <2>1, <2>2, Unique DEF Ops
  <2>4. LeadsIn(msg, n, <<op>> \o t, Now, e)
    BY <1>0, <2>3 DEF u
  <2> HIDE DEF op, t
  <2>5. PICK k \in Nat, c \in Situation, f \in Ops : Goes(msg, op, Now, c, f) /\ LeadsIn(msg, k, f \o t, c, e)
    BY <2>1, <2>4, LeadsFirst
  <2>6. Now' = c /\ todo' = f \o t /\ st' = "run" /\ msg' = msg /\ parser' = parser
    BY <1>2, <2>5, GoesOn DEF op, t
  <2> QED
    BY <2>5, <2>6 DEF Leads
<1> QED
  BY <1>1, <1>2

-----------------------------------------------------------------------------
(***************************************************************************)
(* Reads: with the bytes w in front, the reads ops return the fields g and *)
(* turn what is known from x into y, whatever comes before and after them. *)
(***************************************************************************)
Reads(m, ops, w, g, x, y) ==
  /\ ops \in Ops /\ w \in Seq(Byte) /\ g \in Seq(Field) /\ x \in Metas /\ y \in Metas
  /\ \A r \in Seq(Byte), o \in Seq(Field) : Leads(m, ops, At(w \o r, o, x), At(r, o \o g, y))

LEMMA AtType ==
  ASSUME NEW r \in Seq(Byte), NEW o \in Seq(Field), NEW x \in Metas
  PROVE  At(r, o, x) \in Situation
BY DEF At, Situation

LEMMA ReadsNone ==
  ASSUME NEW m, NEW x \in Metas
  PROVE  Reads(m, <<>>, <<>>, <<>>, x, x)
<1>1. <<>> \in Ops /\ <<>> \in Seq(Byte) /\ <<>> \in Seq(Field)
  BY TupleTypes DEF Ops
<1>2. ASSUME NEW r \in Seq(Byte), NEW o \in Seq(Field)
      PROVE  Leads(m, <<>>, At(<<>> \o r, o, x), At(r, o \o <<>>, x))
  <2>1. <<>> \o r = r /\ o \o <<>> = o
    BY ConcatEmptySeq
  <2>2. Leads(m, <<>>, At(r, o, x), At(r, o, x))
    BY AtType, LeadsNowhere
  <2> QED
    BY <2>1, <2>2
<1> QED
  BY <1>1, <1>2 DEF Reads

LEMMA ReadsJoin ==
  ASSUME NEW m, NEW p, NEW q, NEW v, NEW w, NEW g, NEW h, NEW x, NEW y, NEW z,
         Reads(m, p, v, g, x, y), Reads(m, q, w, h, y, z)
  PROVE  Reads(m, p \o q, v \o w, g \o h, x, z)
<1>1. /\ p \in Ops /\ q \in Ops /\ v \in Seq(Byte) /\ w \in Seq(Byte)
      /\ g \in Seq(Field) /\ h \in Seq(Field) /\ x \in Metas /\ y \in Metas /\ z \in Metas
  BY DEF Reads
<1>2. p \o q \in Ops /\ v \o w \in Seq(Byte) /\ g \o h \in Seq(Field)
  BY <1>1, ConcatProperties DEF Ops
<1>3. ASSUME NEW r \in Seq(Byte), NEW o \in Seq(Field)
      PROVE  Leads(m, p \o q, At((v \o w) \o r, o, x), At(r, o \o (g \o h), z))
  <2>1. w \o r \in Seq(Byte) /\ o \o g \in Seq(Field)
    BY <1>1, ConcatProperties
  <2>2. Leads(m, p, At(v \o (w \o r), o, x), At(w \o r, o \o g, y))
    BY <2>1 DEF Reads
  <2>3. Leads(m, q, At(w \o r, o \o g, y), At(r, (o \o g) \o h, z))
    BY <2>1 DEF Reads
  <2>4. (v \o w) \o r = v \o (w \o r)
    <3>1. v \in Seq(Byte) /\ w \in Seq(Byte) /\ r \in Seq(Byte)
      BY <1>1
    <3> HIDE <1>1, <1>2
    <3> QED
      BY <3>1, BytesAssoc
  <2>5. (o \o g) \o h = o \o (g \o h)
    <3>1. o \in Seq(Field) /\ g \in Seq(Field) /\ h \in Seq(Field)
      BY <1>1
    <3> HIDE <1>1, <1>2
    <3> QED
      BY <3>1, FieldsAssoc
  <2>6. /\ At(v \o (w \o r), o, x) \in Situation /\ At(w \o r, o \o g, y) \in Situation
    <3>1. v \o (w \o r) \in Seq(Byte)
      BY <1>1, <2>1, ConcatProperties
    <3> QED
      BY <1>1, <2>1, <3>1, AtType
  <2>7. Leads(m, p \o q, At(v \o (w \o r), o, x), At(r, (o \o g) \o h, z))
    BY <1>1, <2>2, <2>3, <2>6, LeadsJoin
  <2> QED
    BY <2>4, <2>5, <2>7
<1> QED
  BY <1>1, <1>2, <1>3 DEF Reads

\* One read, and what follows from it.
LEMMA ReadsValue ==
  ASSUME NEW m, NEW op \in SoundEntries, op.get \in Gets, op.to # "bindLen",
         NEW w \in Seq(Byte), Len(w) = op.n, NEW v, v = ValueOf(op.get, w), Fine(op.to, v),
         NEW g, g = Fields(op.to, v), g \in Seq(Field),
         NEW x \in Metas, NEW y \in Metas, y = Learned(op.to, v, x), NEW f, f = Later(m, op, x, First(v)),
         NEW w2, NEW g2, NEW z, Reads(m, f, w2, g2, y, z)
  PROVE  Reads(m, <<op>>, w \o w2, g \o g2, x, z)
<1>1. f \in Ops /\ w2 \in Seq(Byte) /\ g2 \in Seq(Field) /\ z \in Metas
  BY DEF Reads
<1>2. <<op>> \in Ops /\ w \o w2 \in Seq(Byte) /\ g \o g2 \in Seq(Field) /\ <<>> \in Ops
  BY <1>1, ConcatProperties, TupleTypes DEF Ops
<1>3. ASSUME NEW r \in Seq(Byte), NEW o \in Seq(Field)
      PROVE  Leads(m, <<op>>, At((w \o w2) \o r, o, x), At(r, o \o (g \o g2), z))
  <2> DEFINE a == At(w \o (w2 \o r), o, x)
             c == At(w2 \o r, o \o g, y)
             b == At(r, (o \o g) \o g2, z)
  <2>1. w2 \o r \in Seq(Byte) /\ o \o g \in Seq(Field) /\ w \o (w2 \o r) \in Seq(Byte)
    BY <1>1, ConcatProperties
  <2>2. a \in Situation /\ c \in Situation
    BY <2>1, AtType
  <2>3. Leads(m, f, c, b)
    BY <2>1 DEF Reads
  <2>4. Further(m, op, a, First(v)) = f
    BY DEF Further, At
  <2>5. a.rest = w \o c.rest /\ c.out = a.out \o g /\ c.meta = y /\ a.meta = x
    BY DEF At
  <2> HIDE DEF a, b, c
  <2>6. (w \o w2) \o r = w \o (w2 \o r)
    <3>1. w \in Seq(Byte) /\ w2 \in Seq(Byte) /\ r \in Seq(Byte)
      BY <1>1
    <3> HIDE <1>1
    <3> QED
      BY <3>1, BytesAssoc
  <2>7. (o \o g) \o g2 = o \o (g \o g2)
    <3>1. o \in Seq(Field) /\ g \in Seq(Field) /\ g2 \in Seq(Field)
      BY <1>1
    <3> HIDE <1>1
    <3> QED
      BY <3>1, FieldsAssoc
  <2>8. Takes(m, op, a, c, w, f)
    BY <2>4, <2>5 DEF Takes
  <2>9. Goes(m, op, a, c, f)
    BY <2>8 DEF Goes
  <2>10. f \o <<>> = f /\ <<op>> \o <<>> = <<op>>
    BY <1>1, <1>2, ConcatEmptySeq DEF Ops
  <2>11. Leads(m, f \o <<>>, c, b)
    BY <2>3, <2>10
  <2>12. Leads(m, <<op>> \o <<>>, a, b)
    BY <1>1, <1>2, <2>2, <2>9, <2>11, LeadsOn
  <2> QED
    BY <2>6, <2>7, <2>10, <2>12 DEF a, b
<1> QED
  BY <1>1, <1>2, <1>3 DEF Reads

\* An entry that is not a read.
LEMMA ReadsUnrolled ==
  ASSUME NEW m, NEW op \in SoundEntries, op.get \notin Gets, NEW f, NEW w, NEW g, NEW x, NEW y,
         Reads(m, f, w, g, x, y),
         \A r \in Seq(Byte), o \in Seq(Field) : Unrolled(m, op, At(w \o r, o, x)) = f
  PROVE  Reads(m, <<op>>, w, g, x, y)
<1>1. f \in Ops /\ w \in Seq(Byte) /\ g \in Seq(Field) /\ x \in Metas /\ y \in Metas
  BY DEF Reads
<1>2. <<op>> \in Ops /\ <<>> \in Ops /\ f \o <<>> = f /\ <<op>> \o <<>> = <<op>>
  <2>1. <<op>> \in Ops /\ <<>> \in Ops
    BY TupleTypes DEF Ops
  <2> QED
    BY <1>1, <2>1, ConcatEmptySeq DEF Ops
<1>3. ASSUME NEW r \in Seq(Byte), NEW o \in Seq(Field)
      PROVE  Leads(m, <<op>>, At(w \o r, o, x), At(r, o \o g, y))
  <2> DEFINE a == At(w \o r, o, x)
             b == At(r, o \o g, y)
  <2>1. a \in Situation
    BY <1>1, AtType, ConcatProperties
  <2>2. Goes(m, op, a, a, f) /\ Leads(m, f \o <<>>, a, b)
    BY <1>2 DEF Goes, Reads
  <2> HIDE DEF a, b
  <2>3. Leads(m, <<op>> \o <<>>, a, b)
    BY <1>1, <1>2, <2>1, <2>2, LeadsOn
  <2> QED
    BY <1>2, <2>3 DEF a, b
<1> QED
  BY <1>1, <1>2, <1>3 DEF Reads

\* The reads of a name say nothing of columns and statement, unless they are bytes.
LEMMA LearnedNothing ==
  ASSUME NEW to \in ToNames, to \notin ByteNames, NEW v, NEW x \in Metas
  PROVE  Learned(to, v, x) = x
<1>1. ColumnTypes(to, v) = <<>> /\ to # "stmtType"
  BY DEF ColumnTypes, ByteNames
<1>2. x.cols \o <<>> = x.cols
  BY ConcatEmptySeq DEF Metas
<1>3. x = [stmt |-> x.stmt, cols |-> x.cols]
  BY DEF Metas
<1> QED
  BY <1>1, <1>2, <1>3 DEF Learned

LEMMA PlainNothing ==
  ASSUME NEW m, NEW op, op.to \in PlainNames, NEW x, NEW v
  PROVE  Later(m, op, x, v) = <<>>
BY DEF Later, Follows, PlainNames

\* A read of one value that nothing follows from.
LEMMA ReadsPlain ==
  ASSUME NEW m, NEW op \in SoundEntries, op.get \in Gets, op.to \in PlainNames,
         NEW w \in Seq(Byte), Len(w) = op.n, NEW v, v = ValueOf(op.get, w), Fine(op.to, v),
         NEW g, g = Fields(op.to, v), g \in Seq(Field), NEW x \in Metas
  PROVE  Reads(m, <<op>>, w, g, x, x)
<1>1. op.to \in ToNames /\ op.to \notin ByteNames /\ op.to # "bindLen"
  BY Names DEF PlainNames
<1>2. Learned(op.to, v, x) = x
  BY <1>1, LearnedNothing
<1>3. Later(m, op, x, First(v)) = <<>>
  BY PlainNothing
<1>4. Reads(m, <<>>, <<>>, <<>>, x, x)
  BY ReadsNone
<1>5. Reads(m, <<op>>, w \o <<>>, g \o <<>>, x, x)
  BY <1>1, <1>2, <1>3, <1>4, ReadsValue
<1>6. w \o <<>> = w /\ g \o <<>> = g
  BY ConcatEmptySeq
<1> QED
  BY <1>5, <1>6

FineNames == {"code", "handle", "total", "idLen", "colCount", "resultCount"}

\* The fields of a plain read.
LEMMA PlainFields ==
  ASSUME NEW to \in PlainNames, to \notin {"proto", "errMsg"}, NEW v \in Seq(Int)
  PROVE  /\ to \in {"", "code"} => Fields(to, v) = <<>>
         /\ to = "totalCount" => Fields(to, v) = <<<<"total", v>>>>
         /\ to \notin {"", "code", "totalCount"} => Fields(to, v) = <<<<to, v>>>>
         /\ Fields(to, v) \in Seq(Field)
         /\ to \notin FineNames => Fine(to, v)
         /\ v # <<>> /\ v[1] >= 0 => Fine(to, v)
<1>1. /\ to \in {"", "code"} => Fields(to, v) = <<>>
      /\ to = "totalCount" => Fields(to, v) = <<<<"total", v>>>>
      /\ to \notin {"", "code", "totalCount"} => Fields(to, v) = <<<<to, v>>>>
  <2>1. to # "legacyType" /\ (to \notin {"", "code"} => to \notin Dropped)
    BY DEF PlainNames, Dropped
  <2> QED
    BY <2>1 DEF Fields, Dropped
<1>2. <<to, v>> \in Field /\ <<"total", v>> \in Field
  BY Names DEF Field, PlainNames
<1>3. Fields(to, v) \in Seq(Field)
  BY <1>1, <1>2, TupleTypes
<1>4. to \notin FineNames => Fine(to, v)
  BY DEF FineNames, Fine, Failed, Counts
<1>5. v # <<>> /\ v[1] >= 0 => Fine(to, v)
  <2>1. to \notin Counts
    BY DEF PlainNames, Counts
  <2>2. Fine(to, v) \/ v[1] < 0
    BY <2>1 DEF Fine, Failed
  <2>3. v # <<>> => v[1] \in Int
    OBVIOUS
  <2> QED
    BY <2>2, <2>3
<1> QED
  BY <1>1, <1>3, <1>4, <1>5

LEMMA NumberReads ==
  ASSUME NEW m, NEW to \in PlainNames, to \notin {"proto", "errMsg"}, NEW n \in Number32,
         to \in FineNames => n >= 0, NEW x \in Metas
  PROVE  Reads(m, <<GetInt(to)>>, writeInt(n), Fields(to, <<n>>), x, x)
<1> DEFINE op == GetInt(to)
           w == writeInt(n)
           v == <<n>>
<1>1. op.get = "int" /\ op.n = 4 /\ op.to = to /\ op.get \in Gets
  BY DEF GetInt, Rd, Gets
<1>2. op \in SoundEntries
  BY ReadKinds, Names DEF PlainNames, ByteNames
<1>3. n \in Int /\ v \in Seq(Int) /\ v # <<>> /\ v[1] = n
  BY Bounds
<1>4. w \in Seq(Byte) /\ Len(w) = 4
  BY <1>3, WordType
<1>5. v = ValueOf(op.get, w)
  BY <1>1, IntBack DEF ValueOf
<1> HIDE DEF op, w, v
<1>6. Fields(to, v) \in Seq(Field) /\ Fine(to, v)
  BY <1>3, PlainFields
<1>7. Reads(m, <<op>>, w, Fields(to, v), x, x)
  BY <1>1, <1>2, <1>4, <1>5, <1>6, ReadsPlain
<1> QED
  BY <1>7 DEF op, w, v

LEMMA ShortReads ==
  ASSUME NEW m, NEW to \in PlainNames, to \notin {"proto", "errMsg"}, to \notin FineNames,
         NEW n \in Number16, NEW x \in Metas
  PROVE  Reads(m, <<GetShort(to)>>, writeShort(n), Fields(to, <<n>>), x, x)
<1> DEFINE op == GetShort(to)
           w == writeShort(n)
           v == <<n>>
<1>1. op.get = "short" /\ op.n = 2 /\ op.to = to /\ op.get \in Gets
  BY DEF GetShort, Rd, Gets
<1>2. op \in SoundEntries
  BY ReadKinds
<1>3. n \in Int /\ v \in Seq(Int)
  BY SmallNumber
<1>4. w \in Seq(Byte) /\ Len(w) = 2
  BY <1>3, WordType
<1>5. v = ValueOf(op.get, w)
  BY <1>1, ShortBack DEF ValueOf
<1> HIDE DEF op, w, v
<1>6. Fields(to, v) \in Seq(Field) /\ Fine(to, v)
  BY <1>3, PlainFields
<1>7. Reads(m, <<op>>, w, Fields(to, v), x, x)
  BY <1>1, <1>2, <1>4, <1>5, <1>6, ReadsPlain
<1> QED
  BY <1>7 DEF op, w, v

LEMMA ByteReads ==
  ASSUME NEW m, NEW to \in PlainNames, to \notin {"proto", "errMsg"}, to \notin FineNames,
         NEW b \in Byte, NEW x \in Metas
  PROVE  Reads(m, <<GetByte(to)>>, <<b>>, Fields(to, <<b>>), x, x)
<1> DEFINE op == GetByte(to)
           v == <<b>>
<1>1. op.get = "byte" /\ op.n = 1 /\ op.to = to /\ op.get \in Gets
  BY DEF GetByte, Rd, Gets
<1>2. op \in SoundEntries
  BY ReadKinds
<1>3. b \in Int /\ v \in Seq(Int) /\ v \in Seq(Byte) /\ Len(v) = 1
  BY SmallBytes
<1>4. v = ValueOf(op.get, v)
  BY <1>1 DEF ValueOf
<1> HIDE DEF op, v
<1>5. Fields(to, v) \in Seq(Field) /\ Fine(to, v)
  BY <1>3, PlainFields
<1>6. Reads(m, <<op>>, v, Fields(to, v), x, x)
  BY <1>1, <1>2, <1>3, <1>4, <1>5, ReadsPlain
<1> QED
  BY <1>6 DEF op, v

LEMMA BytesAreInts ==
  ASSUME NEW w \in Seq(Byte)
  PROVE  w \in Seq(Int) /\ Len(w) \in Nat
<1>1. \A b \in Byte : b \in Int
  BY DEF Byte
<1>2. Len(w) \in Nat /\ w = [i \in 1..Len(w) |-> w[i]] /\ \A i \in 1..Len(w) : w[i] \in Byte
  OBVIOUS
<1> QED
  BY <1>1, <1>2

LEMMA RawReads ==
  ASSUME NEW m, NEW to \in PlainNames, to \notin {"proto", "errMsg"}, to \notin FineNames,
         NEW w \in Seq(Byte), NEW n, n = Len(w), NEW x \in Metas
  PROVE  Reads(m, <<GetRaw(n, to)>>, w, Fields(to, w), x, x)
<1> DEFINE op == GetRaw(n, to)
<1>1. op.get = "raw" /\ op.n = n /\ op.to = to /\ op.get \in Gets
  BY DEF GetRaw, Rd, Gets
<1>2. w \in Seq(Int) /\ n \in Nat
  BY BytesAreInts
<1>3. op \in SoundEntries
  BY <1>2, ReadKinds
<1>4. w = ValueOf(op.get, w)
  BY <1>1 DEF ValueOf
<1> HIDE DEF op
<1>5. Fields(to, w) \in Seq(Field) /\ Fine(to, w)
  BY <1>2, PlainFields
<1>6. Reads(m, <<op>>, w, Fields(to, w), x, x)
  BY <1>1, <1>3, <1>4, <1>5, ReadsPlain
<1> QED
  BY <1>6 DEF op

\* A string loses the zero at its end.
LEMMA TextReads ==
  ASSUME NEW m, NEW to \in PlainNames, to \notin {"proto", "errMsg"}, to \notin FineNames,
         NEW s \in Seq(Byte), NEW n, n = Len(s) + 1, NEW x \in Metas
  PROVE  Reads(m, <<GetText(n, to)>>, s \o <<0>>, Fields(to, s), x, x)
<1> DEFINE op == GetText(n, to)
           w == s \o <<0>>
<1>1. n \in Nat /\ n > 0 /\ n \in Int
  BY LenProperties
<1>2. op.get = "text" /\ op.n = n /\ op.to = to /\ op.get \in Gets
  BY <1>1 DEF GetText, Rd, Gets
<1>3. op \in SoundEntries
  BY <1>1, ReadKinds
<1>4. w \in Seq(Byte) /\ Len(w) = n
  BY TextBytes
<1>5. w # <<>> /\ Last(w) = 0 /\ Front(w) = s
  <2>1. w = Append(s, 0) /\ 0 \in Byte
    BY DEF Byte
  <2> QED
    BY <2>1 DEF Last, Front
<1>6. s = ValueOf(op.get, w)
  BY <1>2, <1>5 DEF ValueOf
<1>7. s \in Seq(Int)
  BY BytesAreInts
<1> HIDE DEF op, w
<1>8. Fields(to, s) \in Seq(Field) /\ Fine(to, s)
  BY <1>7, PlainFields
<1>9. Reads(m, <<op>>, w, Fields(to, s), x, x)
  BY <1>2, <1>3, <1>4, <1>6, <1>8, ReadsPlain
<1> QED
  BY <1>9 DEF op, w

LEMMA NothingReads ==
  ASSUME NEW m, NEW x \in Metas
  PROVE  Reads(m, <<GetText(0, "")>>, <<>>, <<>>, x, x) /\ Reads(m, <<Nil>>, <<>>, <<Null>>, x, x)
<1>1. <<>> \in Seq(Byte) /\ <<>> \in Seq(Int) /\ <<>> \in Seq(Field) /\ Len(<<>>) = 0
  BY TupleTypes
<1>2. ASSUME NEW op, op \in {GetText(0, ""), Nil} PROVE Reads(m, <<op>>, <<>>, Fields(op.to, <<>>), x, x)
  <2>1. /\ op.get \in {"text", "nil"} /\ op.get \in Gets /\ op.n = 0 /\ op.to \in {"", "null"}
    <3>1. CASE op = GetText(0, "")
      BY <3>1 DEF GetText, Rd, Gets
    <3>2. CASE op = Nil
      BY <3>2 DEF Nil, Rd, Gets
    <3> QED
      BY <1>2, <3>1, <3>2
  <2>2. op.to \in PlainNames /\ op.to \notin FineNames /\ op.to \notin {"proto", "errMsg"}
    BY <2>1 DEF PlainNames, FineNames
  <2>3. op \in SoundEntries
    <3>1. Nil \in SoundEntries
      BY SoundReads
    <3>2. GetText(0, "") \in SoundEntries
      <4>1. "" \in PlainNames /\ 0 \in Int
        BY DEF PlainNames
      <4> QED
        BY <4>1, ReadKinds
    <3> QED
      BY <1>2, <3>1, <3>2
  <2>4. <<>> = ValueOf(op.get, <<>>)
    BY <2>1 DEF ValueOf
  <2>5. Fields(op.to, <<>>) \in Seq(Field) /\ Fine(op.to, <<>>)
    BY <1>1, <2>2, PlainFields
  <2> QED
    BY <1>1, <2>1, <2>2, <2>3, <2>4, <2>5, ReadsPlain
<1>3. GetText(0, "").to = "" /\ Nil.to = "null"
  BY DEF GetText, Nil, Rd
<1>4. Fields("", <<>>) = <<>> /\ Fields("null", <<>>) = <<Null>>
  BY DEF Fields, Dropped, Null
<1> QED
  BY <1>2, <1>3, <1>4

\* A length, or a count, and what follows.
LEMMA CountReads ==
  ASSUME NEW m, NEW op \in SoundEntries, op.get = "int", op.to \notin ByteNames, op.to # "bindLen",
         NEW n \in Number32, Fine(op.to, <<n>>), NEW g, g = Fields(op.to, <<n>>), g \in Seq(Field),
         NEW x \in Metas, NEW w, NEW h, NEW y, Reads(m, Later(m, op, x, n), w, h, x, y)
  PROVE  Reads(m, <<op>>, writeInt(n) \o w, g \o h, x, y)
<1> DEFINE v == <<n>>
           u == writeInt(n)
<1>1. n \in Int /\ First(v) = n /\ v = ValueOf("int", u)
  BY Bounds, IntBack DEF First, ValueOf
<1>2. u \in Seq(Byte) /\ Len(u) = 4
  BY <1>1, WordType
<1>3. op.n = 4 /\ op.get \in Gets /\ op.to \in ToNames
  BY DEF SoundEntries, Proper, Gets, Entries
<1>4. Learned(op.to, v, x) = x
  BY <1>3, LearnedNothing
<1> HIDE DEF u, v
<1>5. Fine(op.to, v) /\ g = Fields(op.to, v)
  BY DEF v
<1>6. Reads(m, Later(m, op, x, First(v)), w, h, x, y)
  BY <1>1
<1>7. Reads(m, <<op>>, u \o w, g \o h, x, y)
  BY <1>1, <1>2, <1>3, <1>4, <1>5, <1>6, ReadsValue
<1> QED
  BY <1>7 DEF u

-----------------------------------------------------------------------------
(***************************************************************************)
(* Strings and loops.                                                      *)
(***************************************************************************)
LEMMA LengthType ==
  ASSUME NEW n \in Nat, n <= MaxInt
  PROVE  n \in Number32 /\ n \in Int
<1>1. MaxInt \in Nat
  BY Bounds
<1>2. n >= -MaxInt - 1
  BY <1>1
<1> QED
  BY <1>1, <1>2 DEF Number32

\* A length that is not kept.
LEMMA LengthReads ==
  ASSUME NEW m, NEW op \in SoundEntries, op.get = "int",
         op.to \in {"nameLen", "textLen", "idLen", "argLen", "size", "paramSize"},
         NEW n \in Number32, op.to = "idLen" => n >= 0,
         NEW x \in Metas, NEW w, NEW h, NEW y, Reads(m, Follows(op.to, op.x, n), w, h, x, y)
  PROVE  Reads(m, <<op>>, writeInt(n) \o w, h, x, y)
<1>1. op.to \notin ByteNames /\ op.to # "bindLen"
  BY DEF ByteNames
<1>2. Later(m, op, x, n) = Follows(op.to, op.x, n)
  BY DEF Later
<1>3. Fields(op.to, <<n>>) = <<>> /\ <<>> \in Seq(Field)
  BY TupleTypes DEF Fields, Dropped
<1>4. Fine(op.to, <<n>>)
  <2>1. op.to \notin Counts /\ (op.to \in Codes => op.to = "idLen")
    BY DEF Counts, Codes
  <2>2. n \in Int
    BY Bounds
  <2>3. <<n>>[1] = n /\ (n >= 0 => ~(n < 0))
    BY <2>2
  <2> QED
    BY <2>1, <2>3 DEF Fine, Failed, Codes
<1>5. Reads(m, <<op>>, writeInt(n) \o w, <<>> \o h, x, y)
  BY <1>1, <1>2, <1>3, <1>4, CountReads
<1>6. <<>> \o h = h
  BY ConcatEmptySeq DEF Reads
<1> QED
  BY <1>5, <1>6

LEMMA IntOf ==
  ASSUME NEW to \in {"nameLen", "textLen", "idLen", "argLen", "colCount", "resultCount", "tupleCount", "bindLen"}
  PROVE  GetInt(to) \in SoundEntries /\ GetInt(to).get = "int" /\ GetInt(to).to = to
<1>1. to \in LeadNames /\ to \notin ByteNames
  BY DEF LeadNames, Leaders, Counts, Special, ByteNames
<1>2. GetInt(to) \in SoundEntries
  BY <1>1, ReadKinds
<1> QED
  BY <1>2 DEF GetInt, Rd

\* The strings of columns and answers, with their length.
StringFields(to, s) ==
  CASE to = "nameLen" -> <<<<"name", s>>>>
    [] to = "idLen"   -> <<<<"id", s>>>>
    [] to = "textLen" -> <<>>

LEMMA StringReads ==
  ASSUME NEW m, NEW to \in {"nameLen", "textLen", "idLen"}, NEW s \in Seq(Byte), Len(s) <= MaxLen, NEW x \in Metas
  PROVE  Reads(m, <<GetInt(to)>>, writeNullTermString(s), StringFields(to, s), x, x)
<1> DEFINE n == Len(s) + 1
           name == CASE to = "nameLen" -> "name" [] to = "idLen" -> "id" [] to = "textLen" -> ""
<1>1. n \in Nat /\ n <= MaxInt /\ n > 0 /\ n >= 0
  BY Bounds
<1>2. n \in Number32
  BY <1>1, LengthType
<1>3. name \in PlainNames /\ name \notin {"proto", "errMsg"} /\ name \notin FineNames
  BY DEF PlainNames, FineNames
<1>4. Fields(name, s) = StringFields(to, s)
  BY DEF Fields, Dropped, StringFields
<1> HIDE DEF name
<1>5. Reads(m, <<GetText(n, name)>>, s \o <<0>>, Fields(name, s), x, x)
  BY <1>3, TextReads
<1>6. \A t : Follows(to, t, n) = <<GetText(n, name)>>
  BY <1>1 DEF Follows, name
<1>7. writeNullTermString(s) = writeInt(n) \o (s \o <<0>>)
  BY TextBytes DEF writeNullTermString, addBytes
<1> HIDE DEF n
<1> DEFINE op == GetInt(to)
<1>8. op \in SoundEntries /\ op.get = "int" /\ op.to = to
  BY IntOf
<1> HIDE DEF op
<1>9. Reads(m, Follows(op.to, op.x, n), s \o <<0>>, StringFields(to, s), x, x)
  BY <1>4, <1>5, <1>6, <1>8
<1>10. Reads(m, <<op>>, writeInt(n) \o (s \o <<0>>), StringFields(to, s), x, x)
  BY <1>1, <1>2, <1>8, <1>9, LengthReads
<1> QED
  BY <1>7, <1>10 DEF op

\* A length of zero: no string at all.
LEMMA NoString ==
  ASSUME NEW m, NEW x \in Metas
  PROVE  /\ Reads(m, <<GetInt("textLen")>>, writeInt(0), <<>>, x, x)
         /\ Reads(m, <<GetInt("idLen")>>, writeInt(0), <<>>, x, x)
<1>1. 0 \in Number32 /\ 0 \in Int /\ 0 >= 0 /\ ~(0 > 0)
  BY Bounds, LengthType
<1>2. writeInt(0) \o <<>> = writeInt(0)
  BY Constants, ConcatEmptySeq
<1>3. Reads(m, <<GetText(0, "")>>, <<>>, <<>>, x, x) /\ Reads(m, <<>>, <<>>, <<>>, x, x)
  BY NothingReads, ReadsNone
<1>4. /\ \A t : Follows("textLen", t, 0) = <<GetText(0, "")>>
      /\ \A t : Follows("idLen", t, 0) = <<>>
  <2>1. \A t : Follows("textLen", t, 0) = <<GetText(0, "")>>
    BY DEF Follows
  <2>2. \A t : Follows("idLen", t, 0) = <<>>
    BY <1>1 DEF Follows
  <2> QED
    BY <2>1, <2>2
<1>5. Reads(m, <<GetInt("textLen")>>, writeInt(0) \o <<>>, <<>>, x, x)
  <2> DEFINE op == GetInt("textLen")
  <2>1. op \in SoundEntries /\ op.get = "int" /\ op.to = "textLen"
    BY IntOf
  <2> HIDE DEF op
  <2>2. Reads(m, Follows(op.to, op.x, 0), <<>>, <<>>, x, x)
    BY <1>3, <1>4, <2>1
  <2>3. Reads(m, <<op>>, writeInt(0) \o <<>>, <<>>, x, x)
    BY <1>1, <2>1, <2>2, LengthReads
  <2> QED
    BY <2>3 DEF op
<1>6. Reads(m, <<GetInt("idLen")>>, writeInt(0) \o <<>>, <<>>, x, x)
  <2> DEFINE op == GetInt("idLen")
  <2>1. op \in SoundEntries /\ op.get = "int" /\ op.to = "idLen"
    BY IntOf
  <2> HIDE DEF op
  <2>2. Reads(m, Follows(op.to, op.x, 0), <<>>, <<>>, x, x)
    BY <1>3, <1>4, <2>1
  <2>3. Reads(m, <<op>>, writeInt(0) \o <<>>, <<>>, x, x)
    BY <1>1, <2>1, <2>2, LengthReads
  <2> QED
    BY <2>3 DEF op
<1> QED
  BY <1>2, <1>5, <1>6

\* The entries of a loop: their bytes W, what they say, F, and what is known
\* before and after each of them, X.
Entrywise(m, e, n, W, F, X) ==
  /\ W \in Seq(Seq(Byte)) /\ F \in Seq(Seq(Field)) /\ Len(W) = n /\ Len(F) = n
  /\ \A i \in 0..n : X[i] \in Metas
  /\ \A i \in 1..n : Reads(m, EntryReads(e, X[i - 1]), W[i], F[i], X[i - 1], X[i])

Loops(m, e, n) ==
  \A W, F, X : Entrywise(m, e, n, W, F, X) =>
    Reads(m, <<Loop(n, e)>>, FlattenSeq(W), FlattenSeq(F), X[0], X[n])

LEMMA LoopOf ==
  ASSUME NEW e \in LoopNames, NEW n \in Int
  PROVE  Loop(n, e) \in SoundEntries /\ Loop(n, e).get = "loop" /\ Loop(n, e).get \notin Gets
         /\ Loop(n, e).to = e /\ Loop(n, e).n = n
<1>1. Loop(n, e) \in SoundEntries
  BY SoundReads DEF LoopNames
<1> QED
  BY <1>1 DEF Loop, Rd, Gets

LEMMA FlattenNone ==
  FlattenSeq(<<>>) = <<>>
<1>1. Len(<<>>) = 0 /\ 0 \in Nat
  OBVIOUS
<1> QED
  BY <1>1, FlattenSteps

LEMMA NoLoops ==
  ASSUME NEW m, NEW e \in LoopNames
  PROVE  Loops(m, e, 0)
<1> SUFFICES ASSUME NEW W, NEW F, NEW X, Entrywise(m, e, 0, W, F, X)
             PROVE  Reads(m, <<Loop(0, e)>>, FlattenSeq(W), FlattenSeq(F), X[0], X[0])
  BY DEF Loops
<1>1. W = <<>> /\ F = <<>> /\ X[0] \in Metas
  BY DEF Entrywise
<1> DEFINE op == Loop(0, e)
<1>2. op \in SoundEntries /\ op.get = "loop" /\ op.get \notin Gets /\ op.n = 0
  BY LoopOf
<1> HIDE DEF op
<1>3. \A r \in Seq(Byte), o \in Seq(Field) : Unrolled(m, op, At(<<>> \o r, o, X[0])) = <<>>
  BY <1>2 DEF Unrolled
<1>4. Reads(m, <<>>, <<>>, <<>>, X[0], X[0])
  BY <1>1, ReadsNone
<1>5. Reads(m, <<op>>, <<>>, <<>>, X[0], X[0])
  BY <1>2, <1>3, <1>4, ReadsUnrolled
<1> QED
  BY <1>1, <1>5, FlattenNone DEF op

LEMMA MoreLoops ==
  ASSUME NEW m, NEW e \in LoopNames, NEW k \in Nat, Loops(m, e, k)
  PROVE  Loops(m, e, k + 1)
<1> DEFINE n == k + 1
<1> SUFFICES ASSUME NEW W, NEW F, NEW X, Entrywise(m, e, n, W, F, X)
             PROVE  Reads(m, <<Loop(n, e)>>, FlattenSeq(W), FlattenSeq(F), X[0], X[n])
  BY DEF Loops
<1>1. n \in Nat /\ n > 0 /\ n - 1 = k /\ 1 \in 1..n /\ 1 - 1 = 0 /\ 0 \in 0..k /\ k \in 0..k
      /\ 0 + 1 = 1 /\ n # 0
  OBVIOUS
<1> DEFINE V == Tail(W)
           G == Tail(F)
           Y == [i \in 0..k |-> X[i + 1]]
<1>2. /\ W \in Seq(Seq(Byte)) /\ F \in Seq(Seq(Field)) /\ Len(W) = n /\ Len(F) = n
      /\ \A i \in 0..n : X[i] \in Metas
      /\ \A i \in 1..n : Reads(m, EntryReads(e, X[i - 1]), W[i], F[i], X[i - 1], X[i])
  BY DEF Entrywise
<1>3. W # <<>> /\ F # <<>>
  BY <1>1, <1>2
<1>4. /\ V \in Seq(Seq(Byte)) /\ Len(V) = k /\ W[1] = Head(W) /\ \A i \in 1..k : V[i] = W[i + 1]
      /\ G \in Seq(Seq(Field)) /\ Len(G) = k /\ F[1] = Head(F) /\ \A i \in 1..k : G[i] = F[i + 1]
  <2>1. V \in Seq(Seq(Byte)) /\ Len(W) = Len(V) + 1 /\ W[1] = Head(W) /\ \A i \in 1..Len(V) : W[i + 1] = V[i]
    BY <1>2, <1>3, Uncons
  <2>2. G \in Seq(Seq(Field)) /\ Len(F) = Len(G) + 1 /\ F[1] = Head(F) /\ \A i \in 1..Len(G) : F[i + 1] = G[i]
    BY <1>2, <1>3, Uncons
  <2>3. Len(V) \in Nat /\ Len(G) \in Nat
    BY <2>1, <2>2
  <2>4. Len(V) = k /\ Len(G) = k
    <3>1. Len(V) + 1 = k + 1 /\ Len(G) + 1 = k + 1
      BY <1>2, <2>1, <2>2
    <3> HIDE DEF V, G
    <3> QED
      BY <2>3, <3>1
  <2> QED
    BY <2>1, <2>2, <2>4
<1>5. FlattenSeq(W) = W[1] \o FlattenSeq(V) /\ FlattenSeq(F) = F[1] \o FlattenSeq(G)
  BY <1>2, <1>3, <1>4, FlattenHead
<1> HIDE DEF V, G
<1>6. Y[0] = X[1] /\ Y[k] = X[n] /\ \A i \in 0..k : Y[i] = X[i + 1]
  BY <1>1
<1>7. Entrywise(m, e, k, V, G, Y)
  <2>1. ASSUME NEW i \in 0..k PROVE Y[i] \in Metas
    BY <1>2, <1>6
  <2>2. ASSUME NEW i \in 1..k PROVE Reads(m, EntryReads(e, Y[i - 1]), V[i], G[i], Y[i - 1], Y[i])
    <3> DEFINE j == i + 1
               h == i - 1
    <3>1. j \in 1..n /\ j - 1 = i /\ h + 1 = i /\ h \in 0..k /\ i \in 0..k
      OBVIOUS
    <3>2. V[i] = W[j] /\ G[i] = F[j] /\ Y[i] = X[j] /\ Y[h] = X[h + 1]
      BY <1>4, <1>6, <3>1
    <3> HIDE DEF j, Y
    <3>3. Reads(m, EntryReads(e, X[j - 1]), W[j], F[j], X[j - 1], X[j])
      BY <1>2, <3>1
    <3> QED
      BY <3>1, <3>2, <3>3
  <2> HIDE DEF Y
  <2> QED
    BY <1>4, <2>1, <2>2 DEF Entrywise
<1> HIDE DEF Y, n
<1>8. Reads(m, <<Loop(k, e)>>, FlattenSeq(V), FlattenSeq(G), X[1], X[n])
  BY <1>6, <1>7 DEF Loops
<1>9. Reads(m, EntryReads(e, X[0]), W[1], F[1], X[0], X[1])
  BY <1>1, <1>2
<1>10. Reads(m, EntryReads(e, X[0]) \o <<Loop(k, e)>>, FlattenSeq(W), FlattenSeq(F), X[0], X[n])
  BY <1>5, <1>8, <1>9, ReadsJoin
<1> DEFINE op == Loop(n, e)
<1>11. op \in SoundEntries /\ op.get = "loop" /\ op.get \notin Gets /\ op.n = n /\ op.to = e
  BY <1>1, LoopOf
<1> HIDE DEF op
<1>12. ASSUME NEW r \in Seq(Byte), NEW o \in Seq(Field)
       PROVE  Unrolled(m, op, At(FlattenSeq(W) \o r, o, X[0])) = EntryReads(e, X[0]) \o <<Loop(k, e)>>
  <2>1. At(FlattenSeq(W) \o r, o, X[0]).meta = X[0]
    BY DEF At
  <2> QED
    BY <1>1, <1>11, <2>1 DEF Unrolled
<1>13. Reads(m, <<op>>, FlattenSeq(W), FlattenSeq(F), X[0], X[n])
  BY <1>10, <1>11, <1>12, ReadsUnrolled
<1> QED
  BY <1>13 DEF op, n

LEMMA LoopReads ==
  ASSUME NEW m, NEW e \in LoopNames, NEW n \in Nat, NEW W, NEW F, NEW X, Entrywise(m, e, n, W, F, X)
  PROVE  Reads(m, <<Loop(n, e)>>, FlattenSeq(W), FlattenSeq(F), X[0], X[n])
<1> DEFINE P == {k \in Nat : Loops(m, e, k)}
<1>1. 0 \in P /\ \A k \in Nat : k \in P => k + 1 \in P
  BY NoLoops, MoreLoops
<1> HIDE DEF P
<1>2. Nat \subseteq P
  BY <1>1, SetInduction
<1> QED
  BY <1>2 DEF P, Loops

\* Reads next to each other that leave what is known as it is.
Together(m, n, ops, W, F, x) ==
  /\ ops \in Ops /\ W \in Seq(Seq(Byte)) /\ F \in Seq(Seq(Field)) /\ x \in Metas
  /\ Len(ops) = n /\ Len(W) = n /\ Len(F) = n
  /\ \A i \in 1..n : Reads(m, <<ops[i]>>, W[i], F[i], x, x)

AllTogether(m, n) ==
  \A ops, W, F, x : Together(m, n, ops, W, F, x) => Reads(m, ops, FlattenSeq(W), FlattenSeq(F), x, x)

LEMMA NoneTogether ==
  ASSUME NEW m
  PROVE  AllTogether(m, 0)
<1> SUFFICES ASSUME NEW ops, NEW W, NEW F, NEW x, Together(m, 0, ops, W, F, x)
             PROVE  Reads(m, ops, FlattenSeq(W), FlattenSeq(F), x, x)
  BY DEF AllTogether
<1>1. ops = <<>> /\ W = <<>> /\ F = <<>> /\ x \in Metas
  BY DEF Together, Ops
<1>2. Reads(m, <<>>, <<>>, <<>>, x, x)
  BY <1>1, ReadsNone
<1> QED
  BY <1>1, <1>2, FlattenNone

LEMMA MoreTogether ==
  ASSUME NEW m, NEW k \in Nat, AllTogether(m, k)
  PROVE  AllTogether(m, k + 1)
<1> DEFINE n == k + 1
<1> SUFFICES ASSUME NEW ops, NEW W, NEW F, NEW x, Together(m, n, ops, W, F, x)
             PROVE  Reads(m, ops, FlattenSeq(W), FlattenSeq(F), x, x)
  BY DEF AllTogether
<1>1. n \in Nat /\ n # 0 /\ 1 \in 1..n /\ \A i \in 1..k : i + 1 \in 1..n
  OBVIOUS
<1> DEFINE t == Tail(ops)
           V == Tail(W)
           G == Tail(F)
<1>2. /\ ops \in Seq(SoundEntries) /\ W \in Seq(Seq(Byte)) /\ F \in Seq(Seq(Field)) /\ x \in Metas
      /\ Len(ops) = n /\ Len(W) = n /\ Len(F) = n
      /\ \A i \in 1..n : Reads(m, <<ops[i]>>, W[i], F[i], x, x)
  BY DEF Together, Ops
<1>3. ops # <<>> /\ W # <<>> /\ F # <<>>
  BY <1>1, <1>2
<1>4. ASSUME NEW S, NEW s \in Seq(S), s # <<>>, Len(s) = n
      PROVE  Tail(s) \in Seq(S) /\ Len(Tail(s)) = k /\ s[1] = Head(s) /\ \A i \in 1..k : Tail(s)[i] = s[i + 1]
  <2>1. Tail(s) \in Seq(S) /\ Len(s) = Len(Tail(s)) + 1 /\ s[1] = Head(s) /\ \A i \in 1..Len(Tail(s)) : s[i + 1] = Tail(s)[i]
    BY <1>4, Uncons
  <2>2. Len(Tail(s)) \in Nat
    BY <2>1
  <2>3. Len(Tail(s)) = k
    BY <1>4, <2>1, <2>2
  <2> QED
    BY <2>1, <2>3
<1>5. /\ t \in Ops /\ Len(t) = k /\ ops[1] = Head(ops) /\ \A i \in 1..k : t[i] = ops[i + 1]
      /\ V \in Seq(Seq(Byte)) /\ Len(V) = k /\ W[1] = Head(W) /\ \A i \in 1..k : V[i] = W[i + 1]
      /\ G \in Seq(Seq(Field)) /\ Len(G) = k /\ F[1] = Head(F) /\ \A i \in 1..k : G[i] = F[i + 1]
  BY <1>2, <1>3, <1>4 DEF Ops
<1>6. FlattenSeq(W) = W[1] \o FlattenSeq(V) /\ FlattenSeq(F) = F[1] \o FlattenSeq(G)
  BY <1>2, <1>3, <1>5, FlattenHead
<1>7. ops = <<ops[1]>> \o t
  <2> DEFINE u == <<ops[1]>> \o t
  <2>1. ops[1] \in SoundEntries
    BY <1>2, <1>3, <1>5, Uncons
  <2>2. u \in Seq(SoundEntries) /\ u # <<>> /\ Head(u) = ops[1] /\ Tail(u) = t
    <3>1. t \in Seq(SoundEntries)
      BY <1>5 DEF Ops
    <3> HIDE DEF t
    <3> QED
      BY <2>1, <3>1, ConsOf
  <2> HIDE DEF u
  <2>3. ops = u
    BY <1>2, <1>3, <1>5, <2>2, Unique
  <2> QED
    BY <2>3 DEF u
<1> HIDE DEF t, V, G, n
<1>8. ASSUME NEW i \in 1..k PROVE Reads(m, <<t[i]>>, V[i], G[i], x, x)
  <2> DEFINE j == i + 1
  <2>1. j \in 1..n /\ t[i] = ops[j] /\ V[i] = W[j] /\ G[i] = F[j]
    BY <1>1, <1>5
  <2> HIDE DEF j
  <2> QED
    BY <1>2, <2>1
<1>9. Together(m, k, t, V, G, x)
  BY <1>2, <1>5, <1>8 DEF Together
<1>10. Reads(m, t, FlattenSeq(V), FlattenSeq(G), x, x)
  BY <1>9 DEF AllTogether
<1>11. Reads(m, <<ops[1]>>, W[1], F[1], x, x)
  BY <1>1, <1>2
<1>12. Reads(m, <<ops[1]>> \o t, W[1] \o FlattenSeq(V), F[1] \o FlattenSeq(G), x, x)
  BY <1>10, <1>11, ReadsJoin
<1> QED
  BY <1>6, <1>7, <1>12

LEMMA TogetherReads ==
  ASSUME NEW m, NEW n \in Nat, NEW ops, NEW W, NEW F, NEW x, Together(m, n, ops, W, F, x)
  PROVE  Reads(m, ops, FlattenSeq(W), FlattenSeq(F), x, x)
<1> DEFINE P == {k \in Nat : AllTogether(m, k)}
<1>1. 0 \in P /\ \A k \in Nat : k \in P => k + 1 \in P
  BY NoneTogether, MoreTogether
<1> HIDE DEF P
<1>2. Nat \subseteq P
  BY <1>1, SetInduction
<1> QED
  BY <1>2 DEF P, AllTogether

LEMMA SameSequence ==
  ASSUME NEW S, NEW s \in Seq(S), NEW t \in Seq(S), NEW u \in Seq(S), Len(u) = Len(s) + Len(t),
         \A i \in 1..Len(s) : u[i] = s[i], \A i \in 1..Len(t) : u[Len(s) + i] = t[i]
  PROVE  s \o t = u
<1> DEFINE v == s \o t
           k == Len(s)
           l == Len(t)
<1>1. v \in Seq(S) /\ Len(v) = k + l /\ (\A j \in 1..k : v[j] = s[j]) /\ \A j \in 1..l : v[k + j] = t[j]
  BY Joined
<1>2. k \in Nat /\ l \in Nat
  OBVIOUS
<1>3. Len(u) = k + l /\ (\A i \in 1..k : u[i] = s[i]) /\ \A i \in 1..l : u[k + i] = t[i]
  OBVIOUS
<1> HIDE DEF v, k, l
<1>4. ASSUME NEW i \in 1..k + l PROVE v[i] = u[i]
  <2>1. CASE i <= k
    BY <1>1, <1>2, <1>3, <2>1
  <2>2. CASE i > k
    <3> DEFINE j == i - k
    <3>1. j \in 1..l /\ i = k + j
      BY <1>2, <2>2
    <3> HIDE DEF j
    <3> QED
      BY <1>1, <1>3, <3>1
  <2> QED
    BY <1>2, <2>1, <2>2
<1>5. v = u
  BY <1>1, <1>3, <1>4, SeqEqual
<1> QED
  BY <1>5 DEF v

\* One more entry.
LEMMA TwoJoin ==
  ASSUME NEW S, NEW a \in S, NEW b \in S
  PROVE  <<a>> \o <<b>> = <<a, b>>
<1> DEFINE s == <<a>>
           t == <<b>>
           u == <<a, b>>
<1>1. s \in Seq(S) /\ t \in Seq(S) /\ u \in Seq(S)
  OBVIOUS
<1>2. Len(u) = Len(s) + Len(t)
  OBVIOUS
<1>3. Len(s) = 1 /\ Len(t) = 1 /\ u[1] = s[1] /\ u[1 + 1] = t[1]
  OBVIOUS
<1> HIDE DEF s, t, u
<1>4. (\A n \in 1..Len(s) : u[n] = s[n]) /\ \A n \in 1..Len(t) : u[Len(s) + n] = t[n]
  BY <1>3
<1>5. s \o t = u
  BY <1>1, <1>2, <1>4, SameSequence
<1> QED
  BY <1>5 DEF s, t, u

LEMMA ThreeJoin ==
  ASSUME NEW S, NEW a \in S, NEW b \in S, NEW c \in S
  PROVE  <<a, b>> \o <<c>> = <<a, b, c>>
<1> DEFINE s == <<a, b>>
           t == <<c>>
           u == <<a, b, c>>
<1>1. s \in Seq(S) /\ t \in Seq(S) /\ u \in Seq(S)
  OBVIOUS
<1>2. Len(u) = Len(s) + Len(t)
  OBVIOUS
<1>4. (\A n \in 1..Len(s) : u[n] = s[n]) /\ \A n \in 1..Len(t) : u[Len(s) + n] = t[n]
  OBVIOUS
<1> HIDE DEF s, t, u
<1>5. s \o t = u
  BY <1>1, <1>2, <1>4, SameSequence
<1> QED
  BY <1>5 DEF s, t, u

LEMMA FourJoin ==
  ASSUME NEW S, NEW a \in S, NEW b \in S, NEW c \in S, NEW d \in S
  PROVE  <<a, b, c>> \o <<d>> = <<a, b, c, d>>
<1> DEFINE s == <<a, b, c>>
           t == <<d>>
           u == <<a, b, c, d>>
<1>1. s \in Seq(S) /\ t \in Seq(S) /\ u \in Seq(S)
  OBVIOUS
<1>2. Len(u) = Len(s) + Len(t)
  OBVIOUS
<1>4. (\A n \in 1..Len(s) : u[n] = s[n]) /\ \A n \in 1..Len(t) : u[Len(s) + n] = t[n]
  OBVIOUS
<1> HIDE DEF s, t, u
<1>5. s \o t = u
  BY <1>1, <1>2, <1>4, SameSequence
<1> QED
  BY <1>5 DEF s, t, u

LEMMA FiveJoin ==
  ASSUME NEW S, NEW a \in S, NEW b \in S, NEW c \in S, NEW d \in S, NEW e \in S
  PROVE  <<a, b, c, d>> \o <<e>> = <<a, b, c, d, e>>
<1> DEFINE s == <<a, b, c, d>>
           t == <<e>>
           u == <<a, b, c, d, e>>
<1>1. s \in Seq(S) /\ t \in Seq(S) /\ u \in Seq(S)
  OBVIOUS
<1>2. Len(u) = Len(s) + Len(t)
  OBVIOUS
<1>4. (\A n \in 1..Len(s) : u[n] = s[n]) /\ \A n \in 1..Len(t) : u[Len(s) + n] = t[n]
  OBVIOUS
<1> HIDE DEF s, t, u
<1>5. s \o t = u
  BY <1>1, <1>2, <1>4, SameSequence
<1> QED
  BY <1>5 DEF s, t, u

LEMMA SixJoin ==
  ASSUME NEW S, NEW a \in S, NEW b \in S, NEW c \in S, NEW d \in S, NEW e \in S, NEW f \in S
  PROVE  <<a, b, c, d, e>> \o <<f>> = <<a, b, c, d, e, f>>
<1> DEFINE s == <<a, b, c, d, e>>
           t == <<f>>
           u == <<a, b, c, d, e, f>>
<1>1. s \in Seq(S) /\ t \in Seq(S) /\ u \in Seq(S)
  OBVIOUS
<1>2. Len(u) = Len(s) + Len(t)
  OBVIOUS
<1>4. (\A n \in 1..Len(s) : u[n] = s[n]) /\ \A n \in 1..Len(t) : u[Len(s) + n] = t[n]
  OBVIOUS
<1> HIDE DEF s, t, u
<1>5. s \o t = u
  BY <1>1, <1>2, <1>4, SameSequence
<1> QED
  BY <1>5 DEF s, t, u

LEMMA SevenJoin ==
  ASSUME NEW S, NEW a \in S, NEW b \in S, NEW c \in S, NEW d \in S, NEW e \in S, NEW f \in S,
         NEW g \in S
  PROVE  <<a, b, c, d, e, f>> \o <<g>> = <<a, b, c, d, e, f, g>>
<1> DEFINE s == <<a, b, c, d, e, f>>
           t == <<g>>
           u == <<a, b, c, d, e, f, g>>
<1>1. s \in Seq(S) /\ t \in Seq(S) /\ u \in Seq(S)
  OBVIOUS
<1>2. Len(u) = Len(s) + Len(t)
  OBVIOUS
<1>4. (\A n \in 1..Len(s) : u[n] = s[n]) /\ \A n \in 1..Len(t) : u[Len(s) + n] = t[n]
  OBVIOUS
<1> HIDE DEF s, t, u
<1>5. s \o t = u
  BY <1>1, <1>2, <1>4, SameSequence
<1> QED
  BY <1>5 DEF s, t, u

LEMMA EightJoin ==
  ASSUME NEW S, NEW a \in S, NEW b \in S, NEW c \in S, NEW d \in S, NEW e \in S, NEW f \in S,
         NEW g \in S, NEW h \in S
  PROVE  <<a, b, c, d, e, f, g>> \o <<h>> = <<a, b, c, d, e, f, g, h>>
<1> DEFINE s == <<a, b, c, d, e, f, g>>
           t == <<h>>
           u == <<a, b, c, d, e, f, g, h>>
<1>1. s \in Seq(S) /\ t \in Seq(S) /\ u \in Seq(S)
  OBVIOUS
<1>2. Len(u) = Len(s) + Len(t)
  OBVIOUS
<1>4. (\A n \in 1..Len(s) : u[n] = s[n]) /\ \A n \in 1..Len(t) : u[Len(s) + n] = t[n]
  OBVIOUS
<1> HIDE DEF s, t, u
<1>5. s \o t = u
  BY <1>1, <1>2, <1>4, SameSequence
<1> QED
  BY <1>5 DEF s, t, u

LEMMA FifteenJoin ==
  ASSUME NEW S, NEW a \in S, NEW b \in S, NEW c \in S, NEW d \in S, NEW e \in S, NEW f \in S
  PROVE  <<a, b, c, d, e, e, f, e>> \o <<f, f, f, f, f, f, f>> = <<a, b, c, d, e, e, f, e, f, f, f, f, f, f, f>>
<1> DEFINE s == <<a, b, c, d, e, e, f, e>>
           t == <<f, f, f, f, f, f, f>>
           u == <<a, b, c, d, e, e, f, e, f, f, f, f, f, f, f>>
<1>1. s \in Seq(S) /\ t \in Seq(S) /\ u \in Seq(S)
  OBVIOUS
<1>2. Len(s) = 8 /\ Len(t) = 7 /\ Len(u) = 15
  OBVIOUS
<1>3. \A i \in 1..8 : u[i] = s[i]
  OBVIOUS
<1>4. \A i \in 1..7 : u[8 + i] = t[i]
  OBVIOUS
<1> HIDE DEF s, t, u
<1>5. Len(u) = Len(s) + Len(t)
  BY <1>2
<1>6. \A i \in 1..Len(s) : u[i] = s[i]
  BY <1>2, <1>3
<1>7. \A i \in 1..Len(t) : u[Len(s) + i] = t[i]
  BY <1>2, <1>4
<1>8. s \o t = u
  BY <1>1, <1>5, <1>6, <1>7, SameSequence
<1> QED
  BY <1>8 DEF s, t, u

\* Two sequences of reads, one of which returns nothing.
LEMMA ReadsQuiet ==
  ASSUME NEW m, NEW p, NEW q, NEW v, NEW w, NEW g, NEW x, NEW y, NEW z,
         Reads(m, p, v, g, x, y), Reads(m, q, w, <<>>, y, z)
  PROVE  Reads(m, p \o q, v \o w, g, x, z)
<1>1. Reads(m, p \o q, v \o w, g \o <<>>, x, z)
  BY ReadsJoin
<1>2. g \o <<>> = g
  BY ConcatEmptySeq DEF Reads
<1> QED
  BY <1>1, <1>2

LEMMA QuietReads ==
  ASSUME NEW m, NEW p, NEW q, NEW v, NEW w, NEW h, NEW x, NEW y, NEW z,
         Reads(m, p, v, <<>>, x, y), Reads(m, q, w, h, y, z)
  PROVE  Reads(m, p \o q, v \o w, h, x, z)
<1>1. Reads(m, p \o q, v \o w, <<>> \o h, x, z)
  BY ReadsJoin
<1>2. <<>> \o h = h
  BY ConcatEmptySeq DEF Reads
<1> QED
  BY <1>1, <1>2

\* Values that are dropped.
LEMMA SkipReads ==
  ASSUME NEW m, NEW x \in Metas
  PROVE  /\ \A n \in Number32 : Reads(m, <<GetInt("")>>, writeInt(n), <<>>, x, x)
         /\ \A n \in Number16 : Reads(m, <<GetShort("")>>, writeShort(n), <<>>, x, x)
         /\ \A b \in Byte : Reads(m, <<GetByte("")>>, <<b>>, <<>>, x, x)
         /\ \A w \in Seq(Byte) : Reads(m, <<GetRaw(Len(w), "")>>, w, <<>>, x, x)
<1>1. "" \in PlainNames /\ "" \notin {"proto", "errMsg"} /\ "" \notin FineNames
  BY DEF PlainNames, FineNames
<1>2. \A v : Fields("", v) = <<>>
  BY DEF Fields, Dropped
<1> QED
  BY <1>1, <1>2, NumberReads, ShortReads, ByteReads, RawReads

\* Bytes that are dropped, seven of them.
LEMMA SevenReads ==
  ASSUME NEW m, NEW x \in Metas
  PROVE  LET f == GetByte("") IN Reads(m, <<f, f, f, f, f, f, f>>, writeFiller(7), <<>>, x, x)
<1> DEFINE f == GetByte("")
<1>1. f \in SoundEntries /\ 0 \in Byte
  <2>1. "" \in PlainNames /\ 0 \in Byte
    BY DEF PlainNames, Byte
  <2> QED
    BY <2>1, ReadKinds
<1>2. Reads(m, <<f>>, <<0>>, <<>>, x, x)
  BY <1>1, SkipReads
<1> HIDE DEF f
<1>3. Reads(m, <<f, f>>, <<0, 0>>, <<>>, x, x)
  <2>1. <<f>> \o <<f>> = <<f, f>> /\ <<0>> \o <<0>> = <<0, 0>>
    BY <1>1, TwoJoin
  <2> QED
    BY <1>2, <2>1, ReadsQuiet
<1>4. Reads(m, <<f, f, f>>, <<0, 0, 0>>, <<>>, x, x)
  <2>1. <<f, f>> \o <<f>> = <<f, f, f>> /\ <<0, 0>> \o <<0>> = <<0, 0, 0>>
    BY <1>1, ThreeJoin
  <2> QED
    BY <1>2, <1>3, <2>1, ReadsQuiet
<1>5. Reads(m, <<f, f, f, f>>, <<0, 0, 0, 0>>, <<>>, x, x)
  <2>1. <<f, f, f>> \o <<f>> = <<f, f, f, f>> /\ <<0, 0, 0>> \o <<0>> = <<0, 0, 0, 0>>
    BY <1>1, FourJoin
  <2> QED
    BY <1>2, <1>4, <2>1, ReadsQuiet
<1>6. Reads(m, <<f, f, f, f, f>>, <<0, 0, 0, 0, 0>>, <<>>, x, x)
  <2>1. <<f, f, f, f>> \o <<f>> = <<f, f, f, f, f>> /\ <<0, 0, 0, 0>> \o <<0>> = <<0, 0, 0, 0, 0>>
    BY <1>1, FiveJoin
  <2> QED
    BY <1>2, <1>5, <2>1, ReadsQuiet
<1>7. Reads(m, <<f, f, f, f, f, f>>, <<0, 0, 0, 0, 0, 0>>, <<>>, x, x)
  <2>1. <<f, f, f, f, f>> \o <<f>> = <<f, f, f, f, f, f>> /\ <<0, 0, 0, 0, 0>> \o <<0>> = <<0, 0, 0, 0, 0, 0>>
    BY <1>1, SixJoin
  <2> QED
    BY <1>2, <1>6, <2>1, ReadsQuiet
<1>8. Reads(m, <<f, f, f, f, f, f, f>>, <<0, 0, 0, 0, 0, 0, 0>>, <<>>, x, x)
  <2>1. <<f, f, f, f, f, f>> \o <<f>> = <<f, f, f, f, f, f, f>>
    BY <1>1, SevenJoin
  <2>2. <<0, 0, 0, 0, 0, 0>> \o <<0>> = <<0, 0, 0, 0, 0, 0, 0>>
    BY <1>1, SevenJoin
  <2> QED
    BY <1>2, <1>7, <2>1, <2>2, ReadsQuiet
<1>9. <<0, 0, 0, 0, 0, 0, 0>> = writeFiller(7)
  <2> DEFINE u == <<0, 0, 0, 0, 0, 0, 0>>
  <2>1. u \in Seq(Byte) /\ Len(u) = 7 /\ \A i \in 1..7 : u[i] = 0
    BY <1>1
  <2>2. writeFiller(7) \in Seq(Byte) /\ Len(writeFiller(7)) = 7
    BY FillerType
  <2>3. \A i \in 1..7 : writeFiller(7)[i] = 0
    BY DEF writeFiller
  <2> HIDE DEF u
  <2> QED
    BY <2>1, <2>2, <2>3, SeqEqual
<1> QED
  BY <1>8, <1>9 DEF f

\* What is known of the columns with one more type.
Added(x, t) == [stmt |-> x.stmt, cols |-> x.cols \o <<t>>]

LEMMA AddedType ==
  ASSUME NEW x \in Metas, NEW t \in Byte
  PROVE  Added(x, t) \in Metas
<1>1. x.cols \o <<t>> \in Seq(Byte)
  BY ConcatProperties, TupleTypes DEF Metas
<1> QED
  BY <1>1 DEF Added, Metas

\* The type of a column is one byte, or the second of two.
LEMMA TypeReads ==
  ASSUME NEW m, NEW c \in Column, NEW x \in Metas
  PROVE  Reads(m, <<GetByte("legacyType")>>, IF c.wide THEN <<128, c.t>> ELSE <<c.t>>,
               <<One("colType", c.t)>>, x, Added(x, c.t))
<1>1. c.t \in Byte /\ c.t \in Int /\ c.t < 128 /\ 128 \in Byte
  BY DEF Column, Byte
<1> DEFINE y == Added(x, c.t)
           v == <<c.t>>
           op == GetByte("legacyType")
<1>2. y \in Metas
  BY <1>1, AddedType
<1>3. /\ op \in SoundEntries /\ op.get = "byte" /\ op.to = "legacyType" /\ op.n = 1 /\ op.get \in Gets
  <2>1. "legacyType" \in PlainNames \cup ByteNames
    BY DEF ByteNames
  <2> QED
    BY <2>1, ReadKinds DEF GetByte, Rd, Gets
<1>4. v \in Seq(Byte) /\ Len(v) = 1 /\ v \in Seq(Int) /\ v[1] = c.t /\ First(v) = c.t
  BY <1>1, SmallBytes DEF First
<1>5. <<One("colType", c.t)>> = <<<<"colType", v>>>> /\ <<One("colType", c.t)>> \in Seq(Field)
  <2>1. "colType" \in ToNames
    BY DEF ToNames, ByteNames
  <2>2. <<"colType", v>> \in Field
    BY <1>4, <2>1 DEF Field
  <2> QED
    BY <2>2, TupleTypes DEF One
<1> DEFINE g == <<<<"colType", v>>>>
<1>6. Reads(m, <<>>, <<>>, <<>>, y, y)
  BY <1>2, ReadsNone
<1>7. v \o <<>> = v /\ g \o <<>> = g
  BY <1>4, <1>5, ConcatEmptySeq
<1>8. CASE ~c.wide
  <2>1. Fields("legacyType", v) = g /\ ColumnTypes("legacyType", v) = <<c.t>> /\ ~Failed("legacyType", v)
    <3>1. v[1] < 128
      BY <1>1, <1>4
    <3> HIDE DEF v
    <3>2. Fields("legacyType", v) = g
      BY <3>1 DEF Fields
    <3>3. ColumnTypes("legacyType", v) = <<v[1]>> /\ ~Failed("legacyType", v)
      BY <3>1 DEF ColumnTypes, Failed
    <3> QED
      BY <1>4, <3>2, <3>3
  <2>2. Fine("legacyType", v) /\ Learned("legacyType", v, x) = y
    BY <2>1 DEF Fine, Counts, Learned, Added
  <2>3. Later(m, op, x, First(v)) = <<>>
    BY <1>1, <1>3, <1>4 DEF Later, Follows
  <2>4. v = ValueOf(op.get, v)
    BY <1>3 DEF ValueOf
  <2> HIDE DEF v, g, op, y
  <2>5. g \in Seq(Field)
    BY <1>5 DEF g
  <2>6. Reads(m, <<op>>, v \o <<>>, g \o <<>>, x, y)
    BY <1>2, <1>3, <1>4, <1>6, <2>1, <2>2, <2>3, <2>4, <2>5, ReadsValue
  <2> QED
    BY <1>5, <1>7, <1>8, <2>6 DEF op, g, y, v
<1>9. CASE c.wide
  <2> DEFINE u == <<128>>
             p == GetByte("colType")
  <2>1. u \in Seq(Byte) /\ Len(u) = 1 /\ u[1] = 128 /\ First(u) = 128 /\ <<>> \in Seq(Field)
    BY <1>1, SmallBytes, TupleTypes DEF First
  <2>2. Fields("legacyType", u) = <<>> /\ ColumnTypes("legacyType", u) = <<>> /\ ~Failed("legacyType", u)
    BY DEF Fields, ColumnTypes, Failed, Dropped
  <2>3. Fine("legacyType", u) /\ Learned("legacyType", u, x) = x
    <3>1. x.cols \o <<>> = x.cols /\ x = [stmt |-> x.stmt, cols |-> x.cols]
      BY ConcatEmptySeq DEF Metas
    <3> QED
      BY <2>2, <3>1 DEF Fine, Counts, Learned
  <2>4. Later(m, op, x, First(u)) = <<p>>
    BY <1>3, <2>1 DEF Later, Follows
  <2>5. u = ValueOf(op.get, u) /\ v = ValueOf("byte", v)
    BY <1>3 DEF ValueOf
  <2>6. p \in SoundEntries /\ p.get = "byte" /\ p.to = "colType" /\ p.n = 1
    <3>1. "colType" \in PlainNames \cup ByteNames
      BY DEF ByteNames
    <3> QED
      BY <3>1, ReadKinds DEF GetByte, Rd
  <2>7. Fields("colType", v) = g /\ ColumnTypes("colType", v) = <<c.t>> /\ ~Failed("colType", v)
    BY <1>4 DEF Fields, ColumnTypes, Failed, Dropped
  <2>8. Fine("colType", v) /\ Learned("colType", v, x) = y
    BY <2>7 DEF Fine, Counts, Learned, Added
  <2>9. Later(m, p, x, First(v)) = <<>>
    BY <2>6 DEF Later, Follows
  <2>10. <<128, c.t>> = u \o v
    <3>1. \A a, b \in Byte : <<a>> \o <<b>> = <<a, b>>
      BY TwoJoin
    <3> QED
      BY <1>1, <3>1
  <2> HIDE DEF v, g, op, y, u, p
  <2>11. g \in Seq(Field) /\ p.get \in Gets
    BY <1>5, <2>6 DEF g, Gets
  <2>12. Reads(m, <<p>>, v \o <<>>, g \o <<>>, x, y)
    BY <1>2, <1>4, <1>6, <2>5, <2>6, <2>7, <2>8, <2>9, <2>11, ReadsValue
  <2>13. Reads(m, <<p>>, v, g, x, y)
    BY <1>7, <2>12
  <2>14. Reads(m, <<op>>, u \o v, <<>> \o g, x, y)
    <3>1. Fields(op.to, u) = <<>> /\ Fine(op.to, u) /\ x = Learned(op.to, u, x) /\ op.to # "bindLen"
      BY <1>3, <2>2, <2>3
    <3> DEFINE f == <<p>>
               w == <<>>
    <3>2. Reads(m, f, v, g, x, y) /\ f = Later(m, op, x, First(u)) /\ w = Fields(op.to, u) /\ w \in Seq(Field)
      BY <2>1, <2>4, <2>13, <3>1
    <3>3. Len(u) = op.n /\ u \in Seq(Byte) /\ op \in SoundEntries /\ op.get \in Gets /\ u = ValueOf(op.get, u)
      BY <1>3, <2>1, <2>5
    <3> HIDE DEF f, w
    <3>4. Reads(m, <<op>>, u \o v, w \o g, x, y)
      BY <3>1, <3>2, <3>3, ReadsValue
    <3> QED
      BY <3>4 DEF w
  <2>15. <<>> \o g = g
    BY <2>11, ConcatEmptySeq
  <2> QED
    BY <1>5, <1>9, <2>10, <2>14, <2>15 DEF op, g, y, v
<1>10. c.wide \in BOOLEAN
  BY DEF Column
<1> QED
  BY <1>8, <1>9, <1>10

-----------------------------------------------------------------------------
(***************************************************************************)
(* The columns of a statement and the results of its execution.            *)
(***************************************************************************)
ColumnSaid(c) == <<One("colType", c.t), <<"name", c.name>>>>
InfoSaid(i) == <<One("infoStmt", i.stmt), One("infoCount", i.count)>>

LEMMA SmallConstants ==
  /\ 0 \in Byte /\ 1 \in Byte /\ 0 \in Number16 /\ 0 \in Number32 /\ 1 \in Number32 /\ -1 \in Number32
  /\ 0 \in Int /\ 1 \in Int
<1>1. 0 \in Byte /\ 1 \in Byte
  BY DEF Byte
<1>2. 0 \in Number16
  BY DEF Number16, MaxShort
<1>3. -1 \in Number32 /\ 0 \in Number32 /\ 1 \in Number32
  BY Bounds, <1>1 DEF Number32
<1> QED
  BY <1>1, <1>2, <1>3

LEMMA ColumnReads ==
  ASSUME NEW m, NEW c \in Column, NEW x \in Metas
  PROVE  Reads(m, parseColumnMetadata, ColumnBytes(c), ColumnSaid(c), x, Added(x, c.t))
<1> DEFINE y == Added(x, c.t)
           a == GetByte("legacyType")
           b == GetShort("")
           i == GetInt("")
           d == GetInt("nameLen")
           e == GetInt("textLen")
           f == GetByte("")
           first == IF c.wide THEN <<128, c.t>> ELSE <<c.t>>
           type == <<One("colType", c.t)>>
           name == <<<<"name", c.name>>>>
<1>1. c.t \in Byte /\ c.name \in Seq(Byte) /\ Len(c.name) <= MaxLen /\ <<>> \in Seq(Byte) /\ Len(<<>>) <= MaxLen
  <2>1. c.t \in Byte
    BY DEF Column, Byte
  <2>2. c.name \in Text
    BY DEF Column
  <2> QED
    BY <2>1, <2>2, Bounds DEF Text
<1>2. y \in Metas
  BY <1>1, AddedType
<1>3. /\ a \in SoundEntries /\ b \in SoundEntries /\ i \in SoundEntries /\ d \in SoundEntries
      /\ e \in SoundEntries /\ f \in SoundEntries
  <2>1. "" \in PlainNames /\ "legacyType" \in PlainNames \cup ByteNames /\ "" \notin ByteNames
    BY DEF PlainNames, ByteNames
  <2> QED
    BY <2>1, ReadKinds, IntOf
<1>4. Reads(m, <<a>>, first, type, x, y)
  BY TypeReads
<1>5. Reads(m, <<b>>, writeShort(0), <<>>, y, y) /\ Reads(m, <<i>>, writeInt(-1), <<>>, y, y)
      /\ Reads(m, <<f>>, <<1>>, <<>>, y, y)
  BY <1>2, SmallConstants, SkipReads
<1>6. Reads(m, <<d>>, writeNullTermString(c.name), name, y, y)
  <2>1. StringFields("nameLen", c.name) = name
    BY DEF StringFields
  <2> QED
    BY <1>1, <1>2, <2>1, StringReads
<1>7. Reads(m, <<e>>, writeNullTermString(<<>>), <<>>, y, y) /\ Reads(m, <<e>>, writeInt(0), <<>>, y, y)
  <2>1. StringFields("textLen", <<>>) = <<>>
    BY DEF StringFields
  <2>2. Reads(m, <<e>>, writeNullTermString(<<>>), StringFields("textLen", <<>>), y, y)
    BY <1>1, <1>2, StringReads
  <2> QED
    BY <1>2, <2>1, <2>2, NoString
<1>8. Reads(m, <<f, f, f, f, f, f, f>>, writeFiller(7), <<>>, y, y)
  BY <1>2, SevenReads
<1> DEFINE u1 == first \o writeShort(0)
           u2 == u1 \o writeInt(-1)
           u3 == u2 \o writeNullTermString(c.name)
           u4 == u3 \o writeNullTermString(<<>>)
           u5 == u4 \o writeInt(0)
           u6 == u5 \o <<1>>
           u7 == u6 \o writeInt(0)
           u8 == u7 \o writeFiller(7)
<1>9. u8 = ColumnBytes(c)
  BY DEF ColumnBytes
<1>10. <<a, b, i, d, e, e, f, e, f, f, f, f, f, f, f>> = parseColumnMetadata
  BY DEF parseColumnMetadata
<1>11. type \o name = ColumnSaid(c)
  <2>1. \A p, q \in {One("colType", c.t), <<"name", c.name>>} : <<p>> \o <<q>> = <<p, q>>
    BY TwoJoin
  <2> QED
    BY <2>1 DEF ColumnSaid
<1> HIDE DEF a, b, i, d, e, f, y, first, type, name
<1>12. Reads(m, <<a, b>>, u1, type, x, y)
  <2>1. <<a>> \o <<b>> = <<a, b>>
    BY <1>3, TwoJoin
  <2> QED
    BY <1>4, <1>5, <2>1, ReadsQuiet
<1> HIDE DEF u1
<1>13. Reads(m, <<a, b, i>>, u2, type, x, y)
  <2>1. <<a, b>> \o <<i>> = <<a, b, i>>
    BY <1>3, ThreeJoin
  <2> QED
    BY <1>5, <1>12, <2>1, ReadsQuiet
<1> HIDE DEF u2
<1>14. Reads(m, <<a, b, i, d>>, u3, type \o name, x, y)
  <2>1. <<a, b, i>> \o <<d>> = <<a, b, i, d>>
    BY <1>3, FourJoin
  <2> QED
    BY <1>6, <1>13, <2>1, ReadsJoin
<1> DEFINE said == type \o name
<1> HIDE DEF u3, said
<1>15. Reads(m, <<a, b, i, d, e>>, u4, said, x, y)
  <2>1. <<a, b, i, d>> \o <<e>> = <<a, b, i, d, e>>
    BY <1>3, FiveJoin
  <2> QED
    BY <1>7, <1>14, <2>1, ReadsQuiet DEF said
<1> HIDE DEF u4
<1>16. Reads(m, <<a, b, i, d, e, e>>, u5, said, x, y)
  <2>1. <<a, b, i, d, e>> \o <<e>> = <<a, b, i, d, e, e>>
    BY <1>3, SixJoin
  <2> QED
    BY <1>7, <1>15, <2>1, ReadsQuiet
<1> HIDE DEF u5
<1>17. Reads(m, <<a, b, i, d, e, e, f>>, u6, said, x, y)
  <2>1. <<a, b, i, d, e, e>> \o <<f>> = <<a, b, i, d, e, e, f>>
    BY <1>3, SevenJoin
  <2> QED
    BY <1>5, <1>16, <2>1, ReadsQuiet
<1> HIDE DEF u6
<1>18. Reads(m, <<a, b, i, d, e, e, f, e>>, u7, said, x, y)
  <2>1. <<a, b, i, d, e, e, f>> \o <<e>> = <<a, b, i, d, e, e, f, e>>
    BY <1>3, EightJoin, SMTT(40)
  <2> QED
    BY <1>7, <1>17, <2>1, ReadsQuiet
<1> HIDE DEF u7
<1>19. Reads(m, <<a, b, i, d, e, e, f, e, f, f, f, f, f, f, f>>, u8, said, x, y)
  <2>1. <<a, b, i, d, e, e, f, e>> \o <<f, f, f, f, f, f, f>> = <<a, b, i, d, e, e, f, e, f, f, f, f, f, f, f>>
    BY <1>3, FifteenJoin
  <2> QED
    BY <1>8, <1>18, <2>1, ReadsQuiet
<1> HIDE DEF u8
<1> QED
  BY <1>9, <1>10, <1>11, <1>19 DEF said, y

LEMMA FillersJoin ==
  ASSUME NEW k \in Nat, NEW l \in Nat
  PROVE  writeFiller(k) \o writeFiller(l) = writeFiller(k + l)
<1> DEFINE s == writeFiller(k)
           t == writeFiller(l)
           u == writeFiller(k + l)
<1>1. s \in Seq(Byte) /\ Len(s) = k /\ t \in Seq(Byte) /\ Len(t) = l
  BY FillerType
<1>2. u \in Seq(Byte) /\ Len(u) = k + l
  <2>1. k + l \in Nat
    OBVIOUS
  <2> QED
    BY <2>1, FillerType
<1>3. (\A i \in 1..k : s[i] = 0) /\ (\A i \in 1..l : t[i] = 0) /\ \A i \in 1..k + l : u[i] = 0
  BY DEF writeFiller
<1> HIDE DEF s, t, u
<1>4. (\A i \in 1..Len(s) : u[i] = s[i]) /\ \A i \in 1..Len(t) : u[Len(s) + i] = t[i]
  BY <1>1, <1>3
<1>5. s \o t = u
  BY <1>1, <1>2, <1>4, SameSequence
<1> QED
  BY <1>5 DEF s, t, u

LEMMA InfoReads ==
  ASSUME NEW m, NEW r \in Info, NEW x \in Metas
  PROVE  Reads(m, parseResultInfos, InfoBytes(r), InfoSaid(r), x, x)
<1> DEFINE a == GetByte("infoStmt")
           b == GetInt("infoCount")
           c == GetRaw(8, "")
           d == GetInt("")
           f == <<One("infoStmt", r.stmt)>>
           g == <<One("infoCount", r.count)>>
           said == f \o g
           zero == writeInt(0)
<1>1. r.stmt \in Byte /\ r.count \in Number32
  BY DEF Info
<1>2. /\ "infoStmt" \in PlainNames /\ "infoCount" \in PlainNames /\ "" \in PlainNames
      /\ "infoStmt" \notin {"proto", "errMsg"} /\ "infoCount" \notin {"proto", "errMsg"}
      /\ "infoStmt" \notin FineNames /\ "infoCount" \notin FineNames
      /\ "infoCount" \notin ByteNames /\ "" \notin ByteNames
  BY DEF PlainNames, FineNames, ByteNames
<1>3. a \in SoundEntries /\ b \in SoundEntries /\ c \in SoundEntries /\ d \in SoundEntries
  BY <1>2, ReadKinds
<1>4. Reads(m, <<a>>, <<r.stmt>>, f, x, x)
  <2>1. Fields("infoStmt", <<r.stmt>>) = f
    BY DEF Fields, Dropped, One
  <2>2. Reads(m, <<a>>, <<r.stmt>>, Fields("infoStmt", <<r.stmt>>), x, x)
    BY <1>1, <1>2, ByteReads
  <2> QED
    BY <2>1, <2>2
<1>5. Reads(m, <<b>>, writeInt(r.count), g, x, x)
  <2>1. Fields("infoCount", <<r.count>>) = g
    BY DEF Fields, Dropped, One
  <2>2. Reads(m, <<b>>, writeInt(r.count), Fields("infoCount", <<r.count>>), x, x)
    BY <1>1, <1>2, NumberReads
  <2> QED
    BY <2>1, <2>2
<1>6. Reads(m, <<c>>, writeFiller(8), <<>>, x, x)
  <2>1. writeFiller(8) \in Seq(Byte) /\ Len(writeFiller(8)) = 8
    BY FillerType
  <2>2. Reads(m, <<GetRaw(Len(writeFiller(8)), "")>>, writeFiller(8), <<>>, x, x)
    BY <2>1, SkipReads
  <2> QED
    BY <2>1, <2>2
<1>7. Reads(m, <<d>>, zero, <<>>, x, x)
  BY SmallConstants, SkipReads
<1>8. said = InfoSaid(r)
  <2>1. \A p, q \in {One("infoStmt", r.stmt), One("infoCount", r.count)} : <<p>> \o <<q>> = <<p, q>>
    BY TwoJoin
  <2> QED
    BY <2>1 DEF InfoSaid
<1>9. (((<<r.stmt>> \o writeInt(r.count)) \o writeFiller(8)) \o zero) \o zero = InfoBytes(r)
  <2>1. writeFiller(8) \o (zero \o zero) = writeFiller(16)
    <3>1. zero = <<0, 0, 0, 0>>
      BY DEF writeInt
    <3>2. zero = writeFiller(4)
      <4>1. writeFiller(4) \in Seq(Byte) /\ Len(writeFiller(4)) = 4 /\ \A k \in 1..4 : writeFiller(4)[k] = 0
        BY FillerType DEF writeFiller
      <4>2. zero \in Seq(Byte) /\ Len(zero) = 4 /\ \A k \in 1..4 : zero[k] = 0
        <5> HIDE DEF zero
        <5>1. <<0, 0, 0, 0>> \in Seq(Byte)
          BY SmallConstants, TupleTypes
        <5>2. Len(<<0, 0, 0, 0>>) = 4 /\ \A k \in 1..4 : <<0, 0, 0, 0>>[k] = 0
          OBVIOUS
        <5> QED
          BY <3>1, <5>1, <5>2
      <4> HIDE DEF zero
      <4> QED
        BY <4>1, <4>2, SeqEqual
    <3>3. \A k, l \in Nat : writeFiller(k) \o writeFiller(l) = writeFiller(k + l)
      BY FillersJoin
    <3>4. writeFiller(4) \o writeFiller(4) = writeFiller(8) /\ writeFiller(8) \o writeFiller(8) = writeFiller(16)
      <4>1. 4 \in Nat /\ 8 \in Nat /\ 4 + 4 = 8 /\ 8 + 8 = 16
        OBVIOUS
      <4> QED
        BY <3>3, <4>1
    <3> HIDE DEF zero
    <3> QED
      BY <3>2, <3>4
  <2> DEFINE h == <<r.stmt>> \o writeInt(r.count)
  <2>2. h \in Seq(Byte) /\ writeFiller(8) \in Seq(Byte) /\ zero \in Seq(Byte)
    <3>1. <<r.stmt>> \in Seq(Byte) /\ writeInt(r.count) \in Seq(Byte)
      BY <1>1, Bounds, SmallBytes, WordType
    <3> QED
      BY <3>1, ConcatProperties, Constants
  <2>3. InfoBytes(r) = h \o writeFiller(16)
    BY DEF InfoBytes
  <2> HIDE DEF h, zero
  <2>4. h \o writeFiller(8) \in Seq(Byte) /\ zero \o zero \in Seq(Byte)
    BY <2>2, ConcatProperties
  <2>5. ((h \o writeFiller(8)) \o zero) \o zero = (h \o writeFiller(8)) \o (zero \o zero)
    BY <2>2, <2>4, BytesAssoc, SMTT(40)
  <2>6. (h \o writeFiller(8)) \o (zero \o zero) = h \o (writeFiller(8) \o (zero \o zero))
    BY <2>2, <2>4, BytesAssoc, SMTT(40)
  <2> QED
    BY <2>1, <2>3, <2>5, <2>6 DEF h
<1>10. <<a, b, c, d, d>> = parseResultInfos
  BY DEF parseResultInfos
<1> HIDE DEF a, b, c, d, f, g, zero
<1>11. Reads(m, <<a, b>>, <<r.stmt>> \o writeInt(r.count), said, x, x)
  <2>1. <<a>> \o <<b>> = <<a, b>>
    BY <1>3, TwoJoin
  <2> QED
    BY <1>4, <1>5, <2>1, ReadsJoin
<1> HIDE DEF said
<1>12. Reads(m, <<a, b, c>>, (<<r.stmt>> \o writeInt(r.count)) \o writeFiller(8), said, x, x)
  <2>1. <<a, b>> \o <<c>> = <<a, b, c>>
    BY <1>3, ThreeJoin
  <2> QED
    BY <1>6, <1>11, <2>1, ReadsQuiet
<1>13. Reads(m, <<a, b, c, d>>, ((<<r.stmt>> \o writeInt(r.count)) \o writeFiller(8)) \o zero, said, x, x)
  <2>1. <<a, b, c>> \o <<d>> = <<a, b, c, d>>
    BY <1>3, FourJoin
  <2> QED
    BY <1>7, <1>12, <2>1, ReadsQuiet
<1>14. Reads(m, <<a, b, c, d, d>>, (((<<r.stmt>> \o writeInt(r.count)) \o writeFiller(8)) \o zero) \o zero, said, x, x)
  <2>1. <<a, b, c, d>> \o <<d>> = <<a, b, c, d, d>>
    BY <1>3, FiveJoin
  <2> QED
    BY <1>7, <1>13, <2>1, ReadsQuiet
<1> QED
  BY <1>8, <1>9, <1>10, <1>14

-----------------------------------------------------------------------------
(***************************************************************************)
(* Values, cells and rows.                                                 *)
(***************************************************************************)
Singles(s) == [i \in DOMAIN s |-> <<s[i]>>]

LEMMA FlattenSingles ==
  ASSUME NEW S, NEW s \in Seq(S)
  PROVE  Singles(s) \in Seq(Seq(S)) /\ Len(Singles(s)) = Len(s) /\ FlattenSeq(Singles(s)) = s
<1> DEFINE q == Singles(s)
           n == Len(s)
<1>1. q \in Seq(Seq(S)) /\ Len(q) = n /\ n \in Nat /\ \A i \in 1..n : q[i] = <<s[i]>> /\ s[i] \in S
  <2>1. n \in Nat /\ DOMAIN s = 1..n /\ \A i \in 1..n : s[i] \in S
    OBVIOUS
  <2>2. DOMAIN q = 1..n /\ \A i \in 1..n : q[i] = <<s[i]>>
    BY <2>1 DEF Singles
  <2>3. \A i \in 1..n : <<s[i]>> \in Seq(S)
    BY <2>1, TupleTypes
  <2>4. q = [i \in 1..n |-> <<s[i]>>]
    BY <2>1 DEF Singles
  <2> HIDE DEF q, n
  <2>5. q \in Seq(Seq(S)) /\ Len(q) = n
    BY <2>1, <2>3, <2>4
  <2> QED
    BY <2>1, <2>2, <2>5
<1> HIDE DEF q
<1> HIDE DEF n
<1>0. PICK h \in [0..Len(q) -> Seq(S)] :
        /\ h[0] = <<>> /\ h[Len(q)] = FlattenSeq(q)
        /\ \A k \in 1..Len(q) : h[k] = h[k - 1] \o q[k]
  BY <1>1, FlattenTexts
<1>2. /\ h[0] = <<>> /\ h[n] = FlattenSeq(q)
      /\ \A k \in 1..n : h[k] = h[k - 1] \o q[k]
      /\ \A k \in 0..n : h[k] \in Seq(S)
  BY <1>0, <1>1
<1> DEFINE Same(k) == k <= n => Len(h[k]) = k /\ \A i \in 1..k : h[k][i] = s[i]
           P == {k \in Nat : Same(k)}
<1>3. Same(0)
  BY <1>1, <1>2
<1>4. ASSUME NEW k \in Nat, Same(k) PROVE Same(k + 1)
  <2> DEFINE l == k + 1
  <2> SUFFICES ASSUME l <= n PROVE Len(h[l]) = l /\ \A i \in 1..l : h[l][i] = s[i]
    OBVIOUS
  <2>1. l \in 1..n /\ l - 1 = k /\ k \in 0..n /\ k <= n
    BY <1>1
  <2>2. h[l] = h[k] \o <<s[l]>> /\ h[k] \in Seq(S) /\ <<s[l]>> \in Seq(S) /\ Len(<<s[l]>>) = 1 /\ <<s[l]>>[1] = s[l]
    <3>1. h[l] = h[k] \o <<s[l]>> /\ h[k] \in Seq(S) /\ s[l] \in S
      BY <1>1, <1>2, <2>1
    <3>2. <<s[l]>> \in Seq(S) /\ Len(<<s[l]>>) = 1 /\ <<s[l]>>[1] = s[l]
      BY <3>1
    <3> QED
      BY <3>1, <3>2
  <2>3. Len(h[k]) = k /\ \A i \in 1..k : h[k][i] = s[i]
    BY <1>4, <2>1
  <2> DEFINE u == h[k]
             v == <<s[l]>>
             w == u \o v
  <2> HIDE DEF u, v
  <2>4. Len(w) = k + 1 /\ (\A i \in 1..k : w[i] = u[i]) /\ \A i \in 1..1 : w[k + i] = v[i]
    <3>1. Len(w) = Len(u) + Len(v) /\ (\A i \in 1..Len(u) : w[i] = u[i]) /\ \A i \in 1..Len(v) : w[Len(u) + i] = v[i]
      BY <2>2, Joined DEF u, v
    <3>2. Len(u) = k /\ Len(v) = 1
      BY <2>2, <2>3 DEF u, v
    <3> QED
      BY <3>1, <3>2
  <2>5. w = h[l]
    BY <2>2 DEF u, v
  <2> HIDE DEF w
  <2>6. w[l] = s[l]
    BY <2>2, <2>4 DEF v
  <2>7. \A i \in 1..k : w[i] = s[i]
    BY <2>3, <2>4 DEF u
  <2>8. ASSUME NEW i \in 1..l PROVE w[i] = s[i]
    <3>1. i \in 1..k \/ i = l
      OBVIOUS
    <3> HIDE DEF l
    <3> QED
      BY <2>6, <2>7, <3>1
  <2> QED
    BY <2>4, <2>5, <2>8
<1> HIDE DEF Same
<1>5. Nat \subseteq P
  <2>1. 0 \in P /\ \A k \in Nat : k \in P => k + 1 \in P
    BY <1>3, <1>4
  <2> HIDE DEF P
  <2> QED
    BY <2>1, SetInduction
<1>6. Len(h[n]) = n /\ \A i \in 1..n : h[n][i] = s[i]
  BY <1>1, <1>5 DEF Same
<1>7. h[n] \in Seq(S)
  BY <1>1, <1>2
<1>8. h[n] = s
  BY <1>6, <1>7, SeqEqual DEF n
<1> QED
  BY <1>1, <1>2, <1>8 DEF q, n

\* The parts of a time, two bytes each.
ShortsOf(v) == [i \in DOMAIN v |-> writeShort(v[i])]

LEMMA ShortsBack ==
  ASSUME NEW v \in Seq(Number16)
  PROVE  /\ FlattenSeq(ShortsOf(v)) \in Seq(Byte) /\ Len(FlattenSeq(ShortsOf(v))) = 2 * Len(v)
         /\ \A i \in 1..Len(v) : Short(SubSeq(FlattenSeq(ShortsOf(v)), 2 * i - 1, 2 * i)) = v[i]
<1> DEFINE q == ShortsOf(v)
           n == Len(v)
<1>1. q \in Seq(Seq(Byte)) /\ Len(q) = n /\ n \in Nat /\ FlattenSeq(q) \in Seq(Byte)
      /\ \A i \in 1..n : q[i] = writeShort(v[i]) /\ v[i] \in Number16
  <2>1. n \in Nat /\ DOMAIN v = 1..n /\ \A i \in 1..n : v[i] \in Number16
    OBVIOUS
  <2>2. q \in Seq(Seq(Byte)) /\ FlattenSeq(q) \in Seq(Byte)
    BY ShortsType DEF ShortsOf
  <2>3. DOMAIN q = 1..n /\ \A i \in 1..n : q[i] = writeShort(v[i])
    BY <2>1 DEF ShortsOf
  <2> HIDE DEF q, n
  <2>4. Len(q) = n
    BY <2>1, <2>2, <2>3
  <2> QED
    BY <2>1, <2>2, <2>3, <2>4
<1> HIDE DEF q
<1> HIDE DEF n
<1>0. PICK h \in [0..Len(q) -> Seq(Byte)] :
        /\ h[0] = <<>> /\ h[Len(q)] = FlattenSeq(q)
        /\ \A k \in 1..Len(q) : h[k] = h[k - 1] \o q[k]
  BY <1>1, FlattenTexts
<1>2. /\ h[0] = <<>> /\ h[n] = FlattenSeq(q)
      /\ \A k \in 1..n : h[k] = h[k - 1] \o q[k]
      /\ \A k \in 0..n : h[k] \in Seq(Byte)
  BY <1>0, <1>1
<1> DEFINE Pair(b, i) == b[2 * i - 1] = writeShort(v[i])[1] /\ b[2 * i] = writeShort(v[i])[2]
           Same(k) == k <= n => Len(h[k]) = 2 * k /\ \A i \in 1..k : Pair(h[k], i)
           P == {k \in Nat : Same(k)}
<1>3. Same(0)
  BY <1>1, <1>2
<1>4. ASSUME NEW k \in Nat, Same(k) PROVE Same(k + 1)
  <2> DEFINE l == k + 1
             t == writeShort(v[l])
  <2> SUFFICES ASSUME l <= n PROVE Len(h[l]) = 2 * l /\ \A i \in 1..l : Pair(h[l], i)
    OBVIOUS
  <2>1. l \in 1..n /\ l - 1 = k /\ k \in 0..n /\ k <= n
    BY <1>1
  <2>2. h[l] = h[k] \o t /\ h[k] \in Seq(Byte)
    BY <1>1, <1>2, <2>1
  <2>3. Len(h[k]) = 2 * k /\ \A i \in 1..k : Pair(h[k], i)
    BY <1>4, <2>1
  <2>4. t \in Seq(Byte) /\ Len(t) = 2
    <3>1. v[l] \in Int
      BY <1>1, <2>1, SmallNumber
    <3> QED
      BY <3>1, WordType
  <2> DEFINE u == h[k]
             w == u \o t
  <2> HIDE DEF t, u
  <2>5. Len(w) = 2 * k + 2 /\ (\A i \in 1..2 * k : w[i] = u[i]) /\ \A i \in 1..2 : w[2 * k + i] = t[i]
    <3>1. Len(w) = Len(u) + Len(t) /\ (\A i \in 1..Len(u) : w[i] = u[i]) /\ \A i \in 1..Len(t) : w[Len(u) + i] = t[i]
      <4>1. u \in Seq(Byte) /\ t \in Seq(Byte)
        BY <2>2, <2>4 DEF u
      <4> HIDE DEF Pair, l
      <4> QED
        BY <4>1, Joined
    <3>2. Len(u) = 2 * k
      BY <2>3 DEF u
    <3> QED
      BY <2>4, <3>1, <3>2
  <2>6. w = h[l]
    BY <2>2 DEF u
  <2> HIDE DEF w
  <2>7. Pair(w, l)
    <3>1. 1 \in 1..2 /\ 2 \in 1..2
      OBVIOUS
    <3>2. w[2 * k + 1] = t[1] /\ w[2 * k + 2] = t[2]
      BY <2>5, <3>1
    <3>3. 2 * l - 1 = 2 * k + 1 /\ 2 * l = 2 * k + 2
      OBVIOUS
    <3> QED
      BY <3>2, <3>3 DEF t
  <2>8. ASSUME NEW i \in 1..k PROVE Pair(w, i)
    <3> DEFINE j == 2 * i - 1
               g == 2 * i
    <3>1. j \in 1..2 * k /\ g \in 1..2 * k
      OBVIOUS
    <3> HIDE DEF j, g
    <3>2. w[j] = u[j] /\ w[g] = u[g]
      BY <2>5, <3>1
    <3>3. u[j] = writeShort(v[i])[1] /\ u[g] = writeShort(v[i])[2]
      BY <2>3 DEF j, g, u
    <3> QED
      BY <3>2, <3>3 DEF j, g
  <2>9. ASSUME NEW i \in 1..l PROVE Pair(w, i)
    <3>1. i \in 1..k \/ i = l
      OBVIOUS
    <3> HIDE DEF l, Pair
    <3> QED
      BY <2>7, <2>8, <3>1
  <2>10. Len(w) = 2 * l
    BY <2>5
  <2> QED
    BY <2>6, <2>9, <2>10
<1> HIDE DEF Same
<1>5. Nat \subseteq P
  <2>1. 0 \in P /\ \A k \in Nat : k \in P => k + 1 \in P
    BY <1>3, <1>4
  <2> HIDE DEF P
  <2> QED
    BY <2>1, SetInduction
<1>6. Same(n)
  BY <1>1, <1>5
<1> DEFINE b == h[n]
<1>7. Len(b) = 2 * n /\ \A i \in 1..n : Pair(b, i)
  BY <1>1, <1>6 DEF Same
<1>8. b = FlattenSeq(q) /\ b \in Seq(Byte)
  BY <1>1, <1>2
<1> HIDE DEF b
<1>9. ASSUME NEW i \in 1..n PROVE Short(SubSeq(b, 2 * i - 1, 2 * i)) = v[i]
  <2> DEFINE j == 2 * i - 2
             w == SubSeq(b, j + 1, j + 2)
  <2>1. j \in 0..Len(b) /\ j + 2 <= Len(b) /\ j + 1 = 2 * i - 1 /\ j + 2 = 2 * i /\ j \in Nat
    BY <1>1, <1>7
  <2> HIDE DEF j
  <2>2. w \in Seq(Byte) /\ Len(w) = 2
    BY <1>8, <2>1, TakenType
  <2>3. w[1] = b[j + 1] /\ w[2] = b[j + 2]
    BY <1>8, <2>1, <2>2
  <2> HIDE DEF w
  <2>4. writeShort(v[i]) \in Seq(Byte) /\ Len(writeShort(v[i])) = 2 /\ Short(writeShort(v[i])) = v[i]
    <3>1. v[i] \in Number16 /\ v[i] \in Int
      BY <1>1, SmallNumber
    <3> QED
      BY <3>1, WordType, ShortBack
  <2>5. w[1] = writeShort(v[i])[1] /\ w[2] = writeShort(v[i])[2]
    BY <1>7, <2>1, <2>3
  <2>6. \A g \in 1..2 : g = 1 \/ g = 2
    OBVIOUS
  <2>7. w = writeShort(v[i])
    BY <2>2, <2>4, <2>5, <2>6, SeqEqual
  <2> QED
    BY <2>1, <2>4, <2>7 DEF w
<1> QED
  BY <1>1, <1>7, <1>8, <1>9 DEF q, n

\* Values that are read by themselves.
Valued(t, v) == v = <<v[1], v[2]>> /\ v[2] \in Seq(Number32) /\ IsValue(t, v) /\ v # Null

LEMMA NumbersAreInts ==
  ASSUME NEW w \in Seq(Number32)
  PROVE  w \in Seq(Int)
<1>1. \A b \in Number32 : b \in Int
  BY Bounds
<1>2. Len(w) \in Nat /\ w = [i \in 1..Len(w) |-> w[i]] /\ \A i \in 1..Len(w) : w[i] \in Number32
  OBVIOUS
<1> QED
  BY <1>1, <1>2

LEMMA ReadValueKinds ==
  ASSUME NEW t, NEW size
  PROVE  /\ t \in TextTypes => readValue(t, size) = <<GetText(size, "text")>>
         /\ t = TypeShort => readValue(t, size) = <<GetShort("int")>>
         /\ t = TypeInt => readValue(t, size) = <<GetInt("int")>>
         /\ Wide(t) > 0 => readValue(t, size) = <<GetRaw(Wide(t), "wide")>>
         /\ Shorts(t) > 0 => readValue(t, size) = <<Rd("shorts", 2 * Shorts(t), "time")>>
         /\ t \notin TextTypes \cup {TypeNull, TypeShort, TypeInt} /\ Wide(t) = 0 /\ Shorts(t) = 0 =>
              readValue(t, size) = <<GetRaw(size, "bytes")>>
         /\ t \in TextTypes \cup {TypeShort, TypeInt} \/ Wide(t) > 0 \/ Shorts(t) > 0 => t # TypeNull
<1>1. t \in TextTypes => readValue(t, size) = <<GetText(size, "text")>>
  BY DEF readValue, TextTypes, Wide, Shorts, TypeNull, TypeShort, TypeInt, TypeBigInt, TypeDatetime
<1>2. t = TypeShort => readValue(t, size) = <<GetShort("int")>>
  BY DEF readValue, TextTypes, Wide, Shorts, TypeNull, TypeShort, TypeInt, TypeBigInt, TypeDatetime
<1>3. t = TypeInt => readValue(t, size) = <<GetInt("int")>>
  BY DEF readValue, TextTypes, Wide, Shorts, TypeNull, TypeShort, TypeInt, TypeBigInt, TypeDatetime
<1>4. /\ Wide(t) > 0 => t \in {10, 12, 21, 11}
      /\ Shorts(t) > 0 => t \in {13, 14, 15, 22}
  BY DEF Wide, Shorts, TypeBigInt, TypeDatetime
<1>5. Wide(t) > 0 => readValue(t, size) = <<GetRaw(Wide(t), "wide")>>
  <2>1. Wide(t) > 0 => t \notin TextTypes /\ t # TypeShort /\ t # TypeInt /\ t # TypeNull /\ ~(Shorts(t) > 0)
    BY <1>4 DEF TextTypes, Shorts, TypeNull, TypeShort, TypeInt, TypeDatetime
  <2> QED
    BY <2>1 DEF readValue
<1>6. Shorts(t) > 0 => readValue(t, size) = <<Rd("shorts", 2 * Shorts(t), "time")>>
  <2>1. Shorts(t) > 0 => t \notin TextTypes /\ t # TypeShort /\ t # TypeInt /\ t # TypeNull /\ ~(Wide(t) > 0)
    BY <1>4 DEF TextTypes, Wide, TypeNull, TypeShort, TypeInt, TypeBigInt
  <2> QED
    BY <2>1 DEF readValue
<1>7. t \notin TextTypes \cup {TypeNull, TypeShort, TypeInt} /\ Wide(t) = 0 /\ Shorts(t) = 0 =>
        readValue(t, size) = <<GetRaw(size, "bytes")>>
  BY DEF readValue
<1>8. t \in TextTypes \cup {TypeShort, TypeInt} \/ Wide(t) > 0 \/ Shorts(t) > 0 => t # TypeNull
  BY <1>4 DEF TextTypes, TypeNull, TypeShort, TypeInt
<1> QED
  BY <1>1, <1>2, <1>3, <1>5, <1>6, <1>7, <1>8

\* A time comes as its parts.
LEMMA TimeReads ==
  ASSUME NEW m, NEW s \in Seq(Number16), NEW n, n = Len(s), NEW x \in Metas
  PROVE  Reads(m, <<Rd("shorts", 2 * n, "time")>>, FlattenSeq(ShortsOf(s)), <<<<"time", s>>>>, x, x)
<1> DEFINE op == Rd("shorts", 2 * n, "time")
           w == FlattenSeq(ShortsOf(s))
<1>1. n \in Nat /\ 2 * n \in Nat /\ (2 * n) \div 2 = n
  OBVIOUS
<1>2. op.get = "shorts" /\ op.n = 2 * n /\ op.to = "time" /\ op.get \in Gets
  BY DEF Rd, Gets
<1>3. "time" \in PlainNames /\ "time" \notin {"proto", "errMsg"} /\ "time" \notin FineNames
      /\ "time" \in ToNames /\ "time" \notin ByteNames /\ "time" \notin LeadNames
  <2>1. "time" \in PlainNames /\ "time" \notin {"proto", "errMsg"} /\ "time" \notin FineNames
    BY DEF PlainNames, FineNames
  <2> QED
    BY <2>1, Names
<1>4. op \in SoundEntries
  BY <1>1, <1>3, SoundReads
<1>5. w \in Seq(Byte) /\ Len(w) = 2 * n /\ \A i \in 1..n : Short(SubSeq(w, 2 * i - 1, 2 * i)) = s[i]
  BY ShortsBack
<1>6. s = ValueOf(op.get, w)
  <2>1. ValueOf("shorts", w) = [i \in 1..(Len(w) \div 2) |-> Short(SubSeq(w, 2 * i - 1, 2 * i))]
    BY DEF ValueOf
  <2>2. ValueOf("shorts", w) = [i \in 1..n |-> s[i]]
    BY <1>1, <1>5, <2>1
  <2>3. s = [i \in 1..n |-> s[i]]
    OBVIOUS
  <2> QED
    BY <1>2, <2>2, <2>3
<1>7. s \in Seq(Int)
  <2>1. \A b \in Number16 : b \in Int
    BY SmallNumber
  <2>2. Len(s) \in Nat /\ s = [i \in 1..Len(s) |-> s[i]] /\ \A i \in 1..Len(s) : s[i] \in Number16
    OBVIOUS
  <2> QED
    BY <2>1, <2>2
<1> HIDE DEF op, w
<1>8. Fields("time", s) = <<<<"time", s>>>> /\ Fields("time", s) \in Seq(Field) /\ Fine("time", s)
  BY <1>3, <1>7, PlainFields
<1>9. Reads(m, <<op>>, w, Fields("time", s), x, x)
  BY <1>2, <1>3, <1>4, <1>5, <1>6, <1>8, ReadsPlain
<1> QED
  BY <1>8, <1>9 DEF op, w

\* The bytes w are the value v of the type t, to be read by their length.
ReadAs(m, t, v, w, x) == Reads(m, readValue(t, Len(w)), w, <<v>>, x, x)
Sized(t, w) == Len(w) > 0 /\ Len(w) + 1 <= MaxInt /\ t # TypeNull

\* The value is there again, whatever type it has.
LEMMA ValueReads ==
  ASSUME NEW m, NEW t \in Byte, NEW v, Valued(t, v), NEW x \in Metas
  PROVE  LET w == ValueBytes(t, v)
         IN w \in Seq(Byte) /\ Len(w) \in Nat /\ Sized(t, w) /\ ReadAs(m, t, v, w, x)
<1> DEFINE w == ValueBytes(t, v)
<1>1. w \in Seq(Byte) /\ Len(w) \in Nat /\ v = <<v[1], v[2]>> /\ v[2] \in Seq(Number32)
  BY ValueBytesType DEF Valued
<1>2. MaxInt > 100 /\ MaxLen + 7 = MaxInt /\ MaxLen \in Nat /\ MaxInt \in Nat
  BY Bounds DEF MaxInt
<1>3. \A to \in {"text", "int", "wide", "bytes"} :
        /\ to \in PlainNames /\ to \notin {"proto", "errMsg"} /\ to \notin FineNames
        /\ \A u : Fields(to, u) = <<<<to, u>>>>
  BY DEF PlainNames, FineNames, Fields, Dropped
<1> DEFINE Good == Sized(t, w) /\ ReadAs(m, t, v, w, x)
<1> SUFFICES Good
  BY <1>1
<1>4. CASE v[1] = "text"
  <2> DEFINE s == v[2]
  <2>1. t \in TextTypes /\ s \in Seq(Byte) /\ Len(s) <= MaxLen
    BY <1>4 DEF Valued, IsValue, Text, Null
  <2>2. w = s \o <<0>>
    BY <1>4 DEF ValueBytes
  <2>3. Len(w) = Len(s) + 1
    BY <2>1, <2>2, TextBytes
  <2>4. readValue(t, Len(w)) = <<GetText(Len(w), "text")>> /\ t # TypeNull
    BY <2>1, ReadValueKinds
  <2>5. Reads(m, <<GetText(Len(s) + 1, "text")>>, s \o <<0>>, Fields("text", s), x, x)
    BY <1>3, <2>1, TextReads
  <2>6. Fields("text", s) = <<v>>
    BY <1>1, <1>3, <1>4
  <2>7. Reads(m, readValue(t, Len(w)), w, <<v>>, x, x)
    BY <2>2, <2>3, <2>4, <2>5, <2>6
  <2>8. Len(w) > 0 /\ Len(w) + 1 <= MaxInt
    <3>1. Len(s) \in Nat
      BY <2>1
    <3> HIDE DEF w, s
    <3> QED
      BY <1>2, <2>1, <2>3, <3>1
  <2>9. Sized(t, w)
    BY <2>4, <2>8 DEF Sized
  <2>10. ReadAs(m, t, v, w, x)
    BY <2>7 DEF ReadAs
  <2> QED
    BY <2>9, <2>10
<1>5. CASE v[1] = "int"
  <2> DEFINE n == v[2][1]
  <2>1. /\ t \in {TypeShort, TypeInt} /\ Len(v[2]) = 1 /\ n \in IF t = TypeShort THEN Number16 ELSE Number32
    BY <1>5 DEF Valued, IsValue, Null
  <2>2. v[2] = <<n>>
    BY <1>1, <2>1
  <2>3. Fields("int", <<n>>) = <<v>>
    BY <1>1, <1>3, <1>5, <2>2
  <2>4. CASE t = TypeShort
    <3>1. w = writeShort(n) /\ n \in Number16
      BY <1>5, <2>1, <2>4 DEF ValueBytes
    <3>2. Len(w) = 2
      BY <3>1, SmallNumber, WordType
    <3>3. readValue(t, Len(w)) = <<GetShort("int")>> /\ t # TypeNull
      BY <2>4, ReadValueKinds
    <3>4. Reads(m, <<GetShort("int")>>, writeShort(n), Fields("int", <<n>>), x, x)
      BY <1>3, <3>1, ShortReads
    <3>5. Sized(t, w)
      BY <1>2, <3>2, <3>3 DEF Sized
    <3>6. ReadAs(m, t, v, w, x)
      BY <2>3, <3>1, <3>3, <3>4 DEF ReadAs
    <3> QED
      BY <3>5, <3>6
  <2>5. CASE t = TypeInt
    <3>0. TypeInt # TypeShort
      BY DEF TypeInt, TypeShort
    <3>1. w = writeInt(n) /\ n \in Number32
      BY <1>5, <2>1, <2>5, <3>0 DEF ValueBytes
    <3>2. Len(w) = 4
      BY <3>1, Bounds, WordType
    <3>3. readValue(t, Len(w)) = <<GetInt("int")>> /\ t # TypeNull
      BY <2>5, ReadValueKinds
    <3>4. Reads(m, <<GetInt("int")>>, writeInt(n), Fields("int", <<n>>), x, x)
      <4>1. "int" \in PlainNames /\ "int" \notin {"proto", "errMsg"} /\ "int" \notin FineNames
        BY <1>3
      <4> QED
        BY <3>1, <4>1, NumberReads
    <3>5. Sized(t, w)
      BY <1>2, <3>2, <3>3 DEF Sized
    <3>6. ReadAs(m, t, v, w, x)
      BY <2>3, <3>1, <3>3, <3>4 DEF ReadAs
    <3> QED
      BY <3>5, <3>6
  <2> QED
    BY <2>1, <2>4, <2>5
<1>6. CASE v[1] = "wide"
  <2>1. Wide(t) > 0 /\ Len(v[2]) = Wide(t) /\ v[2] \in Seq(Byte)
    BY <1>6 DEF Valued, IsValue, Null
  <2>2. w = v[2]
    BY <1>6 DEF ValueBytes
  <2>3. readValue(t, Len(w)) = <<GetRaw(Len(w), "wide")>> /\ t # TypeNull
    BY <2>1, <2>2, ReadValueKinds
  <2>4. Reads(m, <<GetRaw(Len(w), "wide")>>, w, Fields("wide", w), x, x)
    BY <1>1, <1>3, RawReads
  <2>5. Fields("wide", w) = <<v>>
    BY <1>1, <1>3, <1>6, <2>2
  <2>6. Len(w) > 0 /\ Len(w) + 1 <= MaxInt
    <3>1. Wide(t) <= 8
      BY DEF Wide
    <3> QED
      BY <1>1, <1>2, <2>1, <2>2, <3>1
  <2>7. Sized(t, w)
    BY <2>3, <2>6 DEF Sized
  <2>8. ReadAs(m, t, v, w, x)
    BY <2>3, <2>4, <2>5 DEF ReadAs
  <2> QED
    BY <2>7, <2>8
<1>7. CASE v[1] = "time"
  <2> DEFINE s == v[2]
  <2>1. Shorts(t) > 0 /\ Len(s) = Shorts(t) /\ s \in Seq(Number16)
    BY <1>7 DEF Valued, IsValue, Null
  <2>2. w = FlattenSeq(ShortsOf(s))
    BY <1>7 DEF ValueBytes, ShortsOf
  <2>3. readValue(t, Len(w)) = <<Rd("shorts", 2 * Len(s), "time")>> /\ t # TypeNull
    BY <2>1, ReadValueKinds
  <2>4. Reads(m, <<Rd("shorts", 2 * Len(s), "time")>>, FlattenSeq(ShortsOf(s)), <<<<"time", s>>>>, x, x)
    BY <2>1, TimeReads
  <2>5. <<<<"time", s>>>> = <<v>>
    BY <1>1, <1>7
  <2>6. Len(w) = 2 * Len(s)
    BY <2>1, <2>2, ShortsBack
  <2>7. Len(w) > 0 /\ Len(w) + 1 <= MaxInt
    <3>1. Shorts(t) <= 7 /\ Shorts(t) \in Nat
      BY DEF Shorts
    <3> HIDE DEF w, s
    <3> QED
      BY <1>2, <2>1, <2>6, <3>1
  <2>8. Sized(t, w)
    BY <2>3, <2>7 DEF Sized
  <2>9. ReadAs(m, t, v, w, x)
    BY <2>2, <2>3, <2>4, <2>5 DEF ReadAs
  <2> QED
    BY <2>8, <2>9
<1>8. CASE v[1] = "bytes"
  <2>1. /\ v[2] \in Seq(Byte) /\ Len(v[2]) <= MaxLen /\ v[2] # <<>>
        /\ t \notin TextTypes \cup {TypeNull, TypeShort, TypeInt} /\ Wide(t) = 0 /\ Shorts(t) = 0
    BY <1>8 DEF Valued, IsValue, Null, Text
  <2>2. w = v[2]
    BY <1>8 DEF ValueBytes
  <2>3. readValue(t, Len(w)) = <<GetRaw(Len(w), "bytes")>> /\ t # TypeNull
    BY <2>1, ReadValueKinds
  <2>4. Reads(m, <<GetRaw(Len(w), "bytes")>>, w, Fields("bytes", w), x, x)
    BY <1>1, <1>3, RawReads
  <2>5. Fields("bytes", w) = <<v>>
    BY <1>1, <1>3, <1>8, <2>2
  <2>6. Len(w) > 0 /\ Len(w) + 1 <= MaxInt
    <3>1. Len(w) # 0
      BY <1>1, <2>1, <2>2
    <3> QED
      BY <1>1, <1>2, <2>1, <2>2, <3>1
  <2>7. Sized(t, w)
    BY <2>3, <2>6 DEF Sized
  <2>8. ReadAs(m, t, v, w, x)
    BY <2>3, <2>4, <2>5 DEF ReadAs
  <2> QED
    BY <2>7, <2>8
<1>9. v[1] = "text" \/ v[1] = "int" \/ v[1] = "wide" \/ v[1] = "time" \/ v[1] = "bytes"
  BY DEF Valued, IsValue
<1> HIDE DEF Good
<1> QED
  BY <1>4, <1>5, <1>6, <1>7, <1>8, <1>9

\* A value that is NULL is a size of zero.
LEMMA NullReads ==
  ASSUME NEW m, NEW t \in Byte, NEW x \in Metas
  PROVE  Reads(m, <<SizeFor(t)>>, writeInt(0), <<Null>>, x, x)
<1> DEFINE op == SizeFor(t)
<1>1. op \in SoundEntries /\ op.get = "int" /\ op.to = "size" /\ op.x = t
  <2>1. t \in Int
    BY SmallBytes
  <2>2. op \in SoundEntries
    BY <2>1, SoundTypes
  <2> QED
    BY <2>2 DEF SizeFor, GetInt, Rd
<1>2. 0 \in Number32 /\ 0 \in Int
  BY SmallConstants
<1>3. Follows("size", t, 0) = <<Nil>>
  BY DEF Follows, readSized
<1>4. Reads(m, <<Nil>>, <<>>, <<Null>>, x, x)
  BY NothingReads
<1> HIDE DEF op
<1>5. Reads(m, Follows(op.to, op.x, 0), <<>>, <<Null>>, x, x)
  BY <1>1, <1>3, <1>4
<1>6. op.to \in {"nameLen", "textLen", "idLen", "argLen", "size", "paramSize"} /\ op.to # "idLen"
  BY <1>1
<1>7. Reads(m, <<op>>, writeInt(0) \o <<>>, <<Null>>, x, x)
  BY <1>1, <1>2, <1>5, <1>6, LengthReads
<1>8. writeInt(0) \o <<>> = writeInt(0)
  BY <1>2, WordType, ConcatEmptySeq
<1> QED
  BY <1>7, <1>8 DEF op

\* A value with its size in front, of the type of its column.
LEMMA SizedReads ==
  ASSUME NEW m, NEW t \in Byte, NEW v, Valued(t, v), NEW x \in Metas
  PROVE  Reads(m, <<SizeFor(t)>>, addBytes(ValueBytes(t, v)), <<v>>, x, x)
<1> DEFINE w == ValueBytes(t, v)
           n == Len(w)
           op == SizeFor(t)
<1>1. w \in Seq(Byte) /\ n \in Nat /\ Sized(t, w) /\ ReadAs(m, t, v, w, x)
  BY ValueReads
<1>2. op \in SoundEntries /\ op.get = "int" /\ op.to = "size" /\ op.x = t
  <2>1. t \in Int
    BY SmallBytes
  <2>2. op \in SoundEntries
    BY <2>1, SoundTypes
  <2> QED
    BY <2>2 DEF SizeFor, GetInt, Rd
<1>3. addBytes(w) = writeInt(n) \o w
  BY DEF addBytes
<1>4. n > 0 /\ n <= MaxInt /\ t # TypeNull
  BY <1>1, Bounds DEF Sized
<1>5. n \in Number32
  BY <1>1, <1>4, LengthType
<1>6. Reads(m, readValue(t, n), w, <<v>>, x, x)
  BY <1>1 DEF ReadAs
<1> HIDE DEF w, op
<1> HIDE DEF n
<1>7. Follows("size", t, n) = readValue(t, n)
  BY <1>1, <1>4 DEF Follows, readSized
<1>8. Reads(m, Follows(op.to, op.x, n), w, <<v>>, x, x)
  BY <1>2, <1>6, <1>7
<1>9. op.to \in {"nameLen", "textLen", "idLen", "argLen", "size", "paramSize"} /\ op.to # "idLen"
  BY <1>2
<1>10. Reads(m, <<op>>, writeInt(n) \o w, <<v>>, x, x)
  BY <1>2, <1>5, <1>8, <1>9, LengthReads
<1>11. Reads(m, <<op>>, addBytes(w), <<v>>, x, x)
  BY <1>3, <1>10
<1> QED
  BY <1>11 DEF op, w

\* The type that comes with a value counts as a byte of it.
LEMMA TypeForReads ==
  ASSUME NEW m, NEW t \in Byte, NEW v, NEW w \in Seq(Byte), NEW n, n = Len(w) + 1,
         Sized(t, w), NEW x \in Metas, ReadAs(m, t, v, w, x)
  PROVE  Reads(m, <<TypeFor(n)>>, <<t>> \o w, <<v>>, x, x)
<1> DEFINE op == TypeFor(n)
           u == <<t>>
           g == <<>>
<1>0. n \in Int /\ n - 1 = Len(w) /\ n - 1 > 0 /\ Len(w) \in Nat
  BY DEF Sized
<1>1. op \in SoundEntries /\ op.get = "byte" /\ op.to = "cellType" /\ op.x = n /\ op.n = 1
  <2>1. op \in SoundEntries
    BY <1>0, SoundTypes
  <2> QED
    BY <2>1 DEF TypeFor, GetByte, Rd
<1>2. u \in Seq(Byte) /\ Len(u) = 1 /\ u[1] = t /\ u # <<>> /\ First(u) = t
  BY SmallBytes DEF First
<1>3. u = ValueOf("byte", u) /\ "byte" \in Gets
  BY DEF ValueOf, Gets
<1>4. g = Fields("cellType", u) /\ g \in Seq(Field)
  BY TupleTypes DEF Fields, Dropped
<1>5. Fine("cellType", u)
  BY DEF Fine, Failed, Counts
<1> HIDE DEF u, g
<1>6. x = Learned("cellType", u, x)
  <2>1. x.cols \o <<>> = x.cols /\ x = [stmt |-> x.stmt, cols |-> x.cols]
    BY ConcatEmptySeq DEF Metas
  <2>2. ColumnTypes("cellType", u) = <<>>
    BY DEF ColumnTypes
  <2> QED
    BY <2>1, <2>2 DEF Learned
<1>7. Later(m, op, x, t) = readValue(t, n - 1)
  <2>1. Later(m, op, x, t) = Follows("cellType", n, t)
    BY <1>1 DEF Later
  <2>2. Follows("cellType", n, t) = readTyped(t, n)
    BY DEF Follows
  <2>3. readTyped(t, n) = readValue(t, n - 1)
    BY <1>0 DEF readTyped
  <2> QED
    BY <2>1, <2>2, <2>3
<1>8. Reads(m, readValue(t, n - 1), w, <<v>>, x, x)
  BY <1>0 DEF ReadAs
<1> DEFINE f == Later(m, op, x, First(u))
<1>9. Reads(m, f, w, <<v>>, x, x)
  BY <1>2, <1>7, <1>8
<1> HIDE DEF f
<1>10. f = Later(m, op, x, First(u))
  BY DEF f
<1> HIDE DEF op
<1>11. op.to # "bindLen" /\ op.get \in Gets /\ Len(u) = op.n /\ u = ValueOf(op.get, u)
       /\ Fine(op.to, u) /\ g = Fields(op.to, u) /\ x = Learned(op.to, u, x)
  BY <1>1, <1>2, <1>3, <1>4, <1>5, <1>6
<1>12. Reads(m, <<op>>, u \o w, g \o <<v>>, x, x)
  BY <1>1, <1>2, <1>4, <1>9, <1>10, <1>11, ReadsValue
<1>13. g \o <<v>> = <<v>>
  BY <1>8, ConcatEmptySeq DEF Reads, g
<1> QED
  BY <1>12, <1>13 DEF op, u

\* A value that comes with its type.
LEMMA TypedReads ==
  ASSUME NEW m, NEW t \in Byte, NEW v, Valued(t, v), NEW x \in Metas
  PROVE  Reads(m, <<SizeFor(TypeNull)>>, addBytes(<<t>> \o ValueBytes(t, v)), <<v>>, x, x)
<1> DEFINE w == ValueBytes(t, v)
           n == Len(w) + 1
           op == SizeFor(TypeNull)
           u == <<t>> \o w
<1>1. w \in Seq(Byte) /\ Len(w) \in Nat /\ Sized(t, w) /\ ReadAs(m, t, v, w, x)
  BY ValueReads
<1>2. op \in SoundEntries /\ op.get = "int" /\ op.to = "size" /\ op.x = TypeNull
  <2>1. TypeNull \in Int
    BY DEF TypeNull
  <2>2. op \in SoundEntries
    BY <2>1, SoundTypes
  <2> QED
    BY <2>2 DEF SizeFor, GetInt, Rd
<1> HIDE DEF w
<1>3. u \in Seq(Byte) /\ Len(u) = n
  BY <1>1, ConsOf
<1>4. addBytes(u) = writeInt(n) \o u
  BY <1>3 DEF addBytes
<1>5. n > 0 /\ n <= MaxInt /\ n \in Nat
  BY <1>1, Bounds DEF Sized
<1>6. n \in Number32
  BY <1>5, LengthType
<1>7. Reads(m, <<TypeFor(n)>>, u, <<v>>, x, x)
  BY <1>1, TypeForReads
<1> HIDE DEF n, op, u
<1>8. Follows("size", TypeNull, n) = <<TypeFor(n)>>
  BY <1>5 DEF Follows, readSized
<1>9. Reads(m, Follows(op.to, op.x, n), u, <<v>>, x, x)
  BY <1>2, <1>7, <1>8
<1>10. op.to \in {"nameLen", "textLen", "idLen", "argLen", "size", "paramSize"} /\ op.to # "idLen"
  BY <1>2
<1>11. Reads(m, <<op>>, writeInt(n) \o u, <<v>>, x, x)
  BY <1>2, <1>6, <1>9, <1>10, LengthReads
<1>12. Reads(m, <<op>>, addBytes(u), <<v>>, x, x)
  BY <1>4, <1>11
<1> QED
  BY <1>12 DEF op, u, w

\* A cell of a row, in a column of the type t.
LEMMA CellReads ==
  ASSUME NEW m, NEW t \in Byte, NEW c \in Cell, IsValue(c.t, c.v), t # TypeNull => c.t = t, NEW x \in Metas
  PROVE  Reads(m, <<SizeFor(t)>>, CellBytes(t = TypeNull, c), <<c.v>>, x, x)
<1>1. c.v \in STRING \X Seq(Number32) /\ c.t \in Byte
  BY DEF Cell
<1>2. CASE c.v = Null
  <2>1. CellBytes(t = TypeNull, c) = writeInt(0)
    BY <1>2 DEF CellBytes, Null
  <2> QED
    BY <1>2, <2>1, NullReads
<1>3. CASE c.v # Null
  <2>1. Valued(c.t, c.v)
    BY <1>1, <1>3 DEF Valued
  <2>2. c.v[1] # "null"
    BY <1>3 DEF IsValue
  <2> DEFINE w == ValueBytes(c.t, c.v)
  <2>3. CASE t = TypeNull
    <3>1. CellBytes(t = TypeNull, c) = addBytes(<<c.t>> \o w)
      BY <2>2, <2>3 DEF CellBytes
    <3>2. Reads(m, <<SizeFor(TypeNull)>>, addBytes(<<c.t>> \o w), <<c.v>>, x, x)
      BY <1>1, <2>1, TypedReads
    <3> QED
      BY <2>3, <3>1, <3>2
  <2>4. CASE t # TypeNull
    <3>0. w \in Seq(Byte)
      BY <1>1, <1>3, ValueBytesType
    <3>1. CellBytes(t = TypeNull, c) = addBytes(w)
      <4>1. <<>> \o w = w
        BY <3>0, ConcatEmptySeq
      <4> HIDE DEF w
      <4>2. CellBytes(t = TypeNull, c) = addBytes(<<>> \o w)
        BY <2>2, <2>4 DEF CellBytes, w
      <4> QED
        BY <4>1, <4>2
    <3>2. Reads(m, <<SizeFor(c.t)>>, addBytes(w), <<c.v>>, x, x)
      BY <1>1, <2>1, SizedReads
    <3> QED
      BY <2>4, <3>1, <3>2
  <2> QED
    BY <2>3, <2>4
<1> QED
  BY <1>2, <1>3

\* What is known where the columns of m are.
TypesOf(cols) == [j \in DOMAIN cols |-> cols[j].t]
Known(m) == [stmt |-> m.stmt, cols |-> TypesOf(m.cols)]
RowSaid(row) == [j \in DOMAIN row |-> row[j].v]

LEMMA KnownType ==
  ASSUME NEW m, IsMessage(m)
  PROVE  /\ Known(m) \in Metas /\ TypesOf(m.cols) \in Seq(Byte)
         /\ Len(TypesOf(m.cols)) = Len(m.cols) /\ \A j \in 1..Len(m.cols) : TypesOf(m.cols)[j] = m.cols[j].t
<1>1. m.cols \in Seq(Column) /\ m.stmt \in Byte /\ m.stmt \in Int
  BY MessageType, SmallBytes
<1>2. \A c \in Column : c.t \in Byte
  BY DEF Column, Byte
<1> DEFINE n == Len(m.cols)
<1>3. n \in Nat /\ DOMAIN m.cols = 1..n /\ \A j \in 1..n : m.cols[j].t \in Byte
  BY <1>1, <1>2
<1>4. TypesOf(m.cols) = [j \in 1..n |-> m.cols[j].t]
  BY <1>3 DEF TypesOf
<1> HIDE DEF n
<1>5. TypesOf(m.cols) \in Seq(Byte) /\ Len(TypesOf(m.cols)) = n /\ \A j \in 1..n : TypesOf(m.cols)[j] = m.cols[j].t
  BY <1>3, <1>4
<1> QED
  BY <1>1, <1>5 DEF Known, Metas, n

\* The cells of a row.
LEMMA CellsRead ==
  ASSUME NEW m, IsMessage(m), NEW row \in Rows(m)
  PROVE  LET x == Known(m)
             sizes == [j \in DOMAIN x.cols |-> SizeFor(IF x.stmt = StmtCallSP THEN TypeNull ELSE x.cols[j])]
             cells == [j \in DOMAIN row |-> CellBytes(Typed(m, j), row[j])]
         IN Reads(m, sizes, FlattenSeq(cells), RowSaid(row), x, x)
<1> DEFINE x == Known(m)
           n == Len(row)
           Kind(j) == IF x.stmt = StmtCallSP THEN TypeNull ELSE x.cols[j]
           sizes == [j \in DOMAIN x.cols |-> SizeFor(Kind(j))]
           cells == [j \in DOMAIN row |-> CellBytes(Typed(m, j), row[j])]
           said == RowSaid(row)
           F == Singles(said)
<1>1. row \in Seq(Cell) /\ IsRow(m, row) /\ n \in Nat /\ DOMAIN row = 1..n /\ \A j \in 1..n : row[j] \in Cell
  BY DEF Rows, Row
<1>2. Len(m.cols) = n /\ m.cols \in Seq(Column) /\ x \in Metas /\ x.cols \in Seq(Byte) /\ Len(x.cols) = n
      /\ \A j \in 1..n : x.cols[j] = m.cols[j].t
  BY <1>1, MessageType, KnownType DEF IsRow, Known
<1>3. \A j \in 1..n : Kind(j) \in Byte /\ Kind(j) \in Int
  <2>1. TypeNull \in Byte
    BY DEF TypeNull, Byte
  <2> QED
    BY <1>2, <2>1, SmallBytes
<1>4. \A j \in 1..n : /\ IsValue(row[j].t, row[j].v)
                      /\ Typed(m, j) <=> Kind(j) = TypeNull
                      /\ Kind(j) # TypeNull => row[j].t = Kind(j)
  BY <1>1, <1>2 DEF IsRow, Typed, Known
<1>5. cells \in Seq(Seq(Byte)) /\ Len(cells) = n /\ \A j \in 1..n : cells[j] = CellBytes(Kind(j) = TypeNull, row[j])
  <2>1. cells \in Seq(Seq(Byte))
    BY RowBytesType
  <2>2. Len(cells) = n
    BY <1>1, <2>1
  <2>3. \A j \in 1..n : CellBytes(Typed(m, j), row[j]) = CellBytes(Kind(j) = TypeNull, row[j])
    BY <1>4 DEF CellBytes
  <2> QED
    BY <1>1, <2>1, <2>2, <2>3
<1>6. sizes \in Ops /\ Len(sizes) = n /\ \A j \in 1..n : sizes[j] = SizeFor(Kind(j))
  <2>1. \A j \in 1..n : SizeFor(Kind(j)) \in SoundEntries
    BY <1>3, SoundTypes
  <2>2. sizes = [j \in 1..n |-> SizeFor(Kind(j))]
    BY <1>2
  <2> HIDE DEF sizes, Kind
  <2> QED
    BY <1>1, <2>1, <2>2 DEF Ops
<1>7. \A j \in 1..n : Reads(m, <<sizes[j]>>, cells[j], <<row[j].v>>, x, x)
  <2> SUFFICES ASSUME NEW j \in 1..n PROVE Reads(m, <<sizes[j]>>, cells[j], <<row[j].v>>, x, x)
    OBVIOUS
  <2> DEFINE t == Kind(j)
             c == row[j]
  <2>1. t \in Byte /\ c \in Cell /\ IsValue(c.t, c.v) /\ (t # TypeNull => c.t = t) /\ x \in Metas
    BY <1>1, <1>2, <1>3, <1>4
  <2>2. sizes[j] = SizeFor(t) /\ cells[j] = CellBytes(t = TypeNull, c)
    BY <1>5, <1>6
  <2> HIDE DEF t, x, sizes, cells
  <2>3. Reads(m, <<SizeFor(t)>>, CellBytes(t = TypeNull, c), <<c.v>>, x, x)
    BY <2>1, CellReads
  <2> QED
    BY <2>2, <2>3
<1>8. said \in Seq(Field) /\ Len(said) = n /\ \A j \in 1..n : said[j] = row[j].v
  <2>1. \A j \in 1..n : row[j].v \in Field
    <3> SUFFICES ASSUME NEW j \in 1..n PROVE row[j].v \in Field
      OBVIOUS
    <3>1. <<row[j].v>> \in Seq(Field)
      BY <1>7 DEF Reads
    <3> DEFINE s == <<row[j].v>>
    <3>2. s \in Seq(Field) /\ 1 \in 1..Len(s) /\ s[1] = row[j].v
      BY <3>1
    <3> QED
      BY <3>2
  <2>2. said = [j \in 1..n |-> row[j].v]
    BY <1>1 DEF RowSaid
  <2> HIDE DEF said
  <2> QED
    BY <1>1, <2>1, <2>2
<1>9. F \in Seq(Seq(Field)) /\ Len(F) = n /\ FlattenSeq(F) = said /\ \A j \in 1..n : F[j] = <<row[j].v>>
  <2>1. F \in Seq(Seq(Field)) /\ Len(F) = n /\ FlattenSeq(F) = said
    BY <1>8, FlattenSingles
  <2>2. \A j \in 1..n : F[j] = <<said[j]>>
    BY <1>8 DEF Singles
  <2> QED
    BY <1>8, <2>1, <2>2
<1> HIDE DEF x, sizes, cells, F, n
<1>10. Together(m, n, sizes, cells, F, x)
  <2>1. \A j \in 1..n : Reads(m, <<sizes[j]>>, cells[j], F[j], x, x)
    BY <1>7, <1>9
  <2> QED
    BY <1>2, <1>5, <1>6, <1>9, <2>1 DEF Together
<1>11. n \in Nat
  BY <1>1
<1>12. Reads(m, sizes, FlattenSeq(cells), FlattenSeq(F), x, x)
  BY <1>10, <1>11, TogetherReads
<1> QED
  BY <1>9, <1>12 DEF x, sizes, cells

LEMMA RowReadsBack ==
  ASSUME NEW m, IsMessage(m), NEW row \in Rows(m)
  PROVE  Reads(m, RowReads(Known(m)), RowBytes(m, row), RowSaid(row), Known(m), Known(m))
<1> DEFINE x == Known(m)
           sizes == [j \in DOMAIN x.cols |-> SizeFor(IF x.stmt = StmtCallSP THEN TypeNull ELSE x.cols[j])]
           cells == [j \in DOMAIN row |-> CellBytes(Typed(m, j), row[j])]
           p == <<GetInt(""), GetRaw(8, "")>>
           w == writeInt(1) \o writeFiller(8)
<1>1. Reads(m, sizes, FlattenSeq(cells), RowSaid(row), x, x)
  BY CellsRead
<1>2. x \in Metas
  BY KnownType
<1>3. RowReads(x) = p \o sizes /\ RowBytes(m, row) = w \o FlattenSeq(cells)
  BY DEF RowReads, RowBytes
<1> HIDE DEF x, sizes, cells
<1>4. Reads(m, p, w, <<>>, x, x)
  <2>1. Reads(m, <<GetInt("")>>, writeInt(1), <<>>, x, x)
    BY <1>2, SmallConstants, SkipReads
  <2>2. Len(writeFiller(8)) = 8 /\ writeFiller(8) \in Seq(Byte)
    BY FillerType
  <2>3. Reads(m, <<GetRaw(8, "")>>, writeFiller(8), <<>>, x, x)
    BY <1>2, <2>2, SkipReads
  <2>4. Reads(m, <<GetInt("")>> \o <<GetRaw(8, "")>>, w, <<>>, x, x)
    BY <2>1, <2>3, QuietReads
  <2>5. <<GetInt("")>> \o <<GetRaw(8, "")>> = p
    <3>1. "" \in PlainNames /\ "" \notin ByteNames
      BY DEF PlainNames, ByteNames
    <3>2. GetInt("") \in SoundEntries /\ GetRaw(8, "") \in SoundEntries
      BY <3>1, ReadKinds
    <3> QED
      BY <3>2, TwoJoin
  <2> QED
    BY <2>4, <2>5
<1> HIDE DEF p, w
<1>5. Reads(m, p \o sizes, w \o FlattenSeq(cells), RowSaid(row), x, x)
  BY <1>1, <1>4, QuietReads
<1> QED
  BY <1>3, <1>5 DEF x

-----------------------------------------------------------------------------
(***************************************************************************)
(* The loops over columns, results and rows.                               *)
(***************************************************************************)
ColumnsSaid(cols) == FlattenSeq([j \in DOMAIN cols |-> ColumnSaid(cols[j])])
InfosSaid(infos) == FlattenSeq([i \in DOMAIN infos |-> InfoSaid(infos[i])])
RowsSaid(rows) == FlattenSeq([i \in DOMAIN rows |-> RowSaid(rows[i])])

LEMMA OneMore ==
  ASSUME NEW S, NEW s \in Seq(S), NEW i \in 1..Len(s)
  PROVE  SubSeq(s, 1, i - 1) \o <<s[i]>> = SubSeq(s, 1, i)
<1> DEFINE k == i - 1
           a == SubSeq(s, 1, k)
           b == SubSeq(s, 1, i)
           c == <<s[i]>>
<1>1. k \in 0..Len(s) /\ i = k + 1 /\ i \in Nat /\ k \in Nat /\ i \in 0..Len(s) /\ Len(s) \in Nat
  OBVIOUS
<1>2. a \in Seq(S) /\ Len(a) = k /\ \A j \in 1..k : a[j] = s[j]
  BY <1>1, SubSeqProperties
<1>3. b \in Seq(S) /\ Len(b) = i /\ \A j \in 1..i : b[j] = s[j]
  BY <1>1, SubSeqProperties
<1>4. c \in Seq(S) /\ Len(c) = 1 /\ c[1] = s[i]
  OBVIOUS
<1> HIDE DEF a, b, c, k
<1>5. \A j \in 1..Len(a) : b[j] = a[j]
  BY <1>1, <1>2, <1>3
<1>6. \A j \in 1..Len(c) : b[Len(a) + j] = c[j]
  BY <1>1, <1>2, <1>3, <1>4
<1>7. Len(b) = Len(a) + Len(c)
  BY <1>1, <1>2, <1>3, <1>4
<1>8. a \o c = b
  BY <1>2, <1>3, <1>4, <1>5, <1>6, <1>7, SameSequence
<1> QED
  BY <1>8 DEF a, b, c, k

LEMMA ColumnsRead ==
  ASSUME NEW m, IsMessage(m), NEW s \in Int
  PROVE  Reads(m, <<Loop(Len(m.cols), "column")>>, FlattenSeq([j \in DOMAIN m.cols |-> ColumnBytes(m.cols[j])]),
               ColumnsSaid(m.cols), [stmt |-> s, cols |-> <<>>], [stmt |-> s, cols |-> TypesOf(m.cols)])
<1> DEFINE T == TypesOf(m.cols)
           n == Len(m.cols)
           W == [j \in DOMAIN m.cols |-> ColumnBytes(m.cols[j])]
           F == [j \in DOMAIN m.cols |-> ColumnSaid(m.cols[j])]
           X == [i \in 0..n |-> [stmt |-> s, cols |-> SubSeq(T, 1, i)]]
<1>1. m.cols \in Seq(Column) /\ n \in Nat /\ DOMAIN m.cols = 1..n /\ \A j \in 1..n : m.cols[j] \in Column
  <2>1. m.cols \in Seq(Column)
    BY MessageType
  <2> QED
    BY <2>1
<1>2. T \in Seq(Byte) /\ Len(T) = n /\ \A j \in 1..n : T[j] = m.cols[j].t
  BY KnownType
<1> HIDE DEF T, n
<1>3. X = [i \in 0..n |-> [stmt |-> s, cols |-> SubSeq(T, 1, i)]]
  OBVIOUS
<1>4. \A i \in 0..n : X[i] = [stmt |-> s, cols |-> SubSeq(T, 1, i)] /\ X[i] \in Metas
  <2>1. \A i \in 0..n : SubSeq(T, 1, i) \in Seq(Byte)
    <3> TAKE i \in 0..n
    <3> QED
      BY <1>2, <1>1, SubSeqProperties
  <2> QED
    BY <2>1 DEF Metas
<1>5. X[0] = [stmt |-> s, cols |-> <<>>] /\ X[n] = [stmt |-> s, cols |-> T]
  <2>1. SubSeq(T, 1, 0) = <<>>
    <3>1. SubSeq(T, 1, 0) \in Seq(Byte) /\ Len(SubSeq(T, 1, 0)) = 0
      BY <1>1, <1>2, SubSeqProperties
    <3> QED
      BY <3>1, EmptySeq
  <2>2. SubSeq(T, 1, n) = T
    <3> DEFINE u == SubSeq(T, 1, n)
    <3>1. u \in Seq(Byte) /\ Len(u) = n /\ \A j \in 1..n : u[j] = T[j]
      BY <1>1, <1>2, SubSeqProperties
    <3> HIDE DEF u
    <3>2. u = T
      BY <1>2, <3>1, SeqEqual
    <3> QED
      BY <3>2 DEF u
  <2>3. 0 \in 0..n /\ n \in 0..n
    BY <1>1
  <2> QED
    BY <1>4, <2>1, <2>2, <2>3
<1> HIDE DEF X
<1>6. ASSUME NEW i \in 1..n
      PROVE  Reads(m, EntryReads("column", X[i - 1]), W[i], F[i], X[i - 1], X[i])
  <2> DEFINE c == m.cols[i]
             y == X[i - 1]
  <2>1. c \in Column /\ W[i] = ColumnBytes(c) /\ F[i] = ColumnSaid(c)
    BY <1>1
  <2>2. i - 1 \in 0..n /\ i \in 0..n
    BY <1>1
  <2>3. y \in Metas /\ y = [stmt |-> s, cols |-> SubSeq(T, 1, i - 1)]
    BY <1>4, <2>2
  <2>4. Added(y, c.t) = X[i]
    <3>1. SubSeq(T, 1, i - 1) \o <<T[i]>> = SubSeq(T, 1, i)
      BY <1>2, OneMore
    <3>2. T[i] = c.t
      BY <1>2
    <3> QED
      BY <1>4, <2>2, <2>3, <3>1, <3>2 DEF Added
  <2>5. EntryReads("column", y) = parseColumnMetadata
    BY DEF EntryReads
  <2> HIDE DEF c, y
  <2>6. Reads(m, parseColumnMetadata, ColumnBytes(c), ColumnSaid(c), y, Added(y, c.t))
    BY <2>1, <2>3, ColumnReads
  <2> QED
    BY <2>1, <2>4, <2>5, <2>6 DEF y
<1>7. W \in Seq(Seq(Byte)) /\ Len(W) = n
  <2> DEFINE G == [c \in Column |-> ColumnBytes(c)]
  <2>1. G \in [Column -> Seq(Byte)] /\ W = Each(G, m.cols)
    BY EachBytes
  <2> HIDE DEF W, G
  <2>2. Maps(G, Column, Seq(Byte))
    BY <2>1 DEF Maps
  <2> QED
    BY <1>1, <2>1, <2>2, EachType DEF n
<1>8. F \in Seq(Seq(Field)) /\ Len(F) = n
  <2>1. \A i \in 1..n : F[i] \in Seq(Field)
    BY <1>6 DEF Reads
  <2>2. F = [i \in 1..n |-> F[i]]
    BY <1>1
  <2> HIDE DEF F
  <2> QED
    BY <1>1, <2>1, <2>2
<1> HIDE DEF W, F
<1>9. Entrywise(m, "column", n, W, F, X)
  BY <1>4, <1>6, <1>7, <1>8 DEF Entrywise
<1>10. Reads(m, <<Loop(n, "column")>>, FlattenSeq(W), FlattenSeq(F), X[0], X[n])
  <2>1. "column" \in LoopNames
    BY DEF LoopNames
  <2> QED
    BY <1>1, <1>9, <2>1, LoopReads
<1> QED
  BY <1>5, <1>10 DEF W, F, T, n, ColumnsSaid

LEMMA InfosRead ==
  ASSUME NEW m, IsMessage(m), NEW x \in Metas
  PROVE  Reads(m, <<Loop(Len(m.infos), "info")>>, FlattenSeq([i \in DOMAIN m.infos |-> InfoBytes(m.infos[i])]),
               InfosSaid(m.infos), x, x)
<1> DEFINE n == Len(m.infos)
           W == [i \in DOMAIN m.infos |-> InfoBytes(m.infos[i])]
           F == [i \in DOMAIN m.infos |-> InfoSaid(m.infos[i])]
           X == [i \in 0..n |-> x]
<1>1. m.infos \in Seq(Info) /\ n \in Nat /\ DOMAIN m.infos = 1..n /\ \A j \in 1..n : m.infos[j] \in Info
  <2>1. m.infos \in Seq(Info)
    BY MessageType
  <2> QED
    BY <2>1
<1> HIDE DEF n
<1>2. \A i \in 0..n : X[i] = x
  OBVIOUS
<1>3. X[0] = x /\ X[n] = x
  BY <1>1, <1>2
<1> HIDE DEF X
<1>4. ASSUME NEW i \in 1..n
      PROVE  Reads(m, EntryReads("info", X[i - 1]), W[i], F[i], X[i - 1], X[i])
  <2> DEFINE r == m.infos[i]
  <2>1. r \in Info /\ W[i] = InfoBytes(r) /\ F[i] = InfoSaid(r)
    BY <1>1
  <2>2. i - 1 \in 0..n /\ i \in 0..n
    BY <1>1
  <2>3. X[i - 1] = x /\ X[i] = x
    BY <1>2, <2>2
  <2>4. EntryReads("info", x) = parseResultInfos
    BY DEF EntryReads
  <2> HIDE DEF r
  <2>5. Reads(m, parseResultInfos, InfoBytes(r), InfoSaid(r), x, x)
    BY <2>1, InfoReads
  <2> QED
    BY <2>1, <2>3, <2>4, <2>5
<1>5. W \in Seq(Seq(Byte)) /\ Len(W) = n
  <2> DEFINE G == [i \in Info |-> InfoBytes(i)]
  <2>1. G \in [Info -> Seq(Byte)] /\ W = Each(G, m.infos)
    BY EachBytes
  <2> HIDE DEF W, G
  <2>2. Maps(G, Info, Seq(Byte))
    BY <2>1 DEF Maps
  <2> QED
    BY <1>1, <2>1, <2>2, EachType DEF n
<1>6. F \in Seq(Seq(Field)) /\ Len(F) = n
  <2>1. \A i \in 1..n : F[i] \in Seq(Field)
    BY <1>4 DEF Reads
  <2>2. F = [i \in 1..n |-> F[i]]
    BY <1>1
  <2> HIDE DEF F
  <2> QED
    BY <1>1, <2>1, <2>2
<1> HIDE DEF W, F
<1>7. Entrywise(m, "info", n, W, F, X)
  BY <1>2, <1>4, <1>5, <1>6 DEF Entrywise
<1>8. Reads(m, <<Loop(n, "info")>>, FlattenSeq(W), FlattenSeq(F), X[0], X[n])
  <2>1. "info" \in LoopNames
    BY DEF LoopNames
  <2> QED
    BY <1>1, <1>7, <2>1, LoopReads
<1> QED
  BY <1>3, <1>8 DEF W, F, n, InfosSaid

LEMMA RowsRead ==
  ASSUME NEW m, IsMessage(m)
  PROVE  Reads(m, <<Loop(Len(m.rows), "row")>>, FlattenSeq([i \in DOMAIN m.rows |-> RowBytes(m, m.rows[i])]),
               RowsSaid(m.rows), Known(m), Known(m))
<1> DEFINE n == Len(m.rows)
           W == [i \in DOMAIN m.rows |-> RowBytes(m, m.rows[i])]
           F == [i \in DOMAIN m.rows |-> RowSaid(m.rows[i])]
           x == Known(m)
           X == [i \in 0..n |-> x]
<1>1. m.rows \in Seq(Rows(m)) /\ n \in Nat /\ DOMAIN m.rows = 1..n /\ \A j \in 1..n : m.rows[j] \in Rows(m)
  <2>1. m.rows \in Seq(Rows(m))
    BY MessageType
  <2> QED
    BY <2>1
<1>x. x \in Metas
  BY KnownType
<1> HIDE DEF n, x
<1>2. \A i \in 0..n : X[i] = x
  OBVIOUS
<1>3. X[0] = x /\ X[n] = x
  BY <1>1, <1>2
<1> HIDE DEF X
<1>4. ASSUME NEW i \in 1..n
      PROVE  Reads(m, EntryReads("row", X[i - 1]), W[i], F[i], X[i - 1], X[i])
  <2> DEFINE r == m.rows[i]
  <2>1. r \in Rows(m) /\ W[i] = RowBytes(m, r) /\ F[i] = RowSaid(r)
    BY <1>1
  <2>2. i - 1 \in 0..n /\ i \in 0..n
    BY <1>1
  <2>3. X[i - 1] = x /\ X[i] = x
    BY <1>2, <2>2
  <2>4. EntryReads("row", x) = RowReads(x)
    BY DEF EntryReads
  <2> HIDE DEF r
  <2>5. Reads(m, RowReads(x), RowBytes(m, r), RowSaid(r), x, x)
    BY <2>1, RowReadsBack DEF x
  <2> QED
    BY <2>1, <2>3, <2>4, <2>5
<1>5. W \in Seq(Seq(Byte)) /\ Len(W) = n
  <2> DEFINE G == [r \in Rows(m) |-> RowBytes(m, r)]
  <2>1. G \in [Rows(m) -> Seq(Byte)] /\ W = Each(G, m.rows)
    BY EachBytes
  <2> HIDE DEF W, G
  <2>2. Maps(G, Rows(m), Seq(Byte))
    BY <2>1 DEF Maps
  <2> QED
    BY <1>1, <2>1, <2>2, EachType DEF n
<1>6. F \in Seq(Seq(Field)) /\ Len(F) = n
  <2>1. \A i \in 1..n : F[i] \in Seq(Field)
    BY <1>4 DEF Reads
  <2>2. F = [i \in 1..n |-> F[i]]
    BY <1>1
  <2> HIDE DEF F
  <2> QED
    BY <1>1, <2>1, <2>2
<1> HIDE DEF W, F
<1>7. Entrywise(m, "row", n, W, F, X)
  BY <1>x, <1>2, <1>4, <1>5, <1>6 DEF Entrywise
<1>8. Reads(m, <<Loop(n, "row")>>, FlattenSeq(W), FlattenSeq(F), X[0], X[n])
  <2>1. "row" \in LoopNames
    BY DEF LoopNames
  <2> QED
    BY <1>1, <1>7, <2>1, LoopReads
<1> QED
  BY <1>3, <1>8 DEF W, F, n, x, RowsSaid

-----------------------------------------------------------------------------
(***************************************************************************)
(* The answers.                                                            *)
(***************************************************************************)
Succeeds(m) == IsMessage(m) /\ m.p \in Parsers /\ m.err = <<>>

LEMMA OneType ==
  ASSUME NEW to \in ToNames, NEW n \in Int
  PROVE  One(to, n) \in Field
<1>1. <<n>> \in Seq(Int)
  BY TupleTypes
<1> QED
  BY <1>1 DEF Field, One

\* The rows of an answer.
LEMMA RowsReadBack ==
  ASSUME NEW m, Succeeds(m)
  PROVE  Reads(m, <<GetInt("tupleCount")>>, RowsBytes(m), SaidRows(m), Known(m), Known(m))
<1> DEFINE x == Known(m)
           n == Len(m.rows)
           op == GetInt("tupleCount")
           W == FlattenSeq([i \in DOMAIN m.rows |-> RowBytes(m, m.rows[i])])
           F == RowsSaid(m.rows)
           g == <<One("tupleCount", n)>>
<1>1. IsMessage(m) /\ IsSuccess(m)
  BY DEF Succeeds, IsMessage
<1>2. n \in Number32 /\ m.rows \in Seq(Rows(m)) /\ x \in Metas /\ Len(x.cols) = Len(m.cols) /\ m.cols \in Seq(Column)
      /\ x.cols \in Seq(Byte)
  BY <1>1, MessageType, KnownType DEF Known
<1>3. op \in SoundEntries /\ op.get = "int" /\ op.to = "tupleCount"
  BY IntOf
<1>4. "tupleCount" \notin ByteNames /\ "tupleCount" # "bindLen" /\ Fine("tupleCount", <<n>>)
  BY DEF ByteNames, Fine, Failed, Counts
<1>5. g = Fields("tupleCount", <<n>>) /\ g \in Seq(Field)
  <2>1. g = Fields("tupleCount", <<n>>)
    BY DEF Fields, Dropped, One
  <2>2. "tupleCount" \in ToNames
    BY DEF ToNames, LeadNames, Special
  <2>3. n \in Int
    BY <1>2, Bounds
  <2>4. One("tupleCount", n) \in Field
    BY <2>2, <2>3, OneType
  <2> QED
    BY <2>1, <2>4, TupleTypes
<1>6. RowsBytes(m) = writeInt(n) \o W
  BY DEF RowsBytes
<1>7. SaidRows(m) = g \o F
  BY DEF SaidRows, RowsSaid, RowSaid
<1>8. Reads(m, Later(m, op, x, n), W, F, x, x)
  <2>1. CASE m.p = "ParsePrepareAndExecute" \/ x.cols # <<>>
    <3>1. Later(m, op, x, n) = <<Loop(n, "row")>>
      BY <1>3, <2>1 DEF Later
    <3>2. Reads(m, <<Loop(n, "row")>>, W, F, x, x)
      BY <1>1, RowsRead
    <3> QED
      BY <3>1, <3>2
  <2>2. CASE ~(m.p = "ParsePrepareAndExecute" \/ x.cols # <<>>)
    <3>1. Later(m, op, x, n) = <<>>
      BY <1>3, <2>2 DEF Later
    <3>2. m.cols = <<>>
      BY <1>2, <2>2, EmptySeq
    <3>3. m.rows = <<>>
      BY <1>1, <3>2 DEF IsSuccess
    <3>4. W = <<>> /\ F = <<>>
      <4>1. DOMAIN m.rows = {}
        BY <3>3
      <4>2. [i \in DOMAIN m.rows |-> RowBytes(m, m.rows[i])] = <<>>
        BY <4>1
      <4>3. [i \in DOMAIN m.rows |-> RowSaid(m.rows[i])] = <<>>
        BY <4>1
      <4> QED
        BY <4>2, <4>3, FlattenNone DEF RowsSaid
    <3>5. Reads(m, <<>>, <<>>, <<>>, x, x)
      BY <1>2, ReadsNone
    <3> QED
      BY <3>1, <3>4, <3>5
  <2> QED
    BY <2>1, <2>2
<1> HIDE DEF op, W, F, g, x, n
<1>9. Reads(m, <<op>>, writeInt(n) \o W, g \o F, x, x)
  BY <1>2, <1>3, <1>4, <1>5, <1>8, CountReads
<1> QED
  BY <1>6, <1>7, <1>9 DEF op, x

\* The kind of statement is known from here on.
LEMMA StatementReads ==
  ASSUME NEW m, NEW s \in Int, NEW b \in Byte
  PROVE  Reads(m, <<GetByte("stmtType")>>, <<b>>, <<One("stmtType", b)>>,
               [stmt |-> s, cols |-> <<>>], [stmt |-> b, cols |-> <<>>])
<1> DEFINE op == GetByte("stmtType")
           u == <<b>>
           g == <<One("stmtType", b)>>
           x == [stmt |-> s, cols |-> <<>>]
           y == [stmt |-> b, cols |-> <<>>]
<1>1. op \in SoundEntries /\ op.get = "byte" /\ op.to = "stmtType" /\ op.n = 1
  <2>1. "stmtType" \in ByteNames
    BY DEF ByteNames
  <2>2. op \in SoundEntries
    BY <2>1, ReadKinds
  <2> QED
    BY <2>2 DEF GetByte, Rd
<1>2. u \in Seq(Byte) /\ Len(u) = 1 /\ u[1] = b /\ u # <<>> /\ First(u) = b /\ b \in Int /\ <<>> \in Seq(Byte)
  BY SmallBytes DEF First
<1>3. u = ValueOf("byte", u) /\ "byte" \in Gets
  BY DEF ValueOf, Gets
<1>4. g = Fields("stmtType", u) /\ g \in Seq(Field)
  <2>1. g = Fields("stmtType", u)
    BY DEF Fields, Dropped, One
  <2>2. "stmtType" \in ToNames
    BY DEF ToNames, ByteNames
  <2>3. One("stmtType", b) \in Field
    BY <1>2, <2>2, OneType
  <2> QED
    BY <2>1, <2>3, TupleTypes
<1>5. Fine("stmtType", u)
  BY DEF Fine, Failed, Counts
<1>6. x \in Metas /\ y \in Metas
  BY <1>2 DEF Metas
<1>7. y = Learned("stmtType", u, x)
  <2>1. ColumnTypes("stmtType", u) = <<>>
    BY DEF ColumnTypes
  <2>2. x.cols \o <<>> = <<>>
    BY <1>2, ConcatEmptySeq
  <2> QED
    BY <1>2, <2>1, <2>2 DEF Learned
<1>8. Later(m, op, y, b) = <<>> /\ Later(m, op, x, b) = <<>>
  BY <1>1 DEF Later, Follows
<1>9. Reads(m, <<>>, <<>>, <<>>, y, y)
  BY <1>6, ReadsNone
<1> DEFINE f == Later(m, op, x, First(u))
<1>10. Reads(m, f, <<>>, <<>>, y, y)
  BY <1>2, <1>8, <1>9
<1> HIDE DEF f
<1>11. f = Later(m, op, x, First(u))
  BY DEF f
<1> HIDE DEF op, u, g, x, y
<1>12. op.to # "bindLen" /\ op.get \in Gets /\ Len(u) = op.n /\ u = ValueOf(op.get, u)
       /\ Fine(op.to, u) /\ g = Fields(op.to, u) /\ y = Learned(op.to, u, x)
  BY <1>1, <1>2, <1>3, <1>4, <1>5, <1>7
<1>13. Reads(m, <<op>>, u \o <<>>, g \o <<>>, x, y)
  BY <1>1, <1>2, <1>4, <1>6, <1>10, <1>11, <1>12, ReadsValue
<1>14. u \o <<>> = u /\ g \o <<>> = g
  BY <1>2, <1>4, ConcatEmptySeq
<1>15. Reads(m, <<op>>, u, g, x, y)
  BY <1>13, <1>14
<1> QED
  BY <1>15 DEF op, u, g, x, y

\* The description of a statement.
LEMMA DescribedReads ==
  ASSUME NEW m, Succeeds(m), NEW s \in Int
  PROVE  Reads(m, Described, DescribedBytes(m), SaidDescribed(m), [stmt |-> s, cols |-> <<>>], Known(m))
<1> DEFINE x == [stmt |-> s, cols |-> <<>>]
           y == [stmt |-> m.stmt, cols |-> <<>>]
           z == Known(m)
           n == Len(m.cols)
           a == GetInt("")
           b == GetByte("stmtType")
           c == GetInt("bindCount")
           d == GetByte("")
           e == GetInt("colCount")
           u == writeInt(0)
           W == FlattenSeq([j \in DOMAIN m.cols |-> ColumnBytes(m.cols[j])])
           F == ColumnsSaid(m.cols)
           f == <<One("stmtType", m.stmt)>>
           g == <<One("bindCount", m.n)>>
<1>1. IsMessage(m)
  BY DEF Succeeds
<1>2. m.stmt \in Byte /\ m.stmt \in Int /\ m.n \in Number32 /\ m.n \in Int /\ n \in Number32 /\ n \in Nat
  <2>1. n \in Nat
    BY <1>1, MessageType
  <2> QED
    BY <1>1, <2>1, MessageType, SmallBytes
<1>3. x \in Metas /\ y \in Metas /\ z \in Metas
  <2>1. <<>> \in Seq(Byte)
    BY TupleTypes
  <2> QED
    BY <1>1, <1>2, <2>1, KnownType DEF Metas
<1>4. a \in SoundEntries /\ b \in SoundEntries /\ c \in SoundEntries /\ d \in SoundEntries /\ e \in SoundEntries
  <2>1. /\ "" \in PlainNames /\ "bindCount" \in PlainNames /\ "stmtType" \in ByteNames /\ "colCount" \in LeadNames
        /\ "" \notin ByteNames /\ "bindCount" \notin ByteNames /\ "colCount" \notin ByteNames
    BY DEF PlainNames, ByteNames, LeadNames, Counts
  <2> QED
    BY <2>1, ReadKinds
<1>5. Reads(m, <<a>>, u, <<>>, x, x)
  BY <1>3, SmallConstants, SkipReads
<1>6. Reads(m, <<b>>, <<m.stmt>>, f, x, y)
  BY <1>2, StatementReads
<1>7. Reads(m, <<c>>, writeInt(m.n), g, y, y)
  <2>1. "bindCount" \in PlainNames /\ "bindCount" \notin {"proto", "errMsg"} /\ "bindCount" \notin FineNames
    BY DEF PlainNames, FineNames
  <2>2. Fields("bindCount", <<m.n>>) = g
    BY DEF Fields, Dropped, One
  <2>3. Reads(m, <<c>>, writeInt(m.n), Fields("bindCount", <<m.n>>), y, y)
    BY <1>2, <1>3, <2>1, NumberReads
  <2> QED
    BY <2>2, <2>3
<1>8. Reads(m, <<d>>, <<0>>, <<>>, y, y)
  BY <1>3, SmallConstants, SkipReads
<1>9. Reads(m, <<e>>, writeInt(n) \o W, F, y, z)
  <2>1. Reads(m, <<Loop(n, "column")>>, W, F, y, z)
    BY <1>1, <1>2, ColumnsRead DEF Known
  <2>2. e \in SoundEntries /\ e.get = "int" /\ e.to = "colCount"
    BY IntOf
  <2>3. Later(m, e, y, n) = <<Loop(n, "column")>>
    BY <2>2 DEF Later, Follows
  <2>4. "colCount" \notin ByteNames /\ "colCount" # "bindLen" /\ Fine("colCount", <<n>>)
    <3>1. ~(<<n>>[1] < 0)
      BY <1>2
    <3> QED
      BY <3>1 DEF ByteNames, Fine, Failed
  <2>5. <<>> = Fields("colCount", <<n>>) /\ <<>> \in Seq(Field)
    BY TupleTypes DEF Fields, Dropped
  <2>6. Reads(m, Later(m, e, y, n), W, F, y, z)
    BY <2>1, <2>3
  <2> HIDE DEF e, W, F, y, z, n
  <2>7. Reads(m, <<e>>, writeInt(n) \o W, <<>> \o F, y, z)
    BY <1>2, <1>3, <2>2, <2>4, <2>5, <2>6, CountReads
  <2>8. <<>> \o F = F
    BY <2>1, ConcatEmptySeq DEF Reads
  <2> QED
    BY <2>7, <2>8
<1>10. <<a, b, c, d, e>> = Described
  BY DEF Described
<1>11. DescribedBytes(m) = ((((u \o <<m.stmt>>) \o writeInt(m.n)) \o <<0>>) \o writeInt(n)) \o W
  BY DEF DescribedBytes
<1>12. SaidDescribed(m) = (f \o g) \o F
  <2>1. \A p, q \in {One("stmtType", m.stmt), One("bindCount", m.n)} : <<p>> \o <<q>> = <<p, q>>
    BY TwoJoin
  <2>2. f \o g = <<One("stmtType", m.stmt), One("bindCount", m.n)>>
    BY <2>1
  <2> QED
    BY <2>2 DEF SaidDescribed, ColumnsSaid, ColumnSaid
<1> HIDE DEF a, b, c, d, e, f, g, u, x, y, z, W, F, n
<1>13. Reads(m, <<a, b>>, u \o <<m.stmt>>, f, x, y)
  <2>1. <<a>> \o <<b>> = <<a, b>>
    BY <1>4, TwoJoin
  <2> QED
    BY <1>5, <1>6, <2>1, QuietReads
<1>14. Reads(m, <<a, b, c>>, (u \o <<m.stmt>>) \o writeInt(m.n), f \o g, x, y)
  <2>1. <<a, b>> \o <<c>> = <<a, b, c>>
    BY <1>4, ThreeJoin
  <2> QED
    BY <1>7, <1>13, <2>1, ReadsJoin
<1>15. Reads(m, <<a, b, c, d>>, ((u \o <<m.stmt>>) \o writeInt(m.n)) \o <<0>>, f \o g, x, y)
  <2>1. <<a, b, c>> \o <<d>> = <<a, b, c, d>>
    BY <1>4, FourJoin
  <2> QED
    BY <1>8, <1>14, <2>1, ReadsQuiet
<1> DEFINE A == ((u \o <<m.stmt>>) \o writeInt(m.n)) \o <<0>>
<1> HIDE DEF A
<1>16. Reads(m, <<a, b, c, d>>, A, f \o g, x, y)
  BY <1>15 DEF A
<1>17. Reads(m, <<a, b, c, d, e>>, A \o (writeInt(n) \o W), (f \o g) \o F, x, z)
  <2>1. <<a, b, c, d>> \o <<e>> = <<a, b, c, d, e>>
    BY <1>4, FiveJoin
  <2> QED
    BY <1>9, <1>16, <2>1, ReadsJoin
<1>18. (A \o writeInt(n)) \o W = A \o (writeInt(n) \o W)
  <2>1. A \in Seq(Byte) /\ writeInt(n) \in Seq(Byte)
    BY <1>2, <1>16, WordType DEF Reads
  <2>2. W \in Seq(Byte)
    <3>1. FlattenSeq([j \in DOMAIN m.cols |-> ColumnBytes(m.cols[j])]) \in Seq(Byte)
      <4> DEFINE G == [k \in Column |-> ColumnBytes(k)]
      <4>1. G \in [Column -> Seq(Byte)] /\ [j \in DOMAIN m.cols |-> ColumnBytes(m.cols[j])] = Each(G, m.cols)
        BY <1>1, EachBytes
      <4>2. m.cols \in Seq(Column)
        BY <1>1, MessageType
      <4> HIDE DEF G
      <4> QED
        BY <4>1, <4>2, FlattenEach
    <3> QED
      BY <3>1 DEF W
  <2> QED
    BY <2>1, <2>2, BytesAssoc
<1> QED
  BY <1>10, <1>11, <1>12, <1>17, <1>18 DEF A, x, z

\* Rows that come with the result of a statement.
InlineBytes(m) == IF m.stmt = StmtSelect THEN writeInt(0) \o RowsBytes(m) ELSE <<>>
InlineSaid(m) == IF m.stmt = StmtSelect THEN SaidRows(m) ELSE <<>>

LEMMA InlineReads ==
  ASSUME NEW m, Succeeds(m)
  PROVE  Reads(m, <<Inline>>, InlineBytes(m), InlineSaid(m), Known(m), Known(m))
<1> DEFINE x == Known(m)
           a == GetInt("")
           b == GetInt("tupleCount")
           f == IF m.stmt = StmtSelect THEN <<a, b>> ELSE <<>>
           w == InlineBytes(m)
           g == InlineSaid(m)
<1>1. IsMessage(m) /\ x \in Metas /\ x.stmt = m.stmt
  BY KnownType DEF Succeeds, Known
<1>2. Inline \in SoundEntries /\ Inline.get \notin Gets /\ Inline.get = "inline"
  BY SoundReads DEF Inline, Rd, Gets
<1>3. Reads(m, f, w, g, x, x)
  <2>1. CASE m.stmt = StmtSelect
    <3>1. Reads(m, <<a>>, writeInt(0), <<>>, x, x)
      BY <1>1, SmallConstants, SkipReads
    <3>2. Reads(m, <<b>>, RowsBytes(m), SaidRows(m), x, x)
      BY RowsReadBack
    <3>3. Reads(m, <<a>> \o <<b>>, writeInt(0) \o RowsBytes(m), SaidRows(m), x, x)
      BY <3>1, <3>2, QuietReads
    <3>4. <<a>> \o <<b>> = <<a, b>>
      <4>1. "" \in PlainNames /\ "tupleCount" \in LeadNames /\ "" \notin ByteNames /\ "tupleCount" \notin ByteNames
        BY DEF PlainNames, ByteNames, LeadNames, Special
      <4>2. a \in SoundEntries /\ b \in SoundEntries
        BY <4>1, ReadKinds
      <4> QED
        BY <4>2, TwoJoin
    <3> QED
      BY <2>1, <3>3, <3>4 DEF InlineBytes, InlineSaid
  <2>2. CASE m.stmt # StmtSelect
    <3>1. f = <<>> /\ w = <<>> /\ g = <<>>
      BY <2>2 DEF InlineBytes, InlineSaid
    <3> QED
      BY <1>1, <3>1, ReadsNone
  <2> QED
    BY <2>1, <2>2
<1>4. ASSUME m.stmt = StmtSelect, NEW r \in Seq(Byte) PROVE Len(w \o r) >= 8
  <2>1. w = writeInt(0) \o RowsBytes(m)
    BY <1>4 DEF InlineBytes
  <2> DEFINE u == writeInt(0)
             v == writeInt(Len(m.rows))
             q == FlattenSeq([i \in DOMAIN m.rows |-> RowBytes(m, m.rows[i])])
  <2>2. u \in Seq(Byte) /\ Len(u) = 4
    BY WordType
  <2>3. v \in Seq(Byte) /\ Len(v) = 4
    <3>1. Len(m.rows) \in Int
      BY <1>1, MessageType, Bounds
    <3> QED
      BY <3>1, WordType
  <2>4. q \in Seq(Byte) /\ RowsBytes(m) = v \o q
    <3> DEFINE G == [k \in Rows(m) |-> RowBytes(m, k)]
    <3>1. G \in [Rows(m) -> Seq(Byte)] /\ [i \in DOMAIN m.rows |-> RowBytes(m, m.rows[i])] = Each(G, m.rows)
      BY <1>1, EachBytes
    <3>2. m.rows \in Seq(Rows(m))
      BY <1>1, MessageType
    <3> HIDE DEF G
    <3> QED
      BY <3>1, <3>2, FlattenEach DEF RowsBytes
  <2> HIDE DEF u, v, q
  <2>5. v \o q \in Seq(Byte) /\ Len(v \o q) = 4 + Len(q) /\ Len(q) \in Nat
    <3>1. Len(q) \in Nat
      BY <2>4
    <3>2. v \o q \in Seq(Byte) /\ Len(v \o q) = Len(v) + Len(q)
      BY <2>3, <2>4, ConcatProperties
    <3> QED
      BY <2>3, <3>1, <3>2
  <2>6. u \o (v \o q) \in Seq(Byte) /\ Len(u \o (v \o q)) = 8 + Len(q)
    <3> DEFINE p == v \o q
    <3>1. p \in Seq(Byte) /\ Len(p) = 4 + Len(q)
      BY <2>5
    <3> HIDE DEF p
    <3>2. u \o p \in Seq(Byte) /\ Len(u \o p) = Len(u) + Len(p)
      BY <2>2, <3>1, ConcatProperties
    <3> QED
      BY <2>2, <2>5, <3>1, <3>2 DEF p
  <2>7. w = u \o (v \o q)
    BY <2>1, <2>4 DEF u
  <2>8. Len(w \o r) = Len(w) + Len(r) /\ Len(r) \in Nat
    BY <2>6, <2>7, ConcatProperties
  <2> HIDE DEF w
  <2>9. Len(w) = 8 + Len(q)
    BY <2>6, <2>7
  <2> QED
    BY <2>5, <2>8, <2>9
<1>5. ASSUME NEW r \in Seq(Byte), NEW o \in Seq(Field)
      PROVE  Unrolled(m, Inline, At(w \o r, o, x)) = f
  <2> DEFINE p == w \o r
  <2>1. m.stmt = StmtSelect => Len(p) >= 8
    BY <1>4
  <2> HIDE DEF p, x
  <2>2. Unrolled(m, Inline, At(p, o, x)) = IF x.stmt = StmtSelect /\ Len(p) >= 8 THEN <<a, b>> ELSE <<>>
    BY <1>2 DEF Unrolled, At
  <2> QED
    BY <1>1, <2>1, <2>2 DEF p
<1> HIDE DEF x, w, g, f
<1>6. Reads(m, <<Inline>>, w, g, x, x)
  BY <1>2, <1>3, <1>5, ReadsUnrolled
<1> QED
  BY <1>6 DEF x, w, g

\* The results of an execution, with the fields that the protocol's version brings.
LEMMA ExecutedReads ==
  ASSUME Succeeds(msg)
  PROVE  Reads(msg, Executed, ExecutedBytes(msg), SaidExecuted(msg), Known(msg), Known(msg))
<1> DEFINE x == Known(msg)
           n == Len(msg.infos)
           a == GetByte("")
           b == GetInt("resultCount")
           W == FlattenSeq([i \in DOMAIN msg.infos |-> InfoBytes(msg.infos[i])])
           F == InfosSaid(msg.infos)
           p == IF msg.ver > 1 THEN <<GetByte("")>> ELSE <<>>
           q == IF msg.ver > 4 THEN <<GetInt("")>> ELSE <<>>
           v == IF msg.ver > 1 THEN <<0>> ELSE <<>>
           w == IF msg.ver > 4 THEN writeInt(0) ELSE <<>>
           W2 == InlineBytes(msg)
           F2 == InlineSaid(msg)
<1>1. IsMessage(msg) /\ x \in Metas
  BY KnownType DEF Succeeds
<1>2. n \in Number32 /\ n \in Nat
  BY <1>1, MessageType
<1>3. a \in SoundEntries /\ b \in SoundEntries /\ b.get = "int" /\ b.to = "resultCount"
  <2>1. "" \in PlainNames
    BY DEF PlainNames
  <2> QED
    BY <2>1, ReadKinds, IntOf
<1>4. Reads(msg, <<a>>, <<0>>, <<>>, x, x)
  BY <1>1, SmallConstants, SkipReads
<1>5. Reads(msg, <<b>>, writeInt(n) \o W, F, x, x)
  <2>1. Reads(msg, <<Loop(n, "info")>>, W, F, x, x)
    BY <1>1, InfosRead
  <2>2. Later(msg, b, x, n) = <<Loop(n, "info")>>
    BY <1>3 DEF Later, Follows
  <2>3. "resultCount" \notin ByteNames /\ "resultCount" # "bindLen" /\ Fine("resultCount", <<n>>)
    <3>1. ~(<<n>>[1] < 0)
      BY <1>2
    <3> QED
      BY <3>1 DEF ByteNames, Fine, Failed
  <2>4. <<>> = Fields("resultCount", <<n>>) /\ <<>> \in Seq(Field)
    BY TupleTypes DEF Fields, Dropped
  <2>5. Reads(msg, Later(msg, b, x, n), W, F, x, x)
    BY <2>1, <2>2
  <2> HIDE DEF b, W, F, x, n
  <2>6. Reads(msg, <<b>>, writeInt(n) \o W, <<>> \o F, x, x)
    BY <1>1, <1>2, <1>3, <2>3, <2>4, <2>5, CountReads
  <2>7. <<>> \o F = F
    BY <2>1, ConcatEmptySeq DEF Reads
  <2> QED
    BY <2>6, <2>7
<1>6. Reads(msg, p, v, <<>>, x, x)
  <2>1. Reads(msg, <<>>, <<>>, <<>>, x, x)
    BY <1>1, ReadsNone
  <2> QED
    BY <1>4, <2>1
<1>7. Reads(msg, q, w, <<>>, x, x)
  <2>1. Reads(msg, <<>>, <<>>, <<>>, x, x)
    BY <1>1, ReadsNone
  <2>2. Reads(msg, <<GetInt("")>>, writeInt(0), <<>>, x, x)
    BY <1>1, SmallConstants, SkipReads
  <2> QED
    BY <2>1, <2>2
<1>8. Reads(msg, <<Inline>>, W2, F2, x, x)
  BY InlineReads
<1>9. ExecutedBytes(msg) = ((((<<0>> \o writeInt(n)) \o W) \o v) \o w) \o W2
  BY DEF ExecutedBytes, InlineBytes
<1>10. SaidExecuted(msg) = F \o F2
  BY DEF SaidExecuted, InfosSaid, InfoSaid, InlineSaid
<1>11. Executed = ((<<a, b>> \o p) \o q) \o <<Inline>>
  BY DEF Executed
<1>12. (<<0>> \o writeInt(n)) \o W = <<0>> \o (writeInt(n) \o W)
  <2>1. <<0>> \in Seq(Byte) /\ writeInt(n) \in Seq(Byte)
    BY <1>2, Constants, WordType
  <2>2. W \in Seq(Byte)
    <3> DEFINE G == [k \in Info |-> InfoBytes(k)]
    <3>1. G \in [Info -> Seq(Byte)] /\ [i \in DOMAIN msg.infos |-> InfoBytes(msg.infos[i])] = Each(G, msg.infos)
      BY <1>1, EachBytes
    <3>2. msg.infos \in Seq(Info)
      BY <1>1, MessageType
    <3> HIDE DEF G
    <3> QED
      BY <3>1, <3>2, FlattenEach
  <2> HIDE DEF W
  <2> QED
    BY <2>1, <2>2, BytesAssoc
<1> HIDE DEF x, n, a, b, W, F, p, q, v, w, W2, F2
<1>13. Reads(msg, <<a, b>>, (<<0>> \o writeInt(n)) \o W, F, x, x)
  <2>1. <<a>> \o <<b>> = <<a, b>>
    BY <1>3, TwoJoin
  <2>2. Reads(msg, <<a>> \o <<b>>, <<0>> \o (writeInt(n) \o W), F, x, x)
    BY <1>4, <1>5, QuietReads
  <2> QED
    BY <1>12, <2>1, <2>2
<1>14. Reads(msg, <<a, b>> \o p, ((<<0>> \o writeInt(n)) \o W) \o v, F, x, x)
  BY <1>6, <1>13, ReadsQuiet
<1>15. Reads(msg, (<<a, b>> \o p) \o q, (((<<0>> \o writeInt(n)) \o W) \o v) \o w, F, x, x)
  BY <1>7, <1>14, ReadsQuiet
<1>16. Reads(msg, ((<<a, b>> \o p) \o q) \o <<Inline>>, ((((<<0>> \o writeInt(n)) \o W) \o v) \o w) \o W2, F \o F2, x, x)
  BY <1>8, <1>15, ReadsJoin
<1> QED
  BY <1>9, <1>10, <1>11, <1>16 DEF x

\* The beginnings of the answers: a handle, a number of rows, a code.
LEMMA CodeReads ==
  ASSUME NEW m, NEW n \in Number32, n >= 0, NEW x \in Metas
  PROVE  /\ Reads(m, <<GetInt("handle")>>, writeInt(n), <<One("handle", n)>>, x, x)
         /\ Reads(m, <<GetInt("total")>>, writeInt(n), <<One("total", n)>>, x, x)
         /\ Reads(m, <<GetInt("code")>>, writeInt(n), <<>>, x, x)
<1>1. ASSUME NEW to \in {"handle", "total", "code"}
      PROVE  to \in PlainNames /\ to \notin {"proto", "errMsg"} /\ to \notin ByteNames
  BY DEF PlainNames, ByteNames
<1>2. ASSUME NEW to \in {"handle", "total", "code"}
      PROVE  Reads(m, <<GetInt(to)>>, writeInt(n), Fields(to, <<n>>), x, x)
  BY <1>1, NumberReads
<1>3. /\ Fields("handle", <<n>>) = <<One("handle", n)>> /\ Fields("total", <<n>>) = <<One("total", n)>>
      /\ Fields("code", <<n>>) = <<>>
  BY DEF Fields, Dropped, One
<1>4. Reads(m, <<GetInt("handle")>>, writeInt(n), Fields("handle", <<n>>), x, x)
  BY <1>2
<1>5. Reads(m, <<GetInt("total")>>, writeInt(n), Fields("total", <<n>>), x, x)
  BY <1>2
<1>6. Reads(m, <<GetInt("code")>>, writeInt(n), Fields("code", <<n>>), x, x)
  BY <1>2
<1> QED
  BY <1>3, <1>4, <1>5, <1>6

\* Numbers whose sign says nothing.
LEMMA OtherNumberReads ==
  ASSUME NEW m, NEW n \in Number32, NEW x \in Metas
  PROVE  /\ Reads(m, <<GetInt("totalCount")>>, writeInt(n), <<One("total", n)>>, x, x)
         /\ Reads(m, <<GetInt("session")>>, writeInt(n), <<One("session", n)>>, x, x)
         /\ Reads(m, <<GetInt("dataLen")>>, writeInt(n), <<One("dataLen", n)>>, x, x)
<1>1. ASSUME NEW to \in {"totalCount", "session", "dataLen"}
      PROVE  to \in PlainNames /\ to \notin {"proto", "errMsg"} /\ to \notin FineNames
  BY DEF PlainNames, FineNames
<1>2. ASSUME NEW to \in {"totalCount", "session", "dataLen"}
      PROVE  Reads(m, <<GetInt(to)>>, writeInt(n), Fields(to, <<n>>), x, x)
  BY <1>1, NumberReads
<1>3. /\ Fields("totalCount", <<n>>) = <<One("total", n)>> /\ Fields("session", <<n>>) = <<One("session", n)>>
      /\ Fields("dataLen", <<n>>) = <<One("dataLen", n)>>
  BY DEF Fields, Dropped, One
<1>4. Reads(m, <<GetInt("totalCount")>>, writeInt(n), Fields("totalCount", <<n>>), x, x)
  BY <1>2
<1>5. Reads(m, <<GetInt("session")>>, writeInt(n), Fields("session", <<n>>), x, x)
  BY <1>2
<1>6. Reads(m, <<GetInt("dataLen")>>, writeInt(n), Fields("dataLen", <<n>>), x, x)
  BY <1>2
<1> QED
  BY <1>3, <1>4, <1>5, <1>6

\* What a parser knows when it begins.
Start(m) ==
  IF m.p \in {"ParseExecute", "ParseFetch"} THEN Known(m) ELSE [stmt |-> 0, cols |-> <<>>]

\* The reads ops take the whole answer apart into what the server said.
Answered(m, ops) == \E y : Reads(m, ops, AnswerBytes(m), Said(m), Start(m), y)

LEMMA StartType ==
  ASSUME NEW m, IsMessage(m)
  PROVE  Start(m) \in Metas
<1>1. Known(m) \in Metas
  BY KnownType
<1>2. [stmt |-> 0, cols |-> <<>>] \in Metas
  BY TupleTypes DEF Metas
<1> QED
  BY <1>1, <1>2 DEF Start

LEMMA PrepareReads ==
  ASSUME NEW m, Succeeds(m), m.h >= 0
  PROVE  Reads(m, <<GetInt("handle")>> \o Described, writeInt(m.h) \o DescribedBytes(m),
               <<One("handle", m.h)>> \o SaidDescribed(m), [stmt |-> 0, cols |-> <<>>], Known(m))
<1> DEFINE x == [stmt |-> 0, cols |-> <<>>]
<1>1. x \in Metas
  BY TupleTypes DEF Metas
<1>2. m.h \in Number32
  BY MessageType DEF Succeeds
<1>3. Reads(m, Described, DescribedBytes(m), SaidDescribed(m), x, Known(m))
  BY SmallConstants, DescribedReads
<1> HIDE DEF x
<1>4. Reads(m, <<GetInt("handle")>>, writeInt(m.h), <<One("handle", m.h)>>, x, x)
  BY <1>1, <1>2, CodeReads
<1>5. Reads(m, <<GetInt("handle")>> \o Described, writeInt(m.h) \o DescribedBytes(m),
            <<One("handle", m.h)>> \o SaidDescribed(m), x, Known(m))
  BY <1>3, <1>4, ReadsJoin
<1> QED
  BY <1>5 DEF x

LEMMA PrepareAnswered ==
  ASSUME NEW m, Succeeds(m), m.p = "ParsePrepare"
  PROVE  Answered(m, ParsePrepare)
<1>1. IsMessage(m) /\ m.h >= 0
  BY DEF Succeeds, IsMessage, IsSuccess
<1>2. AnswerBytes(m) = writeInt(m.h) \o DescribedBytes(m)
  BY DEF AnswerBytes, Succeeds
<1>3. Said(m) = <<One("handle", m.h)>> \o SaidDescribed(m)
  BY DEF Said
<1>4. Start(m) = [stmt |-> 0, cols |-> <<>>]
  BY DEF Start
<1>5. ParsePrepare = <<GetInt("handle")>> \o Described
  BY DEF ParsePrepare
<1> QED
  BY <1>1, <1>2, <1>3, <1>4, <1>5, PrepareReads DEF Answered

LEMMA ExecuteAnswered ==
  ASSUME Succeeds(msg), msg.p = "ParseExecute"
  PROVE  Answered(msg, ParseExecute)
<1>1. IsMessage(msg) /\ msg.total >= 0
  BY DEF Succeeds, IsMessage, IsSuccess
<1>2. AnswerBytes(msg) = writeInt(msg.total) \o ExecutedBytes(msg)
  BY DEF AnswerBytes, Succeeds
<1>3. Said(msg) = <<One("total", msg.total)>> \o SaidExecuted(msg)
  BY DEF Said
<1>4. Start(msg) = Known(msg) /\ Known(msg) \in Metas
  BY <1>1, KnownType DEF Start
<1>5. ParseExecute = <<GetInt("total")>> \o Executed
  BY DEF ParseExecute
<1>6. msg.total \in Number32
  BY <1>1, MessageType
<1>7. Reads(msg, <<GetInt("total")>>, writeInt(msg.total), <<One("total", msg.total)>>, Known(msg), Known(msg))
  BY <1>1, <1>4, <1>6, CodeReads
<1>8. Reads(msg, Executed, ExecutedBytes(msg), SaidExecuted(msg), Known(msg), Known(msg))
  BY ExecutedReads
<1>9. Reads(msg, <<GetInt("total")>> \o Executed, writeInt(msg.total) \o ExecutedBytes(msg),
            <<One("total", msg.total)>> \o SaidExecuted(msg), Known(msg), Known(msg))
  BY <1>7, <1>8, ReadsJoin
<1> QED
  BY <1>2, <1>3, <1>4, <1>5, <1>9 DEF Answered

LEMMA PrepareAndExecuteAnswered ==
  ASSUME Succeeds(msg), msg.p = "ParsePrepareAndExecute"
  PROVE  Answered(msg, ParsePrepareAndExecute)
<1> DEFINE x == [stmt |-> 0, cols |-> <<>>]
           y == Known(msg)
           p == <<GetInt("handle")>> \o Described
           v == writeInt(msg.h) \o DescribedBytes(msg)
           f == <<One("handle", msg.h)>> \o SaidDescribed(msg)
           q == <<GetInt("totalCount")>>
           w == writeInt(msg.total)
           g == <<One("total", msg.total)>>
<1>1. IsMessage(msg) /\ msg.h >= 0
  BY DEF Succeeds, IsMessage, IsSuccess
<1>2. AnswerBytes(msg) = (v \o w) \o ExecutedBytes(msg)
  BY DEF AnswerBytes, Succeeds
<1>3. Said(msg) = (f \o g) \o SaidExecuted(msg)
  BY DEF Said
<1>4. Start(msg) = x /\ y \in Metas
  BY <1>1, KnownType DEF Start
<1>5. ParsePrepareAndExecute = (p \o q) \o Executed
  BY DEF ParsePrepareAndExecute
<1>6. msg.total \in Number32
  BY <1>1, MessageType
<1>7. Reads(msg, p, v, f, x, y)
  BY <1>1, PrepareReads
<1>8. Reads(msg, q, w, g, y, y)
  BY <1>4, <1>6, OtherNumberReads
<1>9. Reads(msg, Executed, ExecutedBytes(msg), SaidExecuted(msg), y, y)
  BY ExecutedReads
<1> HIDE DEF x, y, p, q, v, w, f, g
<1>10. Reads(msg, p \o q, v \o w, f \o g, x, y)
  BY <1>7, <1>8, ReadsJoin
<1>11. Reads(msg, (p \o q) \o Executed, (v \o w) \o ExecutedBytes(msg), (f \o g) \o SaidExecuted(msg), x, y)
  BY <1>9, <1>10, ReadsJoin
<1> QED
  BY <1>2, <1>3, <1>4, <1>5, <1>11 DEF Answered

LEMMA FetchAnswered ==
  ASSUME NEW m, Succeeds(m), m.p = "ParseFetch"
  PROVE  Answered(m, ParseFetch)
<1>1. IsMessage(m)
  BY DEF Succeeds
<1>2. AnswerBytes(m) = writeInt(0) \o RowsBytes(m)
  BY DEF AnswerBytes, Succeeds
<1>3. Said(m) = SaidRows(m)
  BY DEF Said
<1>4. Start(m) = Known(m) /\ Known(m) \in Metas
  BY <1>1, KnownType DEF Start
<1>5. ParseFetch = <<GetInt("code")>> \o <<GetInt("tupleCount")>>
  <2>1. /\ "code" \in PlainNames /\ "tupleCount" \in LeadNames
        /\ "code" \notin ByteNames /\ "tupleCount" \notin ByteNames
    BY DEF PlainNames, ByteNames, LeadNames, Special
  <2>2. GetInt("code") \in SoundEntries /\ GetInt("tupleCount") \in SoundEntries
    BY <2>1, ReadKinds
  <2>3. <<GetInt("code")>> \o <<GetInt("tupleCount")>> = <<GetInt("code"), GetInt("tupleCount")>>
    BY <2>2, TwoJoin
  <2> QED
    BY <2>3 DEF ParseFetch
<1>6. Reads(m, <<GetInt("code")>>, writeInt(0), <<>>, Known(m), Known(m))
  <2>1. 0 \in Number32 /\ 0 >= 0
    BY SmallConstants
  <2> QED
    BY <1>4, <2>1, CodeReads
<1>7. Reads(m, <<GetInt("tupleCount")>>, RowsBytes(m), SaidRows(m), Known(m), Known(m))
  BY RowsReadBack
<1>8. Reads(m, <<GetInt("code")>> \o <<GetInt("tupleCount")>>, writeInt(0) \o RowsBytes(m), SaidRows(m), Known(m), Known(m))
  BY <1>6, <1>7, QuietReads
<1> QED
  BY <1>2, <1>3, <1>4, <1>5, <1>8 DEF Answered

LEMMA SimpleAnswered ==
  ASSUME NEW m, Succeeds(m), m.p = "ParseSimpleResponse"
  PROVE  Answered(m, ParseSimpleResponse)
<1>1. IsMessage(m)
  BY DEF Succeeds
<1>2. AnswerBytes(m) = writeInt(0)
  BY DEF AnswerBytes, Succeeds
<1>3. Said(m) = <<>> /\ Start(m) \in Metas
  BY <1>1, StartType DEF Said
<1>4. 0 \in Number32 /\ 0 >= 0
  BY SmallConstants
<1>5. Reads(m, <<GetInt("code")>>, writeInt(0), <<>>, Start(m), Start(m))
  BY <1>3, <1>4, CodeReads
<1> QED
  BY <1>2, <1>3, <1>5 DEF Answered, ParseSimpleResponse

LEMMA VersionAnswered ==
  ASSUME Succeeds(msg), msg.p = "ParseGetDbVersion", buf = Bytes(msg)
  PROVE  Answered(msg, ParseGetDbVersion)
<1> DEFINE s == msg.text
           t == s \o <<0>>
           n == Len(s) + 1
           a == GetInt("code")
           b == GetText(n, "version")
           x == Start(msg)
<1>1. IsMessage(msg) /\ s \in Seq(Byte) /\ x \in Metas /\ Len(s) \in Nat
  <2>1. IsMessage(msg)
    BY DEF Succeeds
  <2>2. s \in Seq(Byte)
    BY <2>1, MessageType
  <2> QED
    BY <2>1, <2>2, StartType
<1>2. AnswerBytes(msg) = writeInt(0) \o t
  <2>1. AnswerBytes(msg) = (writeInt(0) \o s) \o <<0>>
    BY DEF AnswerBytes, Succeeds
  <2>2. writeInt(0) \in Seq(Byte) /\ <<0>> \in Seq(Byte)
    BY Constants
  <2>3. s \in Seq(Byte)
    BY <1>1
  <2> HIDE DEF s
  <2>4. (writeInt(0) \o s) \o <<0>> = writeInt(0) \o (s \o <<0>>)
    BY <2>2, <2>3, BytesAssoc
  <2> QED
    BY <2>1, <2>4
<1>3. Said(msg) = <<<<"version", s>>>>
  BY DEF Said
<1>4. 0 \in Number32 /\ 0 >= 0 /\ n \in Int
  BY <1>1, SmallConstants
<1>5. Reads(msg, <<a>>, writeInt(0), <<>>, x, x)
  BY <1>1, <1>4, CodeReads
<1>6. Reads(msg, <<b>>, t, <<<<"version", s>>>>, x, x)
  <2>1. "version" \in PlainNames /\ "version" \notin {"proto", "errMsg"} /\ "version" \notin FineNames
    BY DEF PlainNames, FineNames
  <2>2. Fields("version", s) = <<<<"version", s>>>>
    BY DEF Fields, Dropped
  <2> HIDE DEF s, x
  <2>3. Reads(msg, <<GetText(n, "version")>>, s \o <<0>>, Fields("version", s), x, x)
    BY <1>1, <2>1, TextReads
  <2> QED
    BY <2>2, <2>3
<1>7. Len(buf) - 8 = n
  <2>1. buf = writeFiller(4) \o (writeInt(0) \o t)
    BY <1>2 DEF Bytes, Succeeds
  <2>2. writeFiller(4) \in Seq(Byte) /\ Len(writeFiller(4)) = 4
    BY FillerType
  <2>3. writeInt(0) \in Seq(Byte) /\ Len(writeInt(0)) = 4
    BY WordType
  <2>4. t \in Seq(Byte) /\ Len(t) = n
    BY <1>1, TextBytes
  <2> HIDE DEF t, s, n
  <2> DEFINE u == writeInt(0) \o t
  <2>5. u \in Seq(Byte) /\ Len(u) = 4 + n
    <3>1. u \in Seq(Byte) /\ Len(u) = Len(writeInt(0)) + Len(t)
      BY <2>3, <2>4, Joined
    <3> QED
      BY <2>3, <2>4, <3>1
  <2> HIDE DEF u
  <2>6. Len(writeFiller(4) \o u) = 4 + Len(u)
    <3>1. Len(writeFiller(4) \o u) = Len(writeFiller(4)) + Len(u)
      BY <2>2, <2>5, Joined
    <3> QED
      BY <2>2, <3>1
  <2>7. Len(buf) = 4 + (4 + n)
    BY <2>1, <2>5, <2>6 DEF u
  <2> HIDE DEF n
  <2> QED
    BY <1>4, <2>7
<1>8. ParseGetDbVersion = <<a>> \o <<b>>
  <2>1. "code" \in PlainNames /\ "version" \in PlainNames /\ "code" \notin ByteNames
    BY DEF PlainNames, ByteNames
  <2> HIDE DEF n
  <2>2. a \in SoundEntries /\ b \in SoundEntries
    BY <1>4, <2>1, ReadKinds
  <2>3. ParseGetDbVersion = <<a, b>>
    BY <1>7 DEF ParseGetDbVersion
  <2> HIDE DEF a, b
  <2> QED
    BY <2>2, <2>3, TwoJoin
<1> HIDE DEF a, b, s, t, x, n
<1>9. Reads(msg, <<a>> \o <<b>>, writeInt(0) \o t, <<<<"version", s>>>>, x, x)
  BY <1>5, <1>6, QuietReads
<1> QED
  BY <1>2, <1>3, <1>8, <1>9 DEF Answered, x

LEMMA InsertIdAnswered ==
  ASSUME NEW m, Succeeds(m), m.p = "ParseGetLastInsertId"
  PROVE  Answered(m, ParseGetLastInsertId)
<1> DEFINE x == Start(m)
<1>1. IsMessage(m) /\ x \in Metas
  BY StartType DEF Succeeds
<1>2. m.text \in Seq(Byte) /\ Len(m.text) <= MaxLen
  BY <1>1, MessageType
<1>3. AnswerBytes(m) = IF m.text = <<>> THEN writeInt(0) ELSE writeNullTermString(m.text)
  BY DEF AnswerBytes, Succeeds
<1>4. Said(m) = IF m.text = <<>> THEN <<>> ELSE <<<<"id", m.text>>>>
  BY DEF Said
<1>5. ParseGetLastInsertId = <<GetInt("idLen")>>
  BY DEF ParseGetLastInsertId
<1> HIDE DEF x
<1>6. CASE m.text = <<>>
  <2>1. Reads(m, <<GetInt("idLen")>>, writeInt(0), <<>>, x, x)
    BY <1>1, NoString
  <2> QED
    BY <1>3, <1>4, <1>5, <1>6, <2>1 DEF Answered, x
<1>7. CASE m.text # <<>>
  <2>1. StringFields("idLen", m.text) = <<<<"id", m.text>>>>
    BY DEF StringFields
  <2>2. Reads(m, <<GetInt("idLen")>>, writeNullTermString(m.text), StringFields("idLen", m.text), x, x)
    BY <1>1, <1>2, StringReads
  <2> QED
    BY <1>3, <1>4, <1>5, <1>7, <2>1, <2>2 DEF Answered, x
<1> QED
  BY <1>6, <1>7

\* The version is in the low bits of the fifth of sixteen bytes.
LEMMA ProtoReads ==
  ASSUME NEW m, NEW v \in 0..63, NEW x \in Metas
  PROVE  Reads(m, <<GetRaw(16, "proto")>>, (writeFiller(4) \o <<64 + v>>) \o writeFiller(11), <<One("proto", v)>>, x, x)
<1> DEFINE f == writeFiller(4)
           b == <<64 + v>>
           g == writeFiller(11)
           w == (f \o b) \o g
           op == GetRaw(16, "proto")
           said == <<One("proto", v)>>
<1>1. f \in Seq(Byte) /\ Len(f) = 4 /\ g \in Seq(Byte) /\ Len(g) = 11
  BY FillerType
<1>2. b \in Seq(Byte) /\ Len(b) = 1 /\ b[1] = 64 + v /\ v \in Int
  <2>1. 64 + v \in Byte /\ v \in Int
    BY DEF Byte
  <2> DEFINE k == 64 + v
  <2> HIDE DEF k
  <2>2. k \in Byte => <<k>> \in Seq(Byte) /\ Len(<<k>>) = 1 /\ <<k>>[1] = k
    BY SmallBytes
  <2> QED
    BY <2>1, <2>2 DEF k
<1> HIDE DEF f, b, g
<1> DEFINE h == f \o b
<1>3. h \in Seq(Byte) /\ Len(h) = 5 /\ h[5] = 64 + v
  <2>1. h \in Seq(Byte) /\ Len(h) = Len(f) + Len(b) /\ \A j \in 1..Len(b) : h[Len(f) + j] = b[j]
    <3>1. f \in Seq(Byte) /\ b \in Seq(Byte)
      BY <1>1, <1>2
    <3> QED
      BY <3>1, Joined
  <2> HIDE DEF h
  <2>2. 1 \in 1..Len(b)
    BY <1>2
  <2> QED
    BY <1>1, <1>2, <2>1, <2>2
<1>4. w \in Seq(Byte) /\ Len(w) = 16 /\ w[5] = 64 + v
  <2> HIDE DEF h
  <2> DEFINE z == h \o g
  <2>1. z \in Seq(Byte) /\ Len(z) = Len(h) + Len(g) /\ \A j \in 1..Len(h) : z[j] = h[j]
    <3>1. h \in Seq(Byte) /\ g \in Seq(Byte)
      BY <1>1, <1>3
    <3> QED
      BY <3>1, Joined
  <2> HIDE DEF z
  <2>2. z \in Seq(Byte) /\ Len(z) = 16 /\ z[5] = 64 + v
    BY <1>1, <1>3, <2>1
  <2> QED
    BY <2>2 DEF z, h
<1>5. "proto" \in PlainNames
  BY DEF PlainNames
<1>6. op \in SoundEntries
  <2>1. 16 \in Nat
    OBVIOUS
  <2> QED
    BY <1>5, <2>1, ReadKinds
<1>7. op.get = "raw" /\ op.to = "proto" /\ op.n = 16
  BY DEF GetRaw, Rd
<1> HIDE DEF op, w
<1>8. w = ValueOf("raw", w) /\ "raw" \in Gets
  BY DEF ValueOf, Gets
<1>9. Fine("proto", w)
  BY DEF Fine, Failed, Counts
<1>10. said = Fields("proto", w)
  <2>1. w[5] % 64 = v
    BY <1>4, <1>2
  <2> QED
    BY <2>1 DEF Fields, Dropped, One
<1>11. said \in Seq(Field)
  <2>1. "proto" \in ToNames
    BY <1>5, Names
  <2> QED
    BY <1>2, <2>1, OneType, TupleTypes
<1> HIDE DEF said
<1>12. Reads(m, <<op>>, w, said, x, x)
  BY <1>4, <1>5, <1>6, <1>7, <1>8, <1>9, <1>10, <1>11, ReadsPlain
<1> QED
  BY <1>12 DEF op, w, said, f, b, g

LEMMA OpenAnswered ==
  ASSUME NEW m, Succeeds(m), m.p = "ParseOpenDatabase"
  PROVE  Answered(m, ParseOpenDatabase)
<1> DEFINE x == Start(m)
           a == GetInt("code")
           b == GetRaw(16, "proto")
           c == GetInt("session")
           u == writeInt(m.n)
           f == writeFiller(4)
           v == <<64 + m.ver>>
           g == writeFiller(11)
           w == (f \o v) \o g
           h == writeInt(m.h)
           said == <<One("proto", m.ver)>>
           more == <<One("session", m.h)>>
<1>1. IsMessage(m) /\ m.n >= 0 /\ x \in Metas
  BY StartType DEF Succeeds, IsMessage, IsSuccess
<1>2. m.n \in Number32 /\ m.h \in Number32 /\ m.ver \in 0..63
  BY <1>1, MessageType
<1>3. AnswerBytes(m) = (((u \o f) \o v) \o g) \o h
  BY DEF AnswerBytes, Succeeds
<1>4. Said(m) = said \o more
  <2>1. \A p, q \in {One("proto", m.ver), One("session", m.h)} : <<p>> \o <<q>> = <<p, q>>
    BY TwoJoin
  <2> QED
    BY <2>1 DEF Said
<1>5. Reads(m, <<a>>, u, <<>>, x, x)
  BY <1>1, <1>2, CodeReads
<1>6. Reads(m, <<b>>, w, said, x, x)
  BY <1>1, <1>2, ProtoReads
<1>7. Reads(m, <<c>>, h, more, x, x)
  BY <1>1, <1>2, OtherNumberReads
<1>8. a \in SoundEntries /\ b \in SoundEntries /\ c \in SoundEntries
  <2>1. /\ "code" \in PlainNames /\ "proto" \in PlainNames /\ "session" \in PlainNames
        /\ "code" \notin ByteNames /\ "session" \notin ByteNames
    BY DEF PlainNames, ByteNames
  <2>2. 16 \in Nat
    OBVIOUS
  <2> QED
    BY <2>1, <2>2, ReadKinds
<1>9. ((u \o f) \o v) \o g = u \o w
  <2>1. u \in Seq(Byte) /\ f \in Seq(Byte) /\ v \in Seq(Byte) /\ g \in Seq(Byte)
    <3>1. u \in Seq(Byte)
      BY <1>2, Bounds, WordType
    <3>2. f \in Seq(Byte) /\ g \in Seq(Byte)
      BY FillerType
    <3>3. v \in Seq(Byte)
      <4>1. 64 + m.ver \in Byte
        BY <1>2 DEF Byte
      <4> QED
        BY <4>1, TupleTypes
    <3> QED
      BY <3>1, <3>2, <3>3
  <2> HIDE DEF u, f, v, g
  <2>2. f \o v \in Seq(Byte)
    BY <2>1, ConcatProperties
  <2>3. (u \o f) \o v = u \o (f \o v)
    BY <2>1, BytesAssoc
  <2>4. (u \o (f \o v)) \o g = u \o ((f \o v) \o g)
    BY <2>1, <2>2, BytesAssoc, SMTT(40)
  <2> QED
    BY <2>3, <2>4
<1>10. ParseOpenDatabase = <<a, b, c>>
  BY DEF ParseOpenDatabase
<1> HIDE DEF x, a, b, c, u, w, h, said, more
<1>11. Reads(m, <<a, b>>, u \o w, said, x, x)
  <2>1. <<a>> \o <<b>> = <<a, b>>
    BY <1>8, TwoJoin
  <2> QED
    BY <1>5, <1>6, <2>1, QuietReads
<1>12. Reads(m, <<a, b, c>>, (u \o w) \o h, said \o more, x, x)
  <2>1. <<a, b>> \o <<c>> = <<a, b, c>>
    BY <1>8, ThreeJoin
  <2> QED
    BY <1>7, <1>11, <2>1, ReadsJoin
<1> QED
  BY <1>3, <1>4, <1>9, <1>10, <1>12 DEF Answered, x

\* The parser of an answer, on the whole packet.
LEMMA ProgramReads ==
  ASSUME Succeeds(msg), parser = msg.p, buf = Bytes(msg)
  PROVE  \E y : Reads(msg, Program, Bytes(msg), Said(msg), Start(msg), y)
<1> DEFINE cas == <<GetRaw(4, "")>>
           x == Start(msg)
<1>1. IsMessage(msg) /\ x \in Metas
  BY StartType DEF Succeeds
<1>2. Bytes(msg) = writeFiller(4) \o AnswerBytes(msg)
  BY DEF Bytes, Succeeds, Parsers
<1>3. Reads(msg, cas, writeFiller(4), <<>>, x, x)
  <2>1. writeFiller(4) \in Seq(Byte) /\ Len(writeFiller(4)) = 4
    BY FillerType
  <2>2. Reads(msg, <<GetRaw(Len(writeFiller(4)), "")>>, writeFiller(4), <<>>, x, x)
    BY <1>1, <2>1, SkipReads
  <2> QED
    BY <2>1, <2>2
<1>4. ASSUME NEW ops, Program = cas \o ops, Answered(msg, ops)
      PROVE  \E y : Reads(msg, Program, Bytes(msg), Said(msg), x, y)
  <2>1. PICK y : Reads(msg, ops, AnswerBytes(msg), Said(msg), x, y)
    BY <1>4 DEF Answered
  <2> HIDE DEF x, cas
  <2>2. Reads(msg, cas \o ops, writeFiller(4) \o AnswerBytes(msg), Said(msg), x, y)
    BY <1>3, <2>1, QuietReads
  <2> QED
    BY <1>2, <1>4, <2>2
<1> HIDE DEF x
<1>5. CASE msg.p = "ParsePrepareAndExecute"
  <2>1. Program = cas \o ParsePrepareAndExecute
    BY <1>5 DEF Program
  <2> QED
    BY <1>4, <1>5, <2>1, PrepareAndExecuteAnswered DEF x
<1>6. CASE msg.p = "ParsePrepare"
  <2>1. Program = cas \o ParsePrepare
    BY <1>6 DEF Program
  <2> QED
    BY <1>4, <1>6, <2>1, PrepareAnswered DEF x
<1>7. CASE msg.p = "ParseExecute"
  <2>1. Program = cas \o ParseExecute
    BY <1>7 DEF Program
  <2> QED
    BY <1>4, <1>7, <2>1, ExecuteAnswered DEF x
<1>8. CASE msg.p = "ParseFetch"
  <2>1. Program = cas \o ParseFetch
    BY <1>8 DEF Program
  <2> QED
    BY <1>4, <1>8, <2>1, FetchAnswered DEF x
<1>9. CASE msg.p = "ParseSimpleResponse"
  <2>1. Program = cas \o ParseSimpleResponse
    BY <1>9 DEF Program
  <2> QED
    BY <1>4, <1>9, <2>1, SimpleAnswered DEF x
<1>10. CASE msg.p = "ParseGetDbVersion"
  <2>1. Program = cas \o ParseGetDbVersion
    BY <1>10 DEF Program
  <2> QED
    BY <1>4, <1>10, <2>1, VersionAnswered DEF x
<1>11. CASE msg.p = "ParseGetLastInsertId"
  <2>1. Program = cas \o ParseGetLastInsertId
    BY <1>11 DEF Program
  <2> QED
    BY <1>4, <1>11, <2>1, InsertIdAnswered DEF x
<1>12. CASE msg.p = "ParseOpenDatabase"
  <2>1. Program = cas \o ParseOpenDatabase
    BY <1>12 DEF Program
  <2> QED
    BY <1>4, <1>12, <2>1, OpenAnswered DEF x
<1>13. msg.p \in Parsers
  BY DEF Succeeds
<1> QED
  BY <1>5, <1>6, <1>7, <1>8, <1>9, <1>10, <1>11, <1>12, <1>13 DEF Parsers, x

-----------------------------------------------------------------------------
(***************************************************************************)
(* The requests, as the server reads them.  First, bind parameters.        *)
(***************************************************************************)
Size == GetInt("paramSize")

\* A parameter of the type t, with its size and its type.
TypedParam(t, b) == writeInt(1 + Len(b)) \o <<t>> \o b

LEMMA SizeIs ==
  /\ Size \in SoundEntries /\ Size.get = "int" /\ Size.to = "paramSize" /\ Size.x = 0
<1>1. "paramSize" \in LeadNames /\ "paramSize" \notin ByteNames
  BY DEF LeadNames, ByteNames
<1>2. Size \in SoundEntries
  BY <1>1, ReadKinds DEF Size
<1> QED
  BY <1>2 DEF Size, GetInt, Rd

\* The byte in front of a parameter's value says how the rest is read.
LEMMA ParamTypeReads ==
  ASSUME NEW m, NEW t \in Byte, NEW v, NEW w \in Seq(Byte), NEW n, n = Len(w), NEW x \in Metas,
         Reads(m, readValue(t, n), w, <<v>>, x, x),
         NEW op, op = [GetByte("paramType") EXCEPT !.x = n]
  PROVE  Reads(m, <<op>>, <<t>> \o w, <<v>>, x, x)
<1> DEFINE u == <<t>>
           g == <<>>
<1>0. n \in Nat /\ n \in Int
  OBVIOUS
<1>1. op \in SoundEntries /\ op.get = "byte" /\ op.to = "paramType" /\ op.x = n /\ op.n = 1
  <2>1. op = [get |-> "byte", n |-> 1, to |-> "paramType", x |-> n]
    BY DEF GetByte, Rd
  <2>2. Proper("byte", 1, "paramType")
    BY DEF Proper, GetNames, Gets
  <2>3. "byte" \in GetNames /\ "paramType" \in ToNames
    BY Names DEF GetNames, Gets, ByteNames
  <2>4. op \in SoundEntries
    BY <1>0, <2>1, <2>2, <2>3, SoundOne
  <2> QED
    BY <2>1, <2>4
<1>2. u \in Seq(Byte) /\ Len(u) = 1 /\ u[1] = t /\ u # <<>> /\ First(u) = t
  BY SmallBytes DEF First
<1>3. u = ValueOf("byte", u) /\ "byte" \in Gets
  BY DEF ValueOf, Gets
<1>4. g = Fields("paramType", u) /\ g \in Seq(Field)
  BY TupleTypes DEF Fields, Dropped
<1>5. Fine("paramType", u)
  BY DEF Fine, Failed, Counts
<1> HIDE DEF u, g
<1>6. x = Learned("paramType", u, x)
  <2>1. x.cols \o <<>> = x.cols /\ x = [stmt |-> x.stmt, cols |-> x.cols]
    BY ConcatEmptySeq DEF Metas
  <2>2. ColumnTypes("paramType", u) = <<>>
    BY DEF ColumnTypes
  <2> QED
    BY <2>1, <2>2 DEF Learned
<1>7. Later(m, op, x, t) = readValue(t, n)
  <2>1. Later(m, op, x, t) = Follows("paramType", n, t)
    BY <1>1 DEF Later
  <2>2. (IF n <= 0 THEN 0 ELSE n) = n
    BY <1>0
  <2>3. Follows("paramType", n, t) = readValue(t, IF n <= 0 THEN 0 ELSE n)
    BY DEF Follows
  <2> QED
    BY <2>1, <2>2, <2>3
<1> DEFINE f == Later(m, op, x, First(u))
<1>9. Reads(m, f, w, <<v>>, x, x)
  BY <1>2, <1>7
<1> HIDE DEF f
<1>10. f = Later(m, op, x, First(u))
  BY DEF f
<1>11. op.to # "bindLen" /\ op.get \in Gets /\ Len(u) = op.n /\ u = ValueOf(op.get, u)
       /\ Fine(op.to, u) /\ g = Fields(op.to, u) /\ x = Learned(op.to, u, x)
  BY <1>1, <1>2, <1>3, <1>4, <1>5, <1>6
<1>12. Reads(m, <<op>>, u \o w, g \o <<v>>, x, x)
  BY <1>1, <1>2, <1>4, <1>9, <1>10, <1>11, ReadsValue
<1>13. g \o <<v>> = <<v>>
  BY <1>9, ConcatEmptySeq DEF Reads, g
<1> QED
  BY <1>12, <1>13 DEF u

\* A value of any length, none included, comes back as what its type makes of it.
LEMMA AnyParamReads ==
  ASSUME NEW m, NEW t \in Byte, NEW v, NEW b \in Seq(Byte), Len(b) + 1 <= MaxInt, NEW x \in Metas,
         Reads(m, readValue(t, Len(b)), b, <<v>>, x, x)
  PROVE  Reads(m, <<Size>>, TypedParam(t, b), <<v>>, x, x)
<1> DEFINE n == Len(b)
           l == n + 1
           op == [GetByte("paramType") EXCEPT !.x = n]
           u == <<t>> \o b
<1>1. n \in Nat /\ l \in Nat /\ l > 0 /\ l - 1 = n /\ l \in Int /\ 1 + Len(b) = l
  OBVIOUS
<1>2. l \in Number32
  BY <1>1, LengthType
<1>3. Reads(m, <<op>>, u, <<v>>, x, x)
  BY ParamTypeReads
<1>4. TypedParam(t, b) = writeInt(l) \o u
  <2>1. TypedParam(t, b) = (writeInt(l) \o <<t>>) \o b
    BY <1>1 DEF TypedParam
  <2>2. writeInt(l) \in Seq(Byte) /\ <<t>> \in Seq(Byte)
    BY <1>1, WordType, TupleTypes
  <2>3. (writeInt(l) \o <<t>>) \o b = writeInt(l) \o (<<t>> \o b)
    BY <2>2, BytesAssoc
  <2> QED
    BY <2>1, <2>3
<1>5. readParam(l) = <<op>>
  BY <1>1 DEF readParam
<1> HIDE DEF n, op, u
<1> HIDE DEF l
<1>6. Follows("paramSize", 0, l) = readParam(l)
  BY DEF Follows
<1>7. Reads(m, Follows(Size.to, Size.x, l), u, <<v>>, x, x)
  BY <1>3, <1>5, <1>6, SizeIs
<1>8. Size.to \in {"nameLen", "textLen", "idLen", "argLen", "size", "paramSize"} /\ Size.to # "idLen"
  BY SizeIs
<1>9. Reads(m, <<Size>>, writeInt(l) \o u, <<v>>, x, x)
  BY <1>2, <1>7, <1>8, SizeIs, LengthReads
<1> QED
  BY <1>4, <1>9

LEMMA TypedParamReads ==
  ASSUME NEW m, NEW t \in Byte, NEW v, Valued(t, v), NEW b, b = ValueBytes(t, v), NEW x \in Metas
  PROVE  Reads(m, <<Size>>, TypedParam(t, b), <<v>>, x, x)
<1>1. b \in Seq(Byte) /\ Sized(t, b) /\ ReadAs(m, t, v, b, x)
  BY ValueReads
<1>2. Len(b) + 1 <= MaxInt /\ Reads(m, readValue(t, Len(b)), b, <<v>>, x, x)
  BY <1>1 DEF Sized, ReadAs
<1> QED
  BY <1>1, <1>2, AnyParamReads

\* An empty string of bytes is a type without a value, and not NULL.
LEMMA NoBytesRead ==
  ASSUME NEW m, NEW x \in Metas
  PROVE  Reads(m, <<Size>>, TypedParam(TypeVarBit, <<>>), <<<<"bytes", <<>>>>>>, x, x)
<1> DEFINE w == <<>>
           v == <<"bytes", w>>
<1>1. w \in Seq(Byte) /\ Len(w) = 0
  BY TupleTypes
<1>2. "bytes" \in PlainNames /\ "bytes" \notin {"proto", "errMsg"} /\ "bytes" \notin FineNames
  BY DEF PlainNames, FineNames
<1>3. Reads(m, <<GetRaw(Len(w), "bytes")>>, w, Fields("bytes", w), x, x)
  BY <1>1, <1>2, RawReads
<1>4. Fields("bytes", w) = <<v>>
  BY DEF Fields, Dropped
<1>5. readValue(TypeVarBit, Len(w)) = <<GetRaw(Len(w), "bytes")>>
  <2>1. /\ TypeVarBit \notin TextTypes \cup {TypeNull, TypeShort, TypeInt}
        /\ Wide(TypeVarBit) = 0 /\ Shorts(TypeVarBit) = 0
    BY DEF TypeVarBit, TextTypes, TypeNull, TypeShort, TypeInt, Wide, Shorts, TypeDatetime, TypeBigInt
  <2> QED
    BY <2>1, ReadValueKinds
<1>6. TypeVarBit \in Byte
  BY DEF TypeVarBit, Byte
<1>7. Len(w) + 1 <= MaxInt
  BY <1>1 DEF MaxInt
<1> HIDE DEF v
<1>8. Reads(m, readValue(TypeVarBit, Len(w)), w, <<v>>, x, x)
  BY <1>3, <1>4, <1>5
<1> HIDE DEF w
<1>9. Reads(m, <<Size>>, TypedParam(TypeVarBit, w), <<v>>, x, x)
  BY <1>1, <1>6, <1>7, <1>8, AnyParamReads
<1> QED
  BY <1>9 DEF v, w

\* NULL is a size of zero.
LEMMA NoParamReads ==
  ASSUME NEW m, NEW x \in Metas
  PROVE  Reads(m, <<Size>>, writeInt(0), <<Null>>, x, x)
<1>1. 0 \in Number32 /\ 0 \in Int
  BY SmallConstants
<1>2. Follows("paramSize", 0, 0) = <<Nil>>
  BY DEF Follows, readParam
<1>3. Reads(m, <<Nil>>, <<>>, <<Null>>, x, x)
  BY NothingReads
<1>4. Reads(m, Follows(Size.to, Size.x, 0), <<>>, <<Null>>, x, x)
  BY <1>2, <1>3, SizeIs
<1>5. Size.to \in {"nameLen", "textLen", "idLen", "argLen", "size", "paramSize"} /\ Size.to # "idLen"
  BY SizeIs
<1>6. Reads(m, <<Size>>, writeInt(0) \o <<>>, <<Null>>, x, x)
  BY <1>1, <1>4, <1>5, SizeIs, LengthReads
<1>7. writeInt(0) \o <<>> = writeInt(0)
  BY <1>1, WordType, ConcatEmptySeq
<1> QED
  BY <1>6, <1>7

\* A parameter is on the other side what it stands for.
LEMMA ParamReads ==
  ASSUME NEW m, NEW a \in Arg32, IsArg(a), NEW x \in Metas
  PROVE  Reads(m, <<Size>>, encodeOneParam(a), <<ParamValue(a)>>, x, x)
<1>0. /\ TypeShort \in Byte /\ TypeBigInt \in Byte /\ TypeDouble \in Byte /\ TypeVarBit \in Byte
      /\ TypeDatetime \in Byte /\ TypeString \in Byte /\ TypeNull \in Byte
  BY DEF TypeNull, TypeShort, TypeBigInt, TypeDouble, TypeVarBit, TypeDatetime, TypeString, Byte
<1>1. /\ a.go = "nil" => encodeOneParam(a) = writeInt(0)
      /\ a.go = "bool" => encodeOneParam(a) = TypedParam(TypeShort, writeShort(a.v[1]))
      /\ a.go = "int64" => encodeOneParam(a) = TypedParam(TypeBigInt, a.v)
      /\ a.go = "float64" => encodeOneParam(a) = TypedParam(TypeDouble, a.v)
      /\ a.go = "[]byte" => encodeOneParam(a) = TypedParam(TypeVarBit, a.v)
      /\ a.go = "time" => encodeOneParam(a)
            = TypedParam(TypeDatetime, FlattenSeq([i \in 1..7 |-> writeShort(a.v[i])]))
      /\ a.go \notin {"nil", "bool", "int64", "float64", "[]byte", "time"} =>
            encodeOneParam(a) = TypedParam(TypeString, a.v \o <<0>>)
  BY DEF encodeOneParam, TypedParam
<1>2. /\ a.go = "nil" => ParamValue(a) = Null
      /\ a.go = "bool" => ParamValue(a) = <<"int", <<a.v[1]>>>>
      /\ a.go = "int64" => ParamValue(a) = <<"wide", a.v>>
      /\ a.go = "float64" => ParamValue(a) = <<"wide", a.v>>
      /\ a.go = "[]byte" => ParamValue(a) = <<"bytes", a.v>>
      /\ a.go = "time" => ParamValue(a) = <<"time", a.v>>
      /\ a.go \notin {"nil", "bool", "int64", "float64", "[]byte", "time"} => ParamValue(a) = <<"text", a.v>>
  BY DEF ParamValue, Null, One
<1>3. a.v \in Seq(Number32)
  BY DEF Arg32
<1>4. CASE a.go = "nil"
  BY <1>1, <1>2, <1>4, NoParamReads
<1>5. CASE a.go = "bool"
  <2> DEFINE v == <<"int", <<a.v[1]>>>>
             b == writeShort(a.v[1])
  <2>1. a.v[1] \in Number16 /\ a.v[1] \in Number32
    BY <1>5, Bounds DEF IsArg
  <2>2. <<a.v[1]>> \in Seq(Number32) /\ Len(<<a.v[1]>>) = 1 /\ <<a.v[1]>>[1] = a.v[1]
    BY <2>1, TupleTypes
  <2>3. v[1] = "int" /\ v[2] = <<a.v[1]>> /\ v # Null
    BY DEF Null
  <2>4. v = <<v[1], v[2]>> /\ v[2] \in Seq(Number32)
    BY <2>2
  <2> HIDE DEF v
  <2>5. IsValue(TypeShort, v)
    BY <2>1, <2>2, <2>3 DEF IsValue
  <2>6. Valued(TypeShort, v)
    BY <2>3, <2>4, <2>5 DEF Valued
  <2>7. b = ValueBytes(TypeShort, v)
    BY <2>2, <2>3 DEF ValueBytes
  <2> HIDE DEF b
  <2>8. Reads(m, <<Size>>, TypedParam(TypeShort, b), <<v>>, x, x)
    BY <1>0, <2>6, <2>7, TypedParamReads
  <2> QED
    BY <1>1, <1>2, <1>5, <2>8 DEF v, b
<1>6. ASSUME a.go = "int64" \/ a.go = "float64", NEW t \in {TypeBigInt, TypeDouble}
      PROVE  Reads(m, <<Size>>, TypedParam(t, a.v), <<<<"wide", a.v>>>>, x, x)
  <2> DEFINE v == <<"wide", a.v>>
             b == a.v
  <2>1. a.v \in Seq(Byte) /\ Len(a.v) = 8 /\ t \in Byte
    BY <1>0, <1>6 DEF IsArg
  <2>2. v[1] = "wide" /\ v[2] = a.v /\ v # Null
    BY DEF Null
  <2>3. v = <<v[1], v[2]>> /\ v[2] \in Seq(Number32)
    BY <1>3
  <2>4. Wide(t) = 8
    BY DEF Wide, TypeBigInt, TypeDouble
  <2> HIDE DEF v
  <2>5. IsValue(t, v)
    BY <2>1, <2>2, <2>4 DEF IsValue
  <2>6. Valued(t, v)
    BY <2>2, <2>3, <2>5 DEF Valued
  <2>7. b = ValueBytes(t, v)
    BY <2>2 DEF ValueBytes
  <2> HIDE DEF b
  <2>8. Reads(m, <<Size>>, TypedParam(t, b), <<v>>, x, x)
    BY <2>1, <2>6, <2>7, TypedParamReads
  <2> QED
    BY <2>8 DEF v, b
<1>7. CASE a.go = "[]byte" /\ a.v = <<>>
  BY <1>1, <1>2, <1>7, NoBytesRead
<1>8. CASE a.go = "[]byte" /\ a.v # <<>>
  <2> DEFINE v == <<"bytes", a.v>>
             b == a.v
  <2>1. a.v \in Text
    BY <1>8 DEF IsArg
  <2>2. v[1] = "bytes" /\ v[2] = a.v /\ v # Null
    BY DEF Null
  <2>3. v = <<v[1], v[2]>> /\ v[2] \in Seq(Number32)
    BY <1>3
  <2>4. /\ TypeVarBit \notin TextTypes \cup {TypeNull, TypeShort, TypeInt}
        /\ Wide(TypeVarBit) = 0 /\ Shorts(TypeVarBit) = 0
    BY DEF TypeVarBit, TextTypes, TypeNull, TypeShort, TypeInt, Wide, Shorts, TypeDatetime, TypeBigInt
  <2> HIDE DEF v
  <2>5. IsValue(TypeVarBit, v)
    BY <1>8, <2>1, <2>2, <2>4 DEF IsValue
  <2>6. Valued(TypeVarBit, v)
    BY <2>2, <2>3, <2>5 DEF Valued
  <2>7. b = ValueBytes(TypeVarBit, v)
    BY <2>2 DEF ValueBytes
  <2> HIDE DEF b
  <2>8. Reads(m, <<Size>>, TypedParam(TypeVarBit, b), <<v>>, x, x)
    BY <1>0, <2>6, <2>7, TypedParamReads
  <2> QED
    BY <1>1, <1>2, <1>8, <2>8 DEF v, b
<1>9. CASE a.go = "time"
  <2> DEFINE v == <<"time", a.v>>
             b == FlattenSeq([i \in 1..7 |-> writeShort(a.v[i])])
  <2>1. a.v \in Seq(Number16) /\ Len(a.v) = 7
    BY <1>9 DEF IsArg
  <2>2. v[1] = "time" /\ v[2] = a.v /\ v # Null
    BY DEF Null
  <2>3. v = <<v[1], v[2]>> /\ v[2] \in Seq(Number32)
    BY <1>3
  <2>4. Shorts(TypeDatetime) = 7
    BY DEF Shorts, TypeDatetime
  <2> HIDE DEF v
  <2>5. IsValue(TypeDatetime, v)
    BY <2>1, <2>2, <2>4 DEF IsValue
  <2>6. Valued(TypeDatetime, v)
    BY <2>2, <2>3, <2>5 DEF Valued
  <2>7. b = ValueBytes(TypeDatetime, v)
    <3>1. b = FlattenSeq([i \in DOMAIN a.v |-> writeShort(a.v[i])])
      BY <2>1, TimeBytes
    <3> HIDE DEF b
    <3> QED
      BY <2>2, <3>1 DEF ValueBytes
  <2> HIDE DEF b
  <2>8. Reads(m, <<Size>>, TypedParam(TypeDatetime, b), <<v>>, x, x)
    BY <1>0, <2>6, <2>7, TypedParamReads
  <2> QED
    BY <1>1, <1>2, <1>9, <2>8 DEF v, b
<1>10. CASE a.go \notin {"nil", "bool", "int64", "float64", "[]byte", "time"}
  <2> DEFINE v == <<"text", a.v>>
             b == a.v \o <<0>>
  <2>1. a.v \in Text
    BY <1>10 DEF IsArg
  <2>2. v[1] = "text" /\ v[2] = a.v /\ v # Null
    BY DEF Null
  <2>3. v = <<v[1], v[2]>> /\ v[2] \in Seq(Number32)
    BY <1>3
  <2>4. TypeString \in TextTypes
    BY DEF TypeString, TextTypes
  <2> HIDE DEF v
  <2>5. IsValue(TypeString, v)
    BY <2>1, <2>2, <2>4 DEF IsValue
  <2>6. Valued(TypeString, v)
    BY <2>2, <2>3, <2>5 DEF Valued
  <2>7. b = ValueBytes(TypeString, v)
    BY <2>2 DEF ValueBytes
  <2> HIDE DEF b
  <2>8. Reads(m, <<Size>>, TypedParam(TypeString, b), <<v>>, x, x)
    BY <1>0, <2>6, <2>7, TypedParamReads
  <2> QED
    BY <1>1, <1>2, <1>10, <2>8 DEF v, b
<1>11. CASE a.go = "int64"
  BY <1>1, <1>2, <1>6, <1>11
<1>12. CASE a.go = "float64"
  BY <1>1, <1>2, <1>6, <1>12
<1> QED
  BY <1>4, <1>5, <1>7, <1>8, <1>9, <1>10, <1>11, <1>12

-----------------------------------------------------------------------------
(***************************************************************************)
(* Reads that go on up to where the bytes r are all that is left.          *)
(***************************************************************************)
Limit(m, r) == Len(Bytes(m)) - Len(r)

Repeats(m, r, to, w, f, x) ==
  /\ r \in Seq(Byte) /\ w \in Seq(Byte) /\ f \in Seq(Field) /\ x \in Metas
  /\ \A o \in Seq(Field) : Leads(m, <<Until(Limit(m, r), to)>>, At(w \o r, o, x), At(r, o \o f, x))

LEMMA UntilOf ==
  ASSUME NEW to \in {"argLen", "paramSize"}, NEW n \in Int
  PROVE  /\ Until(n, to) \in SoundEntries /\ Until(n, to).get = "until" /\ Until(n, to).get \notin Gets
         /\ Until(n, to).n = n /\ Until(n, to).to = to
         /\ GetInt(to) \in SoundEntries /\ GetInt(to).get = "int" /\ GetInt(to).to = to
<1>1. Until(n, "argLen") \in SoundEntries /\ Until(n, "paramSize") \in SoundEntries
  BY SoundReads
<1>2. to \in LeadNames /\ to \notin ByteNames
  BY DEF LeadNames, Leaders, ByteNames
<1>3. GetInt(to) \in SoundEntries
  BY <1>2, ReadKinds
<1> QED
  BY <1>1, <1>3 DEF Until, GetInt, Rd, Gets

\* An entry that stands for the reads f, here.
LEMMA LeadsUnrolled ==
  ASSUME NEW m, NEW op \in SoundEntries, op.get \notin Gets, NEW a \in Situation, NEW b,
         NEW f \in Ops, Unrolled(m, op, a) = f, Leads(m, f, a, b)
  PROVE  Leads(m, <<op>>, a, b)
<1>1. <<op>> \in Ops /\ <<>> \in Ops /\ f \o <<>> = f /\ <<op>> \o <<>> = <<op>>
  <2>1. <<op>> \in Ops /\ <<>> \in Ops
    BY TupleTypes DEF Ops
  <2> QED
    BY <2>1, ConcatEmptySeq DEF Ops
<1>2. Goes(m, op, a, a, f)
  BY DEF Goes
<1>3. Leads(m, f \o <<>>, a, b)
  BY <1>1
<1>4. Leads(m, <<op>> \o <<>>, a, b)
  BY <1>1, <1>2, <1>3, LeadsOn
<1> QED
  BY <1>1, <1>4

LEMMA RepeatsNot ==
  ASSUME NEW m, Bytes(m) \in Seq(Byte), NEW r \in Seq(Byte), NEW to \in {"argLen", "paramSize"}, NEW x \in Metas
  PROVE  Repeats(m, r, to, <<>>, <<>>, x)
<1> DEFINE n == Limit(m, r)
           op == Until(n, to)
<1>1. n \in Int
  BY DEF Limit
<1> HIDE DEF n
<1>2. op \in SoundEntries /\ op.get = "until" /\ op.get \notin Gets /\ op.n = n
  BY <1>1, UntilOf
<1> HIDE DEF op
<1>3. <<>> \in Seq(Byte) /\ <<>> \in Seq(Field) /\ <<>> \in Ops
  BY TupleTypes DEF Ops
<1>4. ASSUME NEW o \in Seq(Field)
      PROVE  Leads(m, <<op>>, At(<<>> \o r, o, x), At(r, o \o <<>>, x))
  <2> DEFINE a == At(r, o, x)
  <2>1. <<>> \o r = r /\ o \o <<>> = o
    BY ConcatEmptySeq
  <2>2. a \in Situation /\ Position(m, a) = n
    BY AtType DEF Position, At, Limit, n
  <2> HIDE DEF a
  <2>3. Unrolled(m, op, a) = <<>>
    <3>1. ~(n < n)
      BY <1>1
    <3> QED
      BY <1>2, <2>2, <3>1 DEF Unrolled
  <2>4. Leads(m, <<>>, a, a)
    BY <2>2, LeadsNowhere
  <2>5. Leads(m, <<op>>, a, a)
    BY <1>2, <1>3, <2>2, <2>3, <2>4, LeadsUnrolled
  <2> QED
    BY <2>1, <2>5 DEF a
<1> QED
  BY <1>3, <1>4 DEF Repeats, op, n

LEMMA RepeatsMore ==
  ASSUME NEW m, Bytes(m) \in Seq(Byte), NEW r, NEW to \in {"argLen", "paramSize"}, NEW v, v # <<>>, NEW g,
         NEW w, NEW f, NEW x, Reads(m, <<GetInt(to)>>, v, g, x, x), Repeats(m, r, to, w, f, x)
  PROVE  Repeats(m, r, to, v \o w, g \o f, x)
<1> DEFINE n == Limit(m, r)
           op == Until(n, to)
           get == GetInt(to)
<1>1. /\ v \in Seq(Byte) /\ w \in Seq(Byte) /\ r \in Seq(Byte) /\ f \in Seq(Field) /\ g \in Seq(Field) /\ x \in Metas
  BY DEF Reads, Repeats
<1>2. n \in Int /\ n = Len(Bytes(m)) - Len(r)
  BY <1>1 DEF Limit
<1> HIDE DEF n
<1>3. op \in SoundEntries /\ op.get = "until" /\ op.get \notin Gets /\ op.n = n /\ op.to = to /\ get \in SoundEntries
  BY <1>2, UntilOf
<1>4. \A r1 \in Seq(Byte), o \in Seq(Field) : Leads(m, <<get>>, At(v \o r1, o, x), At(r1, o \o g, x))
  BY DEF Reads
<1>5. \A o \in Seq(Field) : Leads(m, <<op>>, At(w \o r, o, x), At(r, o \o f, x))
  BY DEF Repeats, n
<1>6. Unrolled(m, op, At(v \o (w \o r), <<>>, x)) = <<get, op>>
      /\ \A o : Unrolled(m, op, At(v \o (w \o r), o, x)) = <<get, op>>
  <2> DEFINE z == w \o r
  <2>1. z \in Seq(Byte) /\ Len(z) = Len(w) + Len(r)
    BY <1>1, Joined
  <2> HIDE DEF z
  <2>2. Len(v \o z) = Len(v) + Len(z)
    BY <1>1, <2>1, Joined
  <2>3. Len(v) \in Nat /\ Len(v) # 0 /\ Len(w) \in Nat /\ Len(r) \in Nat /\ Len(Bytes(m)) \in Nat
    BY <1>1
  <2>4. Len(Bytes(m)) - Len(v \o z) < n
    BY <1>2, <2>1, <2>2, <2>3
  <2> DEFINE p == v \o z
  <2> HIDE DEF p
  <2>5. Len(Bytes(m)) - Len(p) < n
    BY <2>4 DEF p
  <2> HIDE DEF op
  <2>6. \A o : Position(m, At(p, o, x)) < op.n
    BY <1>3, <2>5 DEF Position, At
  <2>7. \A o : Unrolled(m, op, At(p, o, x)) = <<get, op>>
    BY <1>3, <2>6 DEF Unrolled
  <2> QED
    BY <2>7 DEF p, z
<1> HIDE DEF op, get
<1>7. <<get, op>> = <<get>> \o <<op>> /\ <<get>> \in Ops /\ <<op>> \in Ops /\ <<get, op>> \in Ops
  BY <1>3, TwoJoin, TupleTypes DEF Ops
<1>8. v \o w \in Seq(Byte) /\ g \o f \in Seq(Field)
  BY <1>1, ConcatProperties
<1>10. (v \o w) \o r = v \o (w \o r)
  <2>1. v \in Seq(Byte) /\ w \in Seq(Byte) /\ r \in Seq(Byte)
    BY <1>1
  <2> HIDE <1>1
  <2> QED
    BY <2>1, BytesAssoc
<1>9. ASSUME NEW o \in Seq(Field)
      PROVE  Leads(m, <<op>>, At((v \o w) \o r, o, x), At(r, o \o (g \o f), x))
  <2> DEFINE z == w \o r
             a == At(v \o z, o, x)
             b == At(z, o \o g, x)
             e == At(r, (o \o g) \o f, x)
  <2>1. (v \o w) \o r = v \o z
    BY <1>10
  <2>2. o \o (g \o f) = (o \o g) \o f
    <3>1. o \in Seq(Field) /\ g \in Seq(Field) /\ f \in Seq(Field)
      BY <1>1
    <3> HIDE <1>1
    <3> QED
      BY <3>1, FieldsAssoc
  <2>3. z \in Seq(Byte) /\ o \o g \in Seq(Field)
    BY <1>1, ConcatProperties
  <2>4. a \in Situation /\ b \in Situation
    <3> HIDE DEF z
    <3>1. v \o z \in Seq(Byte)
      BY <1>1, <2>3, ConcatProperties
    <3> QED
      BY <1>1, <2>3, <3>1, AtType
  <2>5. Leads(m, <<get>>, a, b)
    BY <1>4, <2>3
  <2>6. Leads(m, <<op>>, b, e)
    BY <1>5, <2>3
  <2>7. Unrolled(m, op, a) = <<get, op>>
    BY <1>6
  <2> HIDE DEF a, b, e
  <2>8. Leads(m, <<get>> \o <<op>>, a, e)
    BY <1>7, <2>4, <2>5, <2>6, LeadsJoin
  <2>9. Leads(m, <<op>>, a, e)
    BY <1>3, <1>7, <2>4, <2>7, <2>8, LeadsUnrolled
  <2> QED
    BY <2>1, <2>2, <2>9 DEF a, e
<1> QED
  BY <1>1, <1>8, <1>9 DEF Repeats, op, n

\* A read of a number takes bytes.
LEMMA ReadsSome ==
  ASSUME NEW m, NEW op \in SoundEntries, op.get = "int", NEW v, NEW g, NEW x, NEW y, Reads(m, <<op>>, v, g, x, y)
  PROVE  v # <<>>
<1> SUFFICES ASSUME v = <<>> PROVE FALSE
  OBVIOUS
<1>1. <<>> \in Seq(Byte) /\ <<>> \in Seq(Field) /\ x \in Metas /\ <<>> \in Ops /\ <<op>> \in Ops
  BY TupleTypes DEF Reads, Ops
<1> DEFINE a == At(<<>>, <<>>, x)
           b == At(<<>>, <<>> \o g, y)
<1>2. Leads(m, <<op>>, a, b)
  <2>1. <<>> \o <<>> = <<>>
    OBVIOUS
  <2>2. Leads(m, <<op>>, At(v \o <<>>, <<>>, x), b)
    BY <1>1 DEF Reads
  <2> QED
    BY <2>1, <2>2
<1>3. a \in Situation /\ a.rest = <<>>
  BY <1>1, AtType DEF At
<1> HIDE DEF a, b
<1>4. <<op>> \o <<>> = <<op>>
  BY <1>1, ConcatEmptySeq DEF Ops
<1>5. PICK n \in Nat : LeadsIn(m, n, <<op>> \o <<>>, a, b)
  BY <1>2, <1>4 DEF Leads
<1>6. PICK c \in Situation, f \in Ops : Goes(m, op, a, c, f)
  BY <1>1, <1>3, <1>5, LeadsFirst
<1>7. PICK w : Takes(m, op, a, c, w, f)
  BY <1>6 DEF Goes, Gets
<1>8. w \in Seq(Byte) /\ Len(w) = 4 /\ c.rest \in Seq(Byte) /\ w \o c.rest = <<>>
  BY <1>3, <1>7 DEF Takes, Situation, SoundEntries, Proper
<1>9. Len(w \o c.rest) = Len(w) + Len(c.rest)
  BY <1>8, Joined
<1>10. Len(c.rest) \in Nat /\ Len(<<>>) = 0
  BY <1>8
<1> QED
  BY <1>8, <1>9, <1>10

GoodArgs == {a \in Arg32 : IsArg(a)}
Encoding == [a \in GoodArgs |-> encodeOneParam(a)]
Meaning == [a \in GoodArgs |-> ParamValue(a)]

LEMMA EncodingType ==
  Encoding \in [GoodArgs -> Seq(Byte)] /\ Meaning \in [GoodArgs -> Field]
<1>1. ASSUME NEW a \in GoodArgs PROVE encodeOneParam(a) \in Seq(Byte) /\ ParamValue(a) \in Field
  <2>1. [stmt |-> 0, cols |-> <<>>] \in Metas
    BY TupleTypes DEF Metas
  <2>2. Reads(0, <<Size>>, encodeOneParam(a), <<ParamValue(a)>>, [stmt |-> 0, cols |-> <<>>], [stmt |-> 0, cols |-> <<>>])
    BY <2>1, ParamReads DEF GoodArgs
  <2>3. encodeOneParam(a) \in Seq(Byte) /\ <<ParamValue(a)>> \in Seq(Field)
    BY <2>2 DEF Reads
  <2> DEFINE s == <<ParamValue(a)>>
  <2>4. s \in Seq(Field) /\ 1 \in 1..Len(s) /\ s[1] = ParamValue(a)
    BY <2>3
  <2> QED
    BY <2>3, <2>4
<1> QED
  BY <1>1 DEF Encoding, Meaning

\* The images of a sequence, from the front.
LEMMA EachHead ==
  ASSUME NEW S, NEW T, NEW F, Maps(F, T, S), NEW s \in Seq(T), s # <<>>
  PROVE  /\ Each(F, s) \in Seq(S) /\ Each(F, s) # <<>>
         /\ Head(Each(F, s)) = F[Head(s)] /\ Tail(Each(F, s)) = Each(F, Tail(s))
<1> DEFINE t == Tail(s)
           u == Each(F, s)
           v == Each(F, t)
<1>1. /\ Head(s) \in T /\ t \in Seq(T) /\ Len(s) = Len(t) + 1
      /\ s[1] = Head(s) /\ \A i \in 1..Len(t) : s[i + 1] = t[i]
  BY Uncons
<1> HIDE DEF t
<1>2. u \in Seq(S) /\ Len(u) = Len(s) /\ \A i \in 1..Len(s) : u[i] = F[s[i]]
  BY EachType
<1>3. v \in Seq(S) /\ Len(v) = Len(t) /\ \A i \in 1..Len(t) : v[i] = F[t[i]]
  BY <1>1, EachType
<1> HIDE DEF u, v
<1>4. Len(t) \in Nat /\ 1 \in 1..Len(s)
  BY <1>1
<1>5. Len(u) = Len(t) + 1 /\ u # <<>>
  <2>1. Len(u) = Len(t) + 1
    BY <1>1, <1>2
  <2>2. u # <<>>
    BY <1>2, <1>4, <2>1
  <2> QED
    BY <2>1, <2>2
<1> DEFINE w == Tail(u)
<1>6. Head(u) = u[1] /\ w \in Seq(S) /\ Len(u) = Len(w) + 1 /\ \A i \in 1..Len(w) : u[i + 1] = w[i]
  BY <1>2, <1>5, Uncons
<1> HIDE DEF w
<1>7. Len(w) = Len(v) /\ Len(w) \in Nat
  BY <1>3, <1>4, <1>5, <1>6
<1>8. ASSUME NEW i \in 1..Len(w) PROVE w[i] = v[i]
  <2>1. i \in 1..Len(t) /\ i + 1 \in 1..Len(s)
    BY <1>1, <1>3, <1>4, <1>7
  <2>2. w[i] = u[i + 1] /\ u[i + 1] = F[s[i + 1]] /\ s[i + 1] = t[i] /\ v[i] = F[t[i]]
    BY <1>1, <1>2, <1>3, <1>6, <2>1
  <2> QED
    BY <2>2
<1>9. w = v
  BY <1>3, <1>6, <1>7, <1>8, SeqEqual
<1>10. Head(u) = F[Head(s)]
  BY <1>1, <1>2, <1>4, <1>6
<1> QED
  BY <1>2, <1>5, <1>9, <1>10 DEF u, v, w, t

LEMMA ConsBack ==
  ASSUME NEW S, NEW s \in Seq(S), s # <<>>
  PROVE  s = <<Head(s)>> \o Tail(s)
<1> DEFINE e == Head(s)
           t == Tail(s)
           u == <<e>> \o t
<1>1. e \in S /\ t \in Seq(S) /\ Len(s) = Len(t) + 1 /\ s[1] = e /\ \A i \in 1..Len(t) : s[i + 1] = t[i]
  BY Uncons
<1> HIDE DEF e, t
<1>2. <<e>> \in Seq(S) /\ Len(<<e>>) = 1 /\ <<e>>[1] = e
  BY <1>1
<1>3. /\ u \in Seq(S) /\ Len(u) = 1 + Len(t) /\ (\A j \in 1..1 : u[j] = <<e>>[j])
      /\ \A j \in 1..Len(t) : u[1 + j] = t[j]
  BY <1>1, <1>2, Joined
<1> HIDE DEF u
<1>4. Len(t) \in Nat
  BY <1>1
<1>5. ASSUME NEW i \in 1..Len(s) PROVE s[i] = u[i]
  <2>1. CASE i = 1
    BY <1>1, <1>2, <1>3, <2>1
  <2>2. CASE i # 1
    <3> DEFINE j == i - 1
    <3>1. j \in 1..Len(t) /\ i = j + 1 /\ i = 1 + j
      BY <1>1, <1>4, <2>2
    <3> HIDE DEF j
    <3>2. s[j + 1] = t[j] /\ u[1 + j] = t[j]
      BY <1>1, <1>3, <3>1
    <3> QED
      BY <3>1, <3>2
  <2> QED
    BY <2>1, <2>2
<1>6. Len(s) = Len(u)
  BY <1>1, <1>3, <1>4
<1>7. s = u
  BY <1>3, <1>5, <1>6, SeqEqual
<1> QED
  BY <1>7 DEF u, e, t

\* Parameters and what they mean, from the front.
LEMMA FirstParam ==
  ASSUME NEW S, NEW R, NEW T, NEW F, Maps(F, T, Seq(S)), NEW G, Maps(G, T, R), NEW s \in Seq(T), s # <<>>
  PROVE  /\ FlattenSeq(Each(F, s)) = F[Head(s)] \o FlattenSeq(Each(F, Tail(s)))
         /\ Each(G, s) = <<G[Head(s)]>> \o Each(G, Tail(s))
         /\ Head(s) \in T /\ Tail(s) \in Seq(T) /\ Len(s) = Len(Tail(s)) + 1
<1> DEFINE u == Each(F, s)
           v == Each(G, s)
<1>1. u \in Seq(Seq(S)) /\ u # <<>> /\ Head(u) = F[Head(s)] /\ Tail(u) = Each(F, Tail(s))
  BY EachHead
<1>2. v \in Seq(R) /\ v # <<>> /\ Head(v) = G[Head(s)] /\ Tail(v) = Each(G, Tail(s))
  BY EachHead
<1> HIDE DEF u, v
<1>3. FlattenSeq(u) = Head(u) \o FlattenSeq(Tail(u))
  BY <1>1, FlattenHead
<1>4. v = <<Head(v)>> \o Tail(v)
  BY <1>2, ConsBack
<1>5. Head(s) \in T /\ Tail(s) \in Seq(T) /\ Len(s) = Len(Tail(s)) + 1
  BY Uncons
<1> QED
  BY <1>1, <1>2, <1>3, <1>4, <1>5 DEF u, v

LEMMA NoParams ==
  ASSUME NEW F, NEW G
  PROVE  FlattenSeq(Each(F, <<>>)) = <<>> /\ Each(G, <<>>) = <<>>
<1>1. Each(F, <<>>) = <<>> /\ Each(G, <<>>) = <<>>
  BY DEF Each
<1>2. <<>> \in Seq(Seq(Byte)) /\ Len(<<>>) = 0
  OBVIOUS
<1>3. FlattenSeq(<<>>) = <<>>
  BY <1>2, FlattenSteps
<1> QED
  BY <1>1, <1>3

LEMMA ParamsHead ==
  ASSUME NEW s \in Seq(GoodArgs)
  PROVE  /\ s = <<>> => FlattenSeq(Each(Encoding, s)) = <<>> /\ Each(Meaning, s) = <<>>
         /\ s # <<>> => /\ FlattenSeq(Each(Encoding, s)) = encodeOneParam(Head(s)) \o FlattenSeq(Each(Encoding, Tail(s)))
                        /\ Each(Meaning, s) = <<ParamValue(Head(s))>> \o Each(Meaning, Tail(s))
                        /\ Head(s) \in GoodArgs /\ Tail(s) \in Seq(GoodArgs) /\ Len(s) = Len(Tail(s)) + 1
<1>1. Maps(Encoding, GoodArgs, Seq(Byte)) /\ Maps(Meaning, GoodArgs, Field)
  BY EncodingType DEF Maps
<1>2. s = <<>> => FlattenSeq(Each(Encoding, s)) = <<>> /\ Each(Meaning, s) = <<>>
  BY <1>1, NoParams
<1>3. ASSUME s # <<>>
      PROVE  /\ FlattenSeq(Each(Encoding, s)) = Encoding[Head(s)] \o FlattenSeq(Each(Encoding, Tail(s)))
             /\ Each(Meaning, s) = <<Meaning[Head(s)]>> \o Each(Meaning, Tail(s))
             /\ Head(s) \in GoodArgs /\ Tail(s) \in Seq(GoodArgs) /\ Len(s) = Len(Tail(s)) + 1
  BY <1>1, <1>3, FirstParam
<1>4. \A h \in GoodArgs : Encoding[h] = encodeOneParam(h) /\ Meaning[h] = ParamValue(h)
  BY DEF Encoding, Meaning
<1> QED
  BY <1>2, <1>3, <1>4

LEMMA ParamsRepeat ==
  ASSUME NEW m, Bytes(m) \in Seq(Byte), NEW r \in Seq(Byte), NEW x \in Metas, NEW args \in Seq(GoodArgs)
  PROVE  Repeats(m, r, "paramSize", FlattenSeq(Each(Encoding, args)), Each(Meaning, args), x)
<1> DEFINE Good(k) == \A s \in Seq(GoodArgs) : Len(s) = k =>
                        Repeats(m, r, "paramSize", FlattenSeq(Each(Encoding, s)), Each(Meaning, s), x)
           P == {k \in Nat : Good(k)}
<1>1. Good(0)
  <2> SUFFICES ASSUME NEW s \in Seq(GoodArgs), Len(s) = 0
               PROVE  Repeats(m, r, "paramSize", FlattenSeq(Each(Encoding, s)), Each(Meaning, s), x)
    OBVIOUS
  <2>1. s = <<>>
    BY EmptySeq
  <2>2. FlattenSeq(Each(Encoding, s)) = <<>> /\ Each(Meaning, s) = <<>>
    BY <2>1, ParamsHead
  <2>3. Repeats(m, r, "paramSize", <<>>, <<>>, x)
    BY RepeatsNot
  <2> QED
    BY <2>2, <2>3
<1>2. ASSUME NEW k \in Nat, Good(k) PROVE Good(k + 1)
  <2> SUFFICES ASSUME NEW s \in Seq(GoodArgs), Len(s) = k + 1
               PROVE  Repeats(m, r, "paramSize", FlattenSeq(Each(Encoding, s)), Each(Meaning, s), x)
    OBVIOUS
  <2>0. s # <<>>
    OBVIOUS
  <2> DEFINE h == Head(s)
             t == Tail(s)
  <2>a. /\ FlattenSeq(Each(Encoding, s)) = encodeOneParam(h) \o FlattenSeq(Each(Encoding, t))
        /\ Each(Meaning, s) = <<ParamValue(h)>> \o Each(Meaning, t)
        /\ h \in GoodArgs /\ t \in Seq(GoodArgs) /\ Len(s) = Len(t) + 1
    BY <2>0, ParamsHead
  <2>1. h \in GoodArgs /\ t \in Seq(GoodArgs) /\ Len(t) = k
    BY <2>a
  <2>4. Repeats(m, r, "paramSize", FlattenSeq(Each(Encoding, t)), Each(Meaning, t), x)
    BY <1>2, <2>1
  <2> HIDE DEF h, t
  <2>5. Reads(m, <<GetInt("paramSize")>>, encodeOneParam(h), <<ParamValue(h)>>, x, x)
    BY <2>1, ParamReads DEF GoodArgs, Size
  <2>6. encodeOneParam(h) # <<>>
    <3>1. GetInt("paramSize") \in SoundEntries /\ GetInt("paramSize").get = "int"
      BY SizeIs DEF Size
    <3> QED
      BY <2>5, <3>1, ReadsSome
  <2>7. Repeats(m, r, "paramSize", encodeOneParam(h) \o FlattenSeq(Each(Encoding, t)), <<ParamValue(h)>> \o Each(Meaning, t), x)
    BY <2>4, <2>5, <2>6, RepeatsMore
  <2> QED
    BY <2>a, <2>7
<1>3. 0 \in P /\ \A k \in Nat : k \in P => k + 1 \in P
  BY <1>1, <1>2
<1>4. Nat \subseteq P
  <2> HIDE DEF P
  <2> QED
    BY <1>3, SetInduction
<1>5. Len(args) \in Nat
  OBVIOUS
<1>6. Good(Len(args))
  BY <1>4, <1>5
<1> QED
  BY <1>6

\* The bind parameters, as one argument: what their length counts is read as
\* parameters.
LEMMA BindReads ==
  ASSUME NEW m, Bytes(m) \in Seq(Byte), NEW w \in Seq(Byte), Len(w) \in Number32, NEW g \in Seq(Field),
         NEW x \in Metas, \A r \in Seq(Byte) : Repeats(m, r, "paramSize", w, g, x)
  PROVE  Reads(m, <<GetInt("bindLen")>>, addBytes(w), g, x, x)
<1> DEFINE op == GetInt("bindLen")
           n == Len(w)
           u == writeInt(n)
           v == <<n>>
<1>1. op \in SoundEntries /\ op.get = "int" /\ op.to = "bindLen"
  BY IntOf
<1>1a. op.n = 4 /\ op.get \in Gets
  BY DEF GetInt, Rd, Gets
<1>2. n \in Nat /\ n \in Int /\ First(v) = n /\ v = ValueOf("int", u)
  BY IntBack DEF First, ValueOf
<1>3. u \in Seq(Byte) /\ Len(u) = 4
  BY <1>2, WordType
<1>4. Learned("bindLen", v, x) = x
  <2>1. "bindLen" \in ToNames /\ "bindLen" \notin ByteNames
    BY DEF ToNames, LeadNames, Special, ByteNames
  <2> QED
    BY <2>1, LearnedNothing
<1>5. Fields("bindLen", v) = <<>> /\ Fine("bindLen", v)
  BY DEF Fields, Dropped, Fine, Failed, Counts
<1>6. addBytes(w) = u \o w /\ u \o w \in Seq(Byte)
  BY <1>3, ConcatProperties DEF addBytes
<1>7. <<op>> \in Ops /\ <<>> \in Ops /\ <<op>> \o <<>> = <<op>>
  <2>1. <<op>> \in Ops /\ <<>> \in Ops
    BY <1>1, TupleTypes DEF Ops
  <2> QED
    BY <2>1, ConcatEmptySeq DEF Ops
<1> HIDE DEF op, n, u, v
<1>8. ASSUME NEW r \in Seq(Byte), NEW o \in Seq(Field)
      PROVE  Leads(m, <<op>>, At((u \o w) \o r, o, x), At(r, o \o g, x))
  <2> DEFINE z == w \o r
             a == At(u \o z, o, x)
             c == At(z, o, x)
             b == At(r, o \o g, x)
             k == Limit(m, r)
             f == <<Until(k, "paramSize")>>
  <2>1. Leads(m, f, c, b)
    BY DEF Repeats
  <2>2. (u \o w) \o r = u \o z
    <3>1. u \in Seq(Byte) /\ w \in Seq(Byte) /\ r \in Seq(Byte)
      BY <1>3
    <3> HIDE <1>3, <1>6
    <3> QED
      BY <3>1, BytesAssoc, SMTT(40)
  <2>3. z \in Seq(Byte) /\ Len(z) = n + Len(r)
    BY Joined DEF n
  <2> HIDE DEF z
  <2>4. u \o z \in Seq(Byte) /\ Len(u \o z) = 4 + Len(z)
    <3>1. u \in Seq(Byte) /\ z \in Seq(Byte)
      BY <1>3, <2>3
    <3>2. u \o z \in Seq(Byte) /\ Len(u \o z) = Len(u) + Len(z)
      BY <3>1, Joined
    <3> QED
      BY <1>3, <3>2
  <2>5. a \in Situation /\ c \in Situation
    BY <2>3, <2>4, AtType
  <2>6. a.rest = u \o c.rest /\ c.out = a.out /\ c.meta = x /\ a.meta = x /\ a.out = o
    BY DEF At
  <2>7. k \in Int /\ Position(m, a) + 4 + n = k
    <3>1. Len(Bytes(m)) \in Nat /\ Len(r) \in Nat
      OBVIOUS
    <3>2. Position(m, a) = Len(Bytes(m)) - Len(u \o z)
      BY DEF Position, At
    <3>3. Len(u \o z) = 4 + (n + Len(r))
      BY <2>3, <2>4
    <3> DEFINE i == Len(Bytes(m))
               j == Len(r)
               l == Len(u \o z)
    <3> HIDE DEF i, j, l, a
    <3>4. i \in Nat /\ j \in Nat /\ Position(m, a) = i - l /\ l = 4 + (n + j) /\ k = i - j
      BY <3>1, <3>2, <3>3 DEF Limit, i, j, l
    <3> QED
      BY <1>2, <3>4
  <2> HIDE DEF a, c, b, k
  <2>8. f \in Ops
    <3>1. Until(k, "paramSize") \in SoundEntries
      BY <2>7, UntilOf
    <3> QED
      BY <3>1, TupleTypes DEF Ops
  <2>9. Further(m, op, a, First(v)) = f
    BY <1>1, <1>2, <2>7 DEF Further
  <2> HIDE DEF f
  <2>10. a.out \o <<>> = a.out
    BY <2>6, ConcatEmptySeq
  <2>11. Takes(m, op, a, c, u, f)
    BY <1>1, <1>1a, <1>2, <1>3, <1>4, <1>5, <2>6, <2>9, <2>10 DEF Takes
  <2>12. Goes(m, op, a, c, f)
    BY <1>1a, <2>11 DEF Goes
  <2>13. f \o <<>> = f
    BY <2>8, ConcatEmptySeq DEF Ops
  <2>14. Leads(m, f \o <<>>, c, b)
    BY <2>1, <2>13
  <2>15. Leads(m, <<op>> \o <<>>, a, b)
    BY <1>1, <1>7, <2>5, <2>8, <2>12, <2>14, LeadsOn
  <2> QED
    BY <1>7, <2>2, <2>15 DEF a, b
<1> QED
  BY <1>6, <1>7, <1>8 DEF Reads, op

GetArg == GetInt("argLen")

\* An argument, with its length.
LEMMA ArgReads ==
  ASSUME NEW m, NEW b \in Seq(Byte), Len(b) <= MaxInt, NEW x \in Metas
  PROVE  Reads(m, <<GetArg>>, addBytes(b), <<Arg(b)>>, x, x)
<1> DEFINE n == Len(b)
<1>1. n \in Nat /\ n \in Number32
  <2>1. n \in Nat
    OBVIOUS
  <2> QED
    BY <2>1, LengthType
<1>2. Reads(m, <<GetRaw(n, "arg")>>, b, Fields("arg", b), x, x)
  <2>1. "arg" \in PlainNames /\ "arg" \notin {"proto", "errMsg"} /\ "arg" \notin FineNames
    BY DEF PlainNames, FineNames
  <2> QED
    BY <2>1, RawReads
<1>3. Fields("arg", b) = <<Arg(b)>>
  BY DEF Fields, Dropped, Arg
<1> HIDE DEF n
<1>4. Follows("argLen", GetArg.x, n) = <<GetRaw(n, "arg")>>
  <2>1. (IF n <= 0 THEN 0 ELSE n) = n
    BY <1>1
  <2> QED
    BY <2>1 DEF Follows
<1>5. GetArg \in SoundEntries /\ GetArg.get = "int" /\ GetArg.to = "argLen"
  BY IntOf DEF GetArg
<1>6. Reads(m, Follows(GetArg.to, GetArg.x, n), b, <<Arg(b)>>, x, x)
  BY <1>2, <1>3, <1>4, <1>5
<1> HIDE <1>2, <1>3, <1>4
<1>7. Reads(m, <<GetArg>>, writeInt(n) \o b, <<Arg(b)>>, x, x)
  BY <1>1, <1>5, <1>6, LengthReads
<1> QED
  BY <1>7 DEF addBytes, n

-----------------------------------------------------------------------------
(***************************************************************************)
(* Requests.  The reads ops take the bytes p, return g and are then at the *)
(* arguments that may still follow: wherever those lead, ops leads from p  *)
(* in front of them.                                                       *)
(***************************************************************************)
Args(m) == Until(Len(Bytes(m)), "argLen")

Serves(m, ops, p, g, x) ==
  /\ ops \in Ops /\ p \in Seq(Byte) /\ g \in Seq(Field) /\ x \in Metas
  /\ \A r \in Seq(Byte), o \in Seq(Field), e \in Situation :
       Leads(m, <<Args(m)>>, At(r, o \o g, x), e) => Leads(m, ops, At(p \o r, o, x), e)

LEMMA ArgsOf ==
  ASSUME NEW m, Bytes(m) \in Seq(Byte)
  PROVE  /\ Args(m) \in SoundEntries /\ <<Args(m)>> \in Ops /\ Args(m).get = "until" /\ Args(m).get \notin Gets
         /\ Args(m).n = Len(Bytes(m)) /\ Args(m).to = "argLen" /\ GetArg \in SoundEntries /\ <<GetArg>> \in Ops
<1>1. Len(Bytes(m)) \in Int
  OBVIOUS
<1>2. /\ Args(m) \in SoundEntries /\ Args(m).get = "until" /\ Args(m).get \notin Gets
      /\ Args(m).n = Len(Bytes(m)) /\ Args(m).to = "argLen" /\ GetArg \in SoundEntries
  BY <1>1, UntilOf DEF Args, GetArg
<1> QED
  BY <1>2, TupleTypes DEF Ops

LEMMA ServesStart ==
  ASSUME NEW m, Bytes(m) \in Seq(Byte), NEW q, NEW p, NEW g, NEW x, Reads(m, q, p, g, x, x)
  PROVE  Serves(m, q \o <<Args(m)>>, p, g, x)
<1> DEFINE u == <<Args(m)>>
<1>1. q \in Ops /\ p \in Seq(Byte) /\ g \in Seq(Field) /\ x \in Metas /\ u \in Ops
  BY ArgsOf DEF Reads
<1> HIDE DEF u
<1>2. q \o u \in Ops
  BY <1>1, ConcatProperties DEF Ops
<1>3. ASSUME NEW r \in Seq(Byte), NEW o \in Seq(Field), NEW e \in Situation, Leads(m, u, At(r, o \o g, x), e)
      PROVE  Leads(m, q \o u, At(p \o r, o, x), e)
  <2> DEFINE a == At(p \o r, o, x)
             b == At(r, o \o g, x)
  <2>1. p \o r \in Seq(Byte) /\ o \o g \in Seq(Field)
    BY <1>1, ConcatProperties
  <2>2. a \in Situation /\ b \in Situation
    BY <1>1, <2>1, AtType
  <2>3. Leads(m, q, a, b)
    BY DEF Reads
  <2>4. Leads(m, u, b, e)
    BY <1>3
  <2> HIDE DEF a, b
  <2>5. Leads(m, q \o u, a, e)
    BY <1>1, <2>2, <2>3, <2>4, LeadsJoin
  <2> QED
    BY <2>5 DEF a
<1> QED
  BY <1>1, <1>2, <1>3 DEF Serves, u

\* One more argument.
LEMMA ServesMore ==
  ASSUME NEW m, Bytes(m) \in Seq(Byte), NEW ops, NEW p, NEW g, NEW x, Serves(m, ops, p, g, x),
         NEW v, NEW h, Reads(m, <<GetArg>>, v, h, x, x)
  PROVE  Serves(m, ops, p \o v, g \o h, x)
<1> DEFINE op == Args(m)
           u == <<op>>
<1>1. /\ ops \in Ops /\ p \in Seq(Byte) /\ g \in Seq(Field) /\ x \in Metas
      /\ v \in Seq(Byte) /\ h \in Seq(Field)
  BY DEF Serves, Reads
<1>2. /\ op \in SoundEntries /\ u \in Ops /\ op.get = "until" /\ op.get \notin Gets
      /\ op.n = Len(Bytes(m)) /\ op.to = "argLen" /\ GetArg \in SoundEntries /\ <<GetArg>> \in Ops
  BY ArgsOf
<1> HIDE DEF op
<1>3. v # <<>>
  <2>1. GetArg.get = "int"
    BY IntOf DEF GetArg
  <2> QED
    BY <1>2, <2>1, ReadsSome
<1>4. p \o v \in Seq(Byte) /\ g \o h \in Seq(Field)
  BY <1>1, ConcatProperties
<1>5. <<GetArg, op>> = <<GetArg>> \o u /\ <<GetArg, op>> \in Ops
  BY <1>2, TwoJoin, TupleTypes DEF Ops
<1>6. ASSUME NEW r \in Seq(Byte), NEW o \in Seq(Field), NEW e \in Situation, Leads(m, u, At(r, o \o (g \o h), x), e)
      PROVE  Leads(m, ops, At((p \o v) \o r, o, x), e)
  <2> DEFINE z == v \o r
             a == At(z, o \o g, x)
             b == At(r, (o \o g) \o h, x)
  <2>1. (p \o v) \o r = p \o z
    <3>1. p \in Seq(Byte) /\ v \in Seq(Byte) /\ r \in Seq(Byte)
      BY <1>1
    <3> HIDE <1>1, <1>4
    <3> QED
      BY <3>1, BytesAssoc, SMTT(40)
  <2>2. (o \o g) \o h = o \o (g \o h)
    <3>1. o \in Seq(Field) /\ g \in Seq(Field) /\ h \in Seq(Field)
      BY <1>1
    <3> HIDE <1>1, <1>4
    <3> QED
      BY <3>1, FieldsAssoc
  <2>3. z \in Seq(Byte) /\ Len(z) = Len(v) + Len(r)
    <3>1. v \in Seq(Byte) /\ r \in Seq(Byte)
      BY <1>1
    <3> HIDE <1>1, <1>4
    <3> QED
      BY <3>1, Joined
  <2>4. o \o g \in Seq(Field) /\ (o \o g) \o h \in Seq(Field)
    BY <1>1, ConcatProperties
  <2> HIDE DEF z
  <2>5. a \in Situation /\ b \in Situation
    BY <1>1, <2>3, <2>4, AtType
  <2>6. Leads(m, <<GetArg>>, a, b)
    BY <2>4 DEF Reads, z
  <2>7. Leads(m, u, b, e)
    BY <1>6, <2>2
  <2>8. Position(m, a) < op.n
    <3>1. Position(m, a) = Len(Bytes(m)) - Len(z)
      BY DEF Position, At
    <3>2. Len(v) \in Nat /\ Len(v) # 0 /\ Len(r) \in Nat /\ Len(Bytes(m)) \in Nat
      BY <1>1, <1>3
    <3> QED
      BY <1>2, <2>3, <3>1, <3>2
  <2> HIDE DEF a, b, u
  <2>9. Unrolled(m, op, a) = <<GetArg, op>>
    BY <1>2, <2>8 DEF Unrolled, GetArg
  <2>10. Leads(m, <<GetArg>> \o u, a, e)
    BY <1>2, <2>5, <2>6, <2>7, LeadsJoin
  <2>11. Leads(m, <<GetArg, op>>, a, e)
    BY <1>5, <2>10
  <2>12. Leads(m, <<op>>, a, e)
    BY <1>2, <1>5, <2>5, <2>9, <2>11, LeadsUnrolled
  <2>13. \A r1 \in Seq(Byte), o1 \in Seq(Field), e1 \in Situation :
           Leads(m, <<op>>, At(r1, o1 \o g, x), e1) => Leads(m, ops, At(p \o r1, o1, x), e1)
    BY DEF Serves, op
  <2>14. Leads(m, <<op>>, At(z, o \o g, x), e)
    BY <2>12 DEF a
  <2>15. Leads(m, ops, At(p \o z, o, x), e)
    BY <2>3, <2>13, <2>14
  <2> QED
    BY <2>1, <2>15
<1> QED
  BY <1>1, <1>4, <1>6 DEF Serves, op

\* No argument is left: the request is read.
LEMMA ServesEnd ==
  ASSUME NEW m, Bytes(m) \in Seq(Byte), NEW ops, NEW p, NEW g, NEW x, Serves(m, ops, p, g, x)
  PROVE  \A o \in Seq(Field) : Leads(m, ops, At(p, o, x), At(<<>>, o \o g, x))
<1>1. /\ ops \in Ops /\ p \in Seq(Byte) /\ g \in Seq(Field) /\ x \in Metas
  BY DEF Serves
<1>2. <<>> \in Seq(Byte) /\ <<>> \in Seq(Field) /\ Len(<<>>) = 0
  OBVIOUS
<1>3. Repeats(m, <<>>, "argLen", <<>>, <<>>, x)
  BY <1>1, <1>2, RepeatsNot
<1>4. Until(Limit(m, <<>>), "argLen") = Args(m)
  <2>1. Len(Bytes(m)) \in Nat
    OBVIOUS
  <2>2. Len(Bytes(m)) - 0 = Len(Bytes(m))
    BY <2>1
  <2> QED
    BY <1>2, <2>2 DEF Limit, Args
<1> SUFFICES ASSUME NEW o \in Seq(Field) PROVE Leads(m, ops, At(p, o, x), At(<<>>, o \o g, x))
  OBVIOUS
<1> DEFINE f == o \o g
           e == At(<<>>, f, x)
<1>5. f \in Seq(Field)
  BY <1>1, ConcatProperties
<1> HIDE DEF f
<1>6. e \in Situation
  BY <1>1, <1>2, <1>5, AtType
<1>7. <<>> \o <<>> = <<>> /\ f \o <<>> = f /\ p \o <<>> = p
  BY <1>1, <1>5, ConcatEmptySeq
<1>8. Leads(m, <<Args(m)>>, At(<<>> \o <<>>, f, x), At(<<>>, f \o <<>>, x))
  BY <1>3, <1>4, <1>5 DEF Repeats
<1>9. Leads(m, <<Args(m)>>, At(<<>>, f, x), e)
  BY <1>7, <1>8
<1> HIDE DEF e
<1>10. \A r \in Seq(Byte), e1 \in Situation :
         Leads(m, <<Args(m)>>, At(r, o \o g, x), e1) => Leads(m, ops, At(p \o r, o, x), e1)
  BY DEF Serves
<1>11. Leads(m, ops, At(p \o <<>>, o, x), e)
  BY <1>2, <1>6, <1>9, <1>10 DEF f
<1> QED
  BY <1>7, <1>11 DEF e, f

\* The arguments that have a length.
Sendable == {b \in Seq(Byte) : Len(b) <= MaxInt}

LEMMA SendableArgs ==
  /\ \A n \in Int : writeInt(n) \in Sendable
  /\ \A b \in Byte : <<b>> \in Sendable
  /\ \A s \in Text : s \o <<0>> \in Sendable
  /\ <<>> \in Sendable /\ writeFiller(8) \in Sendable
<1>0. MaxInt \in Nat /\ 0 <= MaxInt /\ 1 <= MaxInt /\ 4 <= MaxInt /\ 8 <= MaxInt
      /\ \A k \in Nat : k <= MaxLen => k + 1 <= MaxInt
  BY SMT DEF MaxInt, MaxLen
<1>1. ASSUME NEW n \in Int PROVE writeInt(n) \in Sendable
  <2>1. writeInt(n) \in Seq(Byte) /\ Len(writeInt(n)) = 4
    BY WordType
  <2> QED
    BY <1>0, <2>1 DEF Sendable
<1>2. ASSUME NEW b \in Byte PROVE <<b>> \in Sendable
  <2>1. <<b>> \in Seq(Byte) /\ Len(<<b>>) = 1
    BY SmallBytes
  <2> QED
    BY <1>0, <2>1 DEF Sendable
<1>3. ASSUME NEW s \in Text PROVE s \o <<0>> \in Sendable
  <2>1. s \in Seq(Byte) /\ Len(s) <= MaxLen
    BY DEF Text
  <2>2. s \o <<0>> \in Seq(Byte) /\ Len(s \o <<0>>) = Len(s) + 1 /\ Len(s) \in Nat
    BY <2>1, TextBytes
  <2>3. Len(s) + 1 <= MaxInt
    BY <1>0, <2>1, <2>2
  <2> QED
    BY <2>2, <2>3 DEF Sendable
<1>4. <<>> \in Sendable
  <2>1. <<>> \in Seq(Byte) /\ Len(<<>>) = 0
    OBVIOUS
  <2> QED
    BY <1>0, <2>1 DEF Sendable
<1>5. writeFiller(8) \in Sendable
  <2>1. 8 \in Nat
    OBVIOUS
  <2>2. writeFiller(8) \in Seq(Byte) /\ Len(writeFiller(8)) = 8
    BY <2>1, FillerType
  <2> QED
    BY <1>0, <2>2 DEF Sendable
<1> QED
  BY <1>1, <1>2, <1>3, <1>4, <1>5

LEMMA ServesArg ==
  ASSUME NEW m, Bytes(m) \in Seq(Byte), NEW ops, NEW p, NEW g, NEW x, Serves(m, ops, p, g, x), NEW b \in Sendable
  PROVE  Serves(m, ops, p \o addBytes(b), g \o <<Arg(b)>>, x) /\ Arg(b) \in Field
<1>1. b \in Seq(Byte) /\ Len(b) <= MaxInt /\ x \in Metas
  BY DEF Sendable, Serves
<1>2. Reads(m, <<GetArg>>, addBytes(b), <<Arg(b)>>, x, x)
  BY <1>1, ArgReads
<1>3. Arg(b) \in Field
  <2> DEFINE s == <<Arg(b)>>
  <2>1. s \in Seq(Field)
    BY <1>2 DEF Reads
  <2>2. 1 \in 1..Len(s) /\ s[1] = Arg(b)
    OBVIOUS
  <2> HIDE DEF s
  <2> QED
    BY <2>1, <2>2
<1>4. Serves(m, ops, p \o addBytes(b), g \o <<Arg(b)>>, x)
  BY <1>2, ServesMore
<1> QED
  BY <1>3, <1>4

LEMMA FcReads ==
  ASSUME NEW m, NEW b \in Byte, NEW x \in Metas
  PROVE  Reads(m, <<GetByte("fc")>>, <<b>>, <<One("fc", b)>>, x, x) /\ One("fc", b) \in Field
<1>1. "fc" \in PlainNames /\ "fc" \notin {"proto", "errMsg"} /\ "fc" \notin FineNames
  BY DEF PlainNames, FineNames
<1>2. Reads(m, <<GetByte("fc")>>, <<b>>, Fields("fc", <<b>>), x, x)
  BY <1>1, ByteReads
<1>3. Fields("fc", <<b>>) = <<One("fc", b)>>
  BY DEF Fields, Dropped, One
<1>4. One("fc", b) \in Field
  <2> DEFINE s == <<One("fc", b)>>
  <2>1. s \in Seq(Field)
    BY <1>2, <1>3 DEF Reads
  <2>2. 1 \in 1..Len(s) /\ s[1] = One("fc", b)
    OBVIOUS
  <2> HIDE DEF s
  <2> QED
    BY <2>1, <2>2
<1> QED
  BY <1>2, <1>3, <1>4

\* The reads of a request that is a function code and its arguments.
Called(m) == <<GetByte("fc")>> \o <<Args(m)>>

LEMMA Serves1 ==
  ASSUME NEW m, Bytes(m) \in Seq(Byte), NEW b \in Byte, NEW x \in Metas
  PROVE  Serves(m, Called(m), <<b>>, <<One("fc", b)>>, x) /\ One("fc", b) \in Field
<1>1. Reads(m, <<GetByte("fc")>>, <<b>>, <<One("fc", b)>>, x, x) /\ One("fc", b) \in Field
  BY FcReads
<1>2. Serves(m, <<GetByte("fc")>> \o <<Args(m)>>, <<b>>, <<One("fc", b)>>, x)
  BY <1>1, ServesStart
<1> QED
  BY <1>1, <1>2 DEF Called

LEMMA Serves2 ==
  ASSUME NEW m, Bytes(m) \in Seq(Byte), NEW ops, NEW p, NEW x, NEW f1 \in Field,
         Serves(m, ops, p, <<f1>>, x), NEW b \in Sendable
  PROVE  Serves(m, ops, p \o addBytes(b), <<f1, Arg(b)>>, x) /\ Arg(b) \in Field
<1> DEFINE a == Arg(b)
<1>1. Serves(m, ops, p \o addBytes(b), <<f1>> \o <<a>>, x) /\ a \in Field
  BY ServesArg
<1> HIDE DEF a
<1>2. <<f1>> \o <<a>> = <<f1, a>>
  BY <1>1, TwoJoin
<1> QED
  BY <1>1, <1>2 DEF a

LEMMA Serves3 ==
  ASSUME NEW m, Bytes(m) \in Seq(Byte), NEW ops, NEW p, NEW x, NEW f1 \in Field, NEW f2 \in Field,
         Serves(m, ops, p, <<f1, f2>>, x), NEW b \in Sendable
  PROVE  Serves(m, ops, p \o addBytes(b), <<f1, f2, Arg(b)>>, x) /\ Arg(b) \in Field
<1> DEFINE a == Arg(b)
<1>1. Serves(m, ops, p \o addBytes(b), <<f1, f2>> \o <<a>>, x) /\ a \in Field
  BY ServesArg
<1> HIDE DEF a
<1>2. <<f1, f2>> \o <<a>> = <<f1, f2, a>>
  BY <1>1, ThreeJoin
<1> QED
  BY <1>1, <1>2 DEF a

LEMMA Serves4 ==
  ASSUME NEW m, Bytes(m) \in Seq(Byte), NEW ops, NEW p, NEW x, NEW f1 \in Field, NEW f2 \in Field, NEW f3 \in Field,
         Serves(m, ops, p, <<f1, f2, f3>>, x), NEW b \in Sendable
  PROVE  Serves(m, ops, p \o addBytes(b), <<f1, f2, f3, Arg(b)>>, x) /\ Arg(b) \in Field
<1> DEFINE a == Arg(b)
<1>1. Serves(m, ops, p \o addBytes(b), <<f1, f2, f3>> \o <<a>>, x) /\ a \in Field
  BY ServesArg
<1> HIDE DEF a
<1>2. <<f1, f2, f3>> \o <<a>> = <<f1, f2, f3, a>>
  BY <1>1, FourJoin
<1> QED
  BY <1>1, <1>2 DEF a

LEMMA Serves5 ==
  ASSUME NEW m, Bytes(m) \in Seq(Byte), NEW ops, NEW p, NEW x, NEW f1 \in Field, NEW f2 \in Field,
         NEW f3 \in Field, NEW f4 \in Field,
         Serves(m, ops, p, <<f1, f2, f3, f4>>, x), NEW b \in Sendable
  PROVE  Serves(m, ops, p \o addBytes(b), <<f1, f2, f3, f4, Arg(b)>>, x) /\ Arg(b) \in Field
<1> DEFINE a == Arg(b)
<1>1. Serves(m, ops, p \o addBytes(b), <<f1, f2, f3, f4>> \o <<a>>, x) /\ a \in Field
  BY ServesArg
<1> HIDE DEF a
<1>2. <<f1, f2, f3, f4>> \o <<a>> = <<f1, f2, f3, f4, a>>
  BY <1>1, FiveJoin
<1> QED
  BY <1>1, <1>2 DEF a

LEMMA Serves6 ==
  ASSUME NEW m, Bytes(m) \in Seq(Byte), NEW ops, NEW p, NEW x, NEW f1 \in Field, NEW f2 \in Field,
         NEW f3 \in Field, NEW f4 \in Field, NEW f5 \in Field,
         Serves(m, ops, p, <<f1, f2, f3, f4, f5>>, x), NEW b \in Sendable
  PROVE  Serves(m, ops, p \o addBytes(b), <<f1, f2, f3, f4, f5, Arg(b)>>, x) /\ Arg(b) \in Field
<1> DEFINE a == Arg(b)
<1>1. Serves(m, ops, p \o addBytes(b), <<f1, f2, f3, f4, f5>> \o <<a>>, x) /\ a \in Field
  BY ServesArg
<1> HIDE DEF a
<1>2. <<f1, f2, f3, f4, f5>> \o <<a>> = <<f1, f2, f3, f4, f5, a>>
  BY <1>1, SixJoin
<1> QED
  BY <1>1, <1>2 DEF a

LEMMA Serves7 ==
  ASSUME NEW m, Bytes(m) \in Seq(Byte), NEW ops, NEW p, NEW x, NEW f1 \in Field, NEW f2 \in Field,
         NEW f3 \in Field, NEW f4 \in Field, NEW f5 \in Field, NEW f6 \in Field,
         Serves(m, ops, p, <<f1, f2, f3, f4, f5, f6>>, x), NEW b \in Sendable
  PROVE  Serves(m, ops, p \o addBytes(b), <<f1, f2, f3, f4, f5, f6, Arg(b)>>, x) /\ Arg(b) \in Field
<1> DEFINE a == Arg(b)
<1>1. Serves(m, ops, p \o addBytes(b), <<f1, f2, f3, f4, f5, f6>> \o <<a>>, x) /\ a \in Field
  BY ServesArg
<1> HIDE DEF a
<1> DEFINE s == <<f1, f2, f3, f4, f5, f6>>
           u == <<f1, f2, f3, f4, f5, f6, a>>
           v == <<a>>
<1>2. s \in Seq(Field) /\ v \in Seq(Field) /\ u \in Seq(Field)
  BY <1>1
<1>3. Len(u) = Len(s) + Len(v)
  OBVIOUS
<1>4. (\A n \in 1..Len(s) : u[n] = s[n]) /\ \A n \in 1..Len(v) : u[Len(s) + n] = v[n]
  OBVIOUS
<1> HIDE DEF s, u, v
<1>5. s \o v = u
  BY <1>2, <1>3, <1>4, SameSequence
<1> QED
  BY <1>1, <1>5 DEF a, s, u, v

LEMMA Serves8 ==
  ASSUME NEW m, Bytes(m) \in Seq(Byte), NEW ops, NEW p, NEW x, NEW f1 \in Field, NEW f2 \in Field,
         NEW f3 \in Field, NEW f4 \in Field, NEW f5 \in Field, NEW f6 \in Field, NEW f7 \in Field,
         Serves(m, ops, p, <<f1, f2, f3, f4, f5, f6, f7>>, x), NEW b \in Sendable
  PROVE  Serves(m, ops, p \o addBytes(b), <<f1, f2, f3, f4, f5, f6, f7, Arg(b)>>, x) /\ Arg(b) \in Field
<1> DEFINE a == Arg(b)
<1>1. Serves(m, ops, p \o addBytes(b), <<f1, f2, f3, f4, f5, f6, f7>> \o <<a>>, x) /\ a \in Field
  BY ServesArg
<1> HIDE DEF a
<1> DEFINE s == <<f1, f2, f3, f4, f5, f6, f7>>
           u == <<f1, f2, f3, f4, f5, f6, f7, a>>
           v == <<a>>
<1>2. s \in Seq(Field) /\ v \in Seq(Field) /\ u \in Seq(Field)
  BY <1>1
<1>3. Len(u) = Len(s) + Len(v)
  OBVIOUS
<1>4. (\A n \in 1..Len(s) : u[n] = s[n]) /\ \A n \in 1..Len(v) : u[Len(s) + n] = v[n]
  OBVIOUS
<1> HIDE DEF s, u, v
<1>5. s \o v = u
  BY <1>2, <1>3, <1>4, SameSequence
<1> QED
  BY <1>1, <1>5 DEF a, s, u, v

LEMMA Serves9 ==
  ASSUME NEW m, Bytes(m) \in Seq(Byte), NEW ops, NEW p, NEW x, NEW f1 \in Field, NEW f2 \in Field,
         NEW f3 \in Field, NEW f4 \in Field, NEW f5 \in Field, NEW f6 \in Field, NEW f7 \in Field,
         NEW f8 \in Field,
         Serves(m, ops, p, <<f1, f2, f3, f4, f5, f6, f7, f8>>, x), NEW b \in Sendable
  PROVE  Serves(m, ops, p \o addBytes(b), <<f1, f2, f3, f4, f5, f6, f7, f8, Arg(b)>>, x) /\ Arg(b) \in Field
<1> DEFINE a == Arg(b)
<1>1. Serves(m, ops, p \o addBytes(b), <<f1, f2, f3, f4, f5, f6, f7, f8>> \o <<a>>, x) /\ a \in Field
  BY ServesArg
<1> HIDE DEF a
<1> DEFINE s == <<f1, f2, f3, f4, f5, f6, f7, f8>>
           u == <<f1, f2, f3, f4, f5, f6, f7, f8, a>>
           v == <<a>>
<1>2. s \in Seq(Field) /\ v \in Seq(Field) /\ u \in Seq(Field)
  BY <1>1
<1>3. Len(u) = Len(s) + Len(v)
  OBVIOUS
<1>4. (\A n \in 1..Len(s) : u[n] = s[n]) /\ \A n \in 1..Len(v) : u[Len(s) + n] = v[n]
  OBVIOUS
<1> HIDE DEF s, u, v
<1>5. s \o v = u
  BY <1>2, <1>3, <1>4, SameSequence
<1> QED
  BY <1>1, <1>5 DEF a, s, u, v

LEMMA Serves10 ==
  ASSUME NEW m, Bytes(m) \in Seq(Byte), NEW ops, NEW p, NEW x, NEW f1 \in Field, NEW f2 \in Field,
         NEW f3 \in Field, NEW f4 \in Field, NEW f5 \in Field, NEW f6 \in Field, NEW f7 \in Field,
         NEW f8 \in Field, NEW f9 \in Field,
         Serves(m, ops, p, <<f1, f2, f3, f4, f5, f6, f7, f8, f9>>, x), NEW b \in Sendable
  PROVE  Serves(m, ops, p \o addBytes(b), <<f1, f2, f3, f4, f5, f6, f7, f8, f9, Arg(b)>>, x) /\ Arg(b) \in Field
<1> DEFINE a == Arg(b)
<1>1. Serves(m, ops, p \o addBytes(b), <<f1, f2, f3, f4, f5, f6, f7, f8, f9>> \o <<a>>, x) /\ a \in Field
  BY ServesArg
<1> HIDE DEF a
<1> DEFINE s == <<f1, f2, f3, f4, f5, f6, f7, f8, f9>>
           u == <<f1, f2, f3, f4, f5, f6, f7, f8, f9, a>>
           v == <<a>>
<1>2. s \in Seq(Field) /\ v \in Seq(Field) /\ u \in Seq(Field)
  BY <1>1
<1>3. Len(u) = Len(s) + Len(v)
  OBVIOUS
<1>4. (\A n \in 1..Len(s) : u[n] = s[n]) /\ \A n \in 1..Len(v) : u[Len(s) + n] = v[n]
  OBVIOUS
<1> HIDE DEF s, u, v
<1>5. s \o v = u
  BY <1>2, <1>3, <1>4, SameSequence
<1> QED
  BY <1>1, <1>5 DEF a, s, u, v

LEMMA Serves11 ==
  ASSUME NEW m, Bytes(m) \in Seq(Byte), NEW ops, NEW p, NEW x, NEW f1 \in Field, NEW f2 \in Field,
         NEW f3 \in Field, NEW f4 \in Field, NEW f5 \in Field, NEW f6 \in Field, NEW f7 \in Field,
         NEW f8 \in Field, NEW f9 \in Field, NEW f10 \in Field,
         Serves(m, ops, p, <<f1, f2, f3, f4, f5, f6, f7, f8, f9, f10>>, x), NEW b \in Sendable
  PROVE  Serves(m, ops, p \o addBytes(b), <<f1, f2, f3, f4, f5, f6, f7, f8, f9, f10, Arg(b)>>, x) /\ Arg(b) \in Field
<1> DEFINE a == Arg(b)
<1>1. Serves(m, ops, p \o addBytes(b), <<f1, f2, f3, f4, f5, f6, f7, f8, f9, f10>> \o <<a>>, x) /\ a \in Field
  BY ServesArg
<1> HIDE DEF a
<1> DEFINE s == <<f1, f2, f3, f4, f5, f6, f7, f8, f9, f10>>
           u == <<f1, f2, f3, f4, f5, f6, f7, f8, f9, f10, a>>
           v == <<a>>
<1>2. s \in Seq(Field) /\ v \in Seq(Field) /\ u \in Seq(Field)
  BY <1>1
<1>3. Len(u) = Len(s) + Len(v)
  OBVIOUS
<1>4. (\A n \in 1..Len(s) : u[n] = s[n]) /\ \A n \in 1..Len(v) : u[Len(s) + n] = v[n]
  OBVIOUS
<1> HIDE DEF s, u, v
<1>5. s \o v = u
  BY <1>2, <1>3, <1>4, SameSequence
<1> QED
  BY <1>1, <1>5 DEF a, s, u, v

-----------------------------------------------------------------------------
(***************************************************************************)
(* Each request: its payload is read as what the driver asks.              *)
(***************************************************************************)
Asks(m, ops, x) == Serves(m, ops, Payload(m), Asked(m), x)

\* What the arguments are made of.
LEMMA ArgumentKinds ==
  ASSUME NEW m, IsMessage(m)
  PROVE  /\ Bytes(m) \in Seq(Byte) /\ m.h \in Int /\ m.n \in Int /\ m.n + 1 \in Int /\ 100 \in Int /\ 3 \in Int /\ 0 \in Int
         /\ m.text \in Text /\ Flag(m.ac) \in Byte /\ Flag(m.stmt = StmtSelect) \in Byte
         /\ (m.p = "WriteEndTran" => m.n \in Byte) /\ 0 \in Byte /\ 1 \in Byte /\ 2 \in Byte
         /\ Flag(m.ac) = (IF m.ac THEN 1 ELSE 0)
<1>1. m.h \in Int /\ m.n \in Int
  BY MessageType
<1>2. m.text \in Text /\ m.ac \in BOOLEAN /\ (m.p = "WriteEndTran" => m.n \in Byte)
  BY DEF IsMessage
<1>3. Flag(m.ac) \in Byte /\ Flag(m.stmt = StmtSelect) \in Byte
  BY <1>2, ArgumentTypes
<1>4. m.n + 1 \in Int /\ 100 \in Int /\ 3 \in Int /\ 0 \in Int
  BY <1>1
<1>5. 0 \in Byte /\ 1 \in Byte /\ 2 \in Byte
  BY DEF Byte
<1> QED
  BY <1>1, <1>2, <1>3, <1>4, <1>5, PacketType DEF Flag

LEMMA EndTranAsked ==
  ASSUME NEW m, IsMessage(m), m.p = "WriteEndTran", NEW x \in Metas
  PROVE  Asks(m, Called(m), x)
<1> DEFINE f == One("fc", 1)
           p0 == <<1>>
           b1 == <<m.n>>
           a1 == Arg(b1)
           p1 == p0 \o addBytes(b1)
           ops == Called(m)
<1>1. Bytes(m) \in Seq(Byte)
  BY PacketType
<1>2. Serves(m, ops, p0, <<f>>, x) /\ f \in Field
  <2>1. 1 \in Byte
    BY DEF Byte
  <2> QED
    BY <1>1, <2>1, Serves1
<1>3. b1 \in Sendable
  BY ArgumentKinds, SendableArgs
<1>4. Payload(m) = p1
  BY DEF Payload, WriteEndTran, addInt, addByte, writeNullTermString
<1>5. Asked(m) = <<f, a1>>
  BY ArgumentKinds DEF Asked, Number
<1> HIDE DEF f, ops, a1, b1, p0, p1
<1>6. Serves(m, ops, p1, <<f, a1>>, x) /\ a1 \in Field
  BY <1>1, <1>2, <1>3, Serves2 DEF p1, a1
<1> QED
  BY <1>4, <1>5, <1>6 DEF Asks, ops

LEMMA PrepareAsked ==
  ASSUME NEW m, IsMessage(m), m.p = "WritePrepare", NEW x \in Metas
  PROVE  Asks(m, Called(m), x)
<1> DEFINE f == One("fc", 2)
           p0 == <<2>>
           b1 == m.text \o <<0>>
           b2 == <<0>>
           b3 == <<Flag(m.ac)>>
           a1 == Arg(b1)
           a2 == Arg(b2)
           a3 == Arg(b3)
           p1 == p0 \o addBytes(b1)
           p2 == p1 \o addBytes(b2)
           p3 == p2 \o addBytes(b3)
           ops == Called(m)
<1>1. Bytes(m) \in Seq(Byte)
  BY PacketType
<1>2. Serves(m, ops, p0, <<f>>, x) /\ f \in Field
  <2>1. 2 \in Byte
    BY DEF Byte
  <2> QED
    BY <1>1, <2>1, Serves1
<1>3. b1 \in Sendable /\ b2 \in Sendable /\ b3 \in Sendable
  BY ArgumentKinds, SendableArgs
<1>4. Payload(m) = p3
  BY DEF Payload, WritePrepare, addInt, addByte, writeNullTermString
<1>5. Asked(m) = <<f, a1, a2, a3>>
  BY ArgumentKinds DEF Asked, Number
<1> HIDE DEF f, ops, a1, a2, a3, b1, b2, b3, p0, p1, p2, p3
<1>6. Serves(m, ops, p1, <<f, a1>>, x) /\ a1 \in Field
  BY <1>1, <1>2, <1>3, Serves2 DEF p1, a1
<1>7. Serves(m, ops, p2, <<f, a1, a2>>, x) /\ a2 \in Field
  BY <1>1, <1>2, <1>6, <1>3, Serves3 DEF p2, a2
<1>8. Serves(m, ops, p3, <<f, a1, a2, a3>>, x) /\ a3 \in Field
  BY <1>1, <1>2, <1>6, <1>7, <1>3, Serves4 DEF p3, a3
<1> QED
  BY <1>4, <1>5, <1>8 DEF Asks, ops

LEMMA CloseReqHandleAsked ==
  ASSUME NEW m, IsMessage(m), m.p = "WriteCloseReqHandle", NEW x \in Metas
  PROVE  Asks(m, Called(m), x)
<1> DEFINE f == One("fc", 6)
           p0 == <<6>>
           b1 == writeInt(m.h)
           a1 == Arg(b1)
           p1 == p0 \o addBytes(b1)
           ops == Called(m)
<1>1. Bytes(m) \in Seq(Byte)
  BY PacketType
<1>2. Serves(m, ops, p0, <<f>>, x) /\ f \in Field
  <2>1. 6 \in Byte
    BY DEF Byte
  <2> QED
    BY <1>1, <2>1, Serves1
<1>3. b1 \in Sendable
  BY ArgumentKinds, SendableArgs
<1>4. Payload(m) = p1
  BY DEF Payload, WriteCloseReqHandle, addInt, addByte, writeNullTermString
<1>5. Asked(m) = <<f, a1>>
  BY ArgumentKinds DEF Asked, Number
<1> HIDE DEF f, ops, a1, b1, p0, p1
<1>6. Serves(m, ops, p1, <<f, a1>>, x) /\ a1 \in Field
  BY <1>1, <1>2, <1>3, Serves2 DEF p1, a1
<1> QED
  BY <1>4, <1>5, <1>6 DEF Asks, ops

LEMMA FetchAsked ==
  ASSUME NEW m, IsMessage(m), m.p = "WriteFetch", NEW x \in Metas
  PROVE  Asks(m, Called(m), x)
<1> DEFINE f == One("fc", 8)
           p0 == <<8>>
           b1 == writeInt(m.h)
           b2 == writeInt(m.n + 1)
           b3 == writeInt(100)
           b4 == <<0>>
           b5 == writeInt(0)
           a1 == Arg(b1)
           a2 == Arg(b2)
           a3 == Arg(b3)
           a4 == Arg(b4)
           a5 == Arg(b5)
           p1 == p0 \o addBytes(b1)
           p2 == p1 \o addBytes(b2)
           p3 == p2 \o addBytes(b3)
           p4 == p3 \o addBytes(b4)
           p5 == p4 \o addBytes(b5)
           ops == Called(m)
<1>1. Bytes(m) \in Seq(Byte)
  BY PacketType
<1>2. Serves(m, ops, p0, <<f>>, x) /\ f \in Field
  <2>1. 8 \in Byte
    BY DEF Byte
  <2> QED
    BY <1>1, <2>1, Serves1
<1>3. b1 \in Sendable /\ b2 \in Sendable /\ b3 \in Sendable /\ b4 \in Sendable /\ b5 \in Sendable
  BY ArgumentKinds, SendableArgs
<1>4. Payload(m) = p5
  BY DEF Payload, WriteFetch, addInt, addByte, writeNullTermString
<1>5. Asked(m) = <<f, a1, a2, a3, a4, a5>>
  BY ArgumentKinds DEF Asked, Number
<1> HIDE DEF f, ops, a1, a2, a3, a4, a5, b1, b2, b3, b4, b5, p0, p1, p2, p3, p4, p5
<1>6. Serves(m, ops, p1, <<f, a1>>, x) /\ a1 \in Field
  BY <1>1, <1>2, <1>3, Serves2 DEF p1, a1
<1>7. Serves(m, ops, p2, <<f, a1, a2>>, x) /\ a2 \in Field
  BY <1>1, <1>2, <1>6, <1>3, Serves3 DEF p2, a2
<1>8. Serves(m, ops, p3, <<f, a1, a2, a3>>, x) /\ a3 \in Field
  BY <1>1, <1>2, <1>6, <1>7, <1>3, Serves4 DEF p3, a3
<1>9. Serves(m, ops, p4, <<f, a1, a2, a3, a4>>, x) /\ a4 \in Field
  BY <1>1, <1>2, <1>6, <1>7, <1>8, <1>3, Serves5 DEF p4, a4
<1>10. Serves(m, ops, p5, <<f, a1, a2, a3, a4, a5>>, x) /\ a5 \in Field
  BY <1>1, <1>2, <1>6, <1>7, <1>8, <1>9, <1>3, Serves6 DEF p5, a5
<1> QED
  BY <1>4, <1>5, <1>10 DEF Asks, ops

LEMMA GetDbVersionAsked ==
  ASSUME NEW m, IsMessage(m), m.p = "WriteGetDbVersion", NEW x \in Metas
  PROVE  Asks(m, Called(m), x)
<1> DEFINE f == One("fc", 15)
           p0 == <<15>>
           b1 == <<Flag(m.ac)>>
           a1 == Arg(b1)
           p1 == p0 \o addBytes(b1)
           ops == Called(m)
<1>1. Bytes(m) \in Seq(Byte)
  BY PacketType
<1>2. Serves(m, ops, p0, <<f>>, x) /\ f \in Field
  <2>1. 15 \in Byte
    BY DEF Byte
  <2> QED
    BY <1>1, <2>1, Serves1
<1>3. b1 \in Sendable
  BY ArgumentKinds, SendableArgs
<1>4. Payload(m) = p1
  BY DEF Payload, WriteGetDbVersion, addInt, addByte, writeNullTermString
<1>5. Asked(m) = <<f, a1>>
  BY ArgumentKinds DEF Asked, Number
<1> HIDE DEF f, ops, a1, b1, p0, p1
<1>6. Serves(m, ops, p1, <<f, a1>>, x) /\ a1 \in Field
  BY <1>1, <1>2, <1>3, Serves2 DEF p1, a1
<1> QED
  BY <1>4, <1>5, <1>6 DEF Asks, ops

LEMMA ConCloseAsked ==
  ASSUME NEW m, IsMessage(m), m.p = "WriteConClose", NEW x \in Metas
  PROVE  Asks(m, Called(m), x)
<1> DEFINE f == One("fc", 31)
           p0 == <<31>>
           ops == Called(m)
<1>1. Bytes(m) \in Seq(Byte)
  BY PacketType
<1>2. Serves(m, ops, p0, <<f>>, x) /\ f \in Field
  <2>1. 31 \in Byte
    BY DEF Byte
  <2> QED
    BY <1>1, <2>1, Serves1
<1>4. Payload(m) = p0
  BY DEF Payload, WriteConClose, addInt, addByte, writeNullTermString
<1>5. Asked(m) = <<f>>
  BY ArgumentKinds DEF Asked, Number
<1> HIDE DEF f, ops, p0
<1> QED
  BY <1>4, <1>5, <1>2 DEF Asks, ops

LEMMA GetLastInsertIdAsked ==
  ASSUME NEW m, IsMessage(m), m.p = "WriteGetLastInsertId", NEW x \in Metas
  PROVE  Asks(m, Called(m), x)
<1> DEFINE f == One("fc", 40)
           p0 == <<40>>
           ops == Called(m)
<1>1. Bytes(m) \in Seq(Byte)
  BY PacketType
<1>2. Serves(m, ops, p0, <<f>>, x) /\ f \in Field
  <2>1. 40 \in Byte
    BY DEF Byte
  <2> QED
    BY <1>1, <2>1, Serves1
<1>4. Payload(m) = p0
  BY DEF Payload, WriteGetLastInsertId, addInt, addByte, writeNullTermString
<1>5. Asked(m) = <<f>>
  BY ArgumentKinds DEF Asked, Number
<1> HIDE DEF f, ops, p0
<1> QED
  BY <1>4, <1>5, <1>2 DEF Asks, ops

\* Zeros: no argument, and an argument of two numbers.
LEMMA ZeroBytes ==
  /\ addBytes(<<>>) = addNull /\ writeInt(0) \o writeInt(0) = writeFiller(8)
  /\ addCacheTime = addBytes(writeFiller(8)) /\ addBytes(writeFiller(8)) = writeInt(8) \o (writeInt(0) \o writeInt(0))
<1>1. writeInt(0) \in Seq(Byte) /\ Len(<<>>) = 0
  BY Constants
<1>2. addBytes(<<>>) = addNull
  <2>1. writeInt(0) \o <<>> = writeInt(0)
    BY <1>1, ConcatEmptySeq
  <2> QED
    BY <1>1, <2>1 DEF addBytes, addNull
<1>3. writeInt(0) = writeFiller(4)
  <2>1. (0 \div 16777216) % 256 = 0 /\ (0 \div 65536) % 256 = 0 /\ (0 \div 256) % 256 = 0 /\ 0 % 256 = 0
    BY SMT
  <2>2. writeInt(0) = <<0, 0, 0, 0>>
    BY <2>1 DEF writeInt
  <2>3. <<0, 0, 0, 0>> = [i \in 1..4 |-> 0]
    OBVIOUS
  <2> QED
    BY <2>2, <2>3 DEF writeFiller
<1>4. writeFiller(4) \o writeFiller(4) = writeFiller(8)
  <2>1. 4 \in Nat /\ 4 + 4 = 8
    OBVIOUS
  <2> QED
    BY <2>1, FillersJoin
<1>5. writeInt(0) \o writeInt(0) = writeFiller(8)
  BY <1>3, <1>4
<1>6. Len(writeFiller(8)) = 8
  <2>1. 8 \in Nat
    OBVIOUS
  <2> QED
    BY <2>1, FillerType
<1> QED
  BY <1>2, <1>5, <1>6 DEF addCacheTime, addBytes

LEMMA PrepareAndExecuteAsked ==
  ASSUME NEW m, IsMessage(m), m.p = "WritePrepareAndExecute", NEW x \in Metas
  PROVE  Asks(m, Called(m), x)
<1> DEFINE f == One("fc", 41)
           p0 == <<41>>
           b1 == writeInt(3)
           b2 == m.text \o <<0>>
           b3 == <<0>>
           b4 == <<Flag(m.ac)>>
           b5 == <<2>>
           b6 == writeInt(0)
           b7 == writeInt(0)
           b8 == <<>>
           b9 == writeFiller(8)
           b10 == writeInt(0)
           a1 == Arg(b1)
           a2 == Arg(b2)
           a3 == Arg(b3)
           a4 == Arg(b4)
           a5 == Arg(b5)
           a6 == Arg(b6)
           a7 == Arg(b7)
           a8 == Arg(b8)
           a9 == Arg(b9)
           a10 == Arg(b10)
           p1 == p0 \o addBytes(b1)
           p2 == p1 \o addBytes(b2)
           p3 == p2 \o addBytes(b3)
           p4 == p3 \o addBytes(b4)
           p5 == p4 \o addBytes(b5)
           p6 == p5 \o addBytes(b6)
           p7 == p6 \o addBytes(b7)
           p8 == p7 \o addBytes(b8)
           p9 == p8 \o addBytes(b9)
           p10 == p9 \o addBytes(b10)
           ops == Called(m)
<1>1. Bytes(m) \in Seq(Byte)
  BY PacketType
<1>2. Serves(m, ops, p0, <<f>>, x) /\ f \in Field
  <2>1. 41 \in Byte
    BY DEF Byte
  <2> QED
    BY <1>1, <2>1, Serves1
<1>3. /\ b1 \in Sendable
      /\ b2 \in Sendable
      /\ b3 \in Sendable
      /\ b4 \in Sendable
      /\ b5 \in Sendable
      /\ b6 \in Sendable
      /\ b7 \in Sendable
      /\ b8 \in Sendable
      /\ b9 \in Sendable
      /\ b10 \in Sendable
  BY ArgumentKinds, SendableArgs
<1>4. Asked(m) = <<f, a1, a2, a3, a4, a5, a6, a7, a8, a9, a10>>
  BY ArgumentKinds DEF Asked, Number
<1>5. Payload(m) = (((p8 \o writeInt(8)) \o writeInt(0)) \o writeInt(0)) \o addBytes(b10)
  BY ZeroBytes DEF Payload, WritePrepareAndExecute, addInt, addByte, writeNullTermString
<1>6. addBytes(b9) = writeInt(8) \o (writeInt(0) \o writeInt(0))
  BY ZeroBytes
<1> HIDE DEF f, ops, a1, a2, a3, a4, a5, a6, a7, a8, a9, a10, b1, b2, b3, b4, b5, b6, b7, b8, b9, b10, p0, p1, p2, p3, p4, p5, p6, p7, p8, p9, p10
<1>7. Serves(m, ops, p1, <<f, a1>>, x) /\ a1 \in Field
  BY <1>1, <1>2, <1>3, Serves2 DEF p1, a1
<1>8. Serves(m, ops, p2, <<f, a1, a2>>, x) /\ a2 \in Field
  BY <1>1, <1>2, <1>7, <1>3, Serves3 DEF p2, a2
<1>9. Serves(m, ops, p3, <<f, a1, a2, a3>>, x) /\ a3 \in Field
  BY <1>1, <1>2, <1>7, <1>8, <1>3, Serves4 DEF p3, a3
<1>10. Serves(m, ops, p4, <<f, a1, a2, a3, a4>>, x) /\ a4 \in Field
  BY <1>1, <1>2, <1>7, <1>8, <1>9, <1>3, Serves5 DEF p4, a4
<1>11. Serves(m, ops, p5, <<f, a1, a2, a3, a4, a5>>, x) /\ a5 \in Field
  BY <1>1, <1>2, <1>7, <1>8, <1>9, <1>10, <1>3, Serves6 DEF p5, a5
<1>12. Serves(m, ops, p6, <<f, a1, a2, a3, a4, a5, a6>>, x) /\ a6 \in Field
  BY <1>1, <1>2, <1>7, <1>8, <1>9, <1>10, <1>11, <1>3, Serves7 DEF p6, a6
<1>13. Serves(m, ops, p7, <<f, a1, a2, a3, a4, a5, a6, a7>>, x) /\ a7 \in Field
  BY <1>1, <1>2, <1>7, <1>8, <1>9, <1>10, <1>11, <1>12, <1>3, Serves8 DEF p7, a7
<1>14. Serves(m, ops, p8, <<f, a1, a2, a3, a4, a5, a6, a7, a8>>, x) /\ a8 \in Field
  BY <1>1, <1>2, <1>7, <1>8, <1>9, <1>10, <1>11, <1>12, <1>13, <1>3, Serves9 DEF p8, a8
<1>15. Serves(m, ops, p9, <<f, a1, a2, a3, a4, a5, a6, a7, a8, a9>>, x) /\ a9 \in Field
  BY <1>1, <1>2, <1>7, <1>8, <1>9, <1>10, <1>11, <1>12, <1>13, <1>14, <1>3, Serves10 DEF p9, a9
<1>16. Serves(m, ops, p10, <<f, a1, a2, a3, a4, a5, a6, a7, a8, a9, a10>>, x) /\ a10 \in Field
  BY <1>1, <1>2, <1>7, <1>8, <1>9, <1>10, <1>11, <1>12, <1>13, <1>14, <1>15, <1>3, Serves11 DEF p10, a10
<1>17. ((p8 \o writeInt(8)) \o writeInt(0)) \o writeInt(0) = p9
  <2> DEFINE u == writeInt(8)
             v == writeInt(0)
  <2>1. p8 \in Seq(Byte)
    BY <1>14 DEF Serves
  <2>2. u \in Seq(Byte) /\ v \in Seq(Byte)
    <3>1. 8 \in Int /\ 0 \in Int
      OBVIOUS
    <3> QED
      BY <3>1, WordType
  <2> HIDE DEF u, v
  <2>3. p8 \o u \in Seq(Byte)
    BY <2>1, <2>2, ConcatProperties
  <2>4. ((p8 \o u) \o v) \o v = (p8 \o u) \o (v \o v)
    BY <2>2, <2>3, BytesAssoc
  <2>5. v \o v \in Seq(Byte)
    BY <2>2, ConcatProperties
  <2>6. (p8 \o u) \o (v \o v) = p8 \o (u \o (v \o v))
    BY <2>1, <2>2, <2>5, BytesAssoc
  <2> QED
    BY <1>6, <2>4, <2>6 DEF p9, u, v
<1>18. Payload(m) = p10
  BY <1>5, <1>17 DEF p10
<1> QED
  BY <1>4, <1>16, <1>18 DEF Asks, ops

\* The bind parameters of a request.
LEMMA ParamsAre ==
  ASSUME NEW m, IsMessage(m)
  PROVE  /\ m.args \in Seq(GoodArgs)
         /\ encodeBindParams(m.args) = FlattenSeq(Each(Encoding, m.args))
         /\ [i \in DOMAIN m.args |-> ParamValue(m.args[i])] = Each(Meaning, m.args)
<1> DEFINE args == m.args
<1>1. args \in Seq(Arg32) /\ \A j \in DOMAIN args : IsArg(args[j])
  BY MessageType
<1> HIDE DEF args
<1>2. \A j \in DOMAIN args : args[j] \in GoodArgs
  <2>1. \A j \in DOMAIN args : args[j] \in Arg32
    BY <1>1
  <2> QED
    BY <1>1, <2>1 DEF GoodArgs
<1>3. args \in Seq(GoodArgs)
  <2>1. DOMAIN args = 1..Len(args) /\ Len(args) \in Nat /\ args = [i \in 1..Len(args) |-> args[i]]
    BY <1>1
  <2>2. [i \in 1..Len(args) |-> args[i]] \in Seq(GoodArgs)
    BY <1>2, <2>1
  <2> QED
    BY <2>1, <2>2
<1>4. [i \in DOMAIN args |-> encodeOneParam(args[i])] = Each(Encoding, args)
  BY <1>2 DEF Each, Encoding
<1>5. [i \in DOMAIN args |-> ParamValue(args[i])] = Each(Meaning, args)
  BY <1>2 DEF Each, Meaning
<1> QED
  BY <1>3, <1>4, <1>5 DEF encodeBindParams, args

LEMMA Longer ==
  ASSUME NEW u \in Seq(Byte), NEW v \in Seq(Byte)
  PROVE  u \o v \in Seq(Byte) /\ Len(u) <= Len(u \o v) /\ Len(v) <= Len(u \o v)
<1>1. u \o v \in Seq(Byte) /\ Len(u \o v) = Len(u) + Len(v)
  BY Joined
<1>2. Len(u) \in Nat /\ Len(v) \in Nat
  OBVIOUS
<1> QED
  BY <1>1, <1>2

\* The bytes w are in u.
Within(w, u) == w \in Seq(Byte) /\ u \in Seq(Byte) /\ Len(w) <= Len(u)

LEMMA WithinMore ==
  ASSUME NEW w, NEW u, NEW v \in Seq(Byte), Within(w, u)
  PROVE  Within(w, u \o v) /\ Within(w, v \o u)
<1>1. w \in Seq(Byte) /\ u \in Seq(Byte) /\ Len(w) <= Len(u) /\ Len(w) \in Nat
  BY DEF Within
<1>2. u \o v \in Seq(Byte) /\ Len(u) <= Len(u \o v)
  BY <1>1, Longer
<1>3. v \o u \in Seq(Byte) /\ Len(u) <= Len(v \o u)
  BY <1>1, Longer
<1>4. Len(u) \in Nat /\ Len(u \o v) \in Nat /\ Len(v \o u) \in Nat
  BY <1>1, <1>2, <1>3
<1>5. Len(w) <= Len(u \o v)
  BY <1>1, <1>2, <1>4
<1>6. Len(w) <= Len(v \o u)
  BY <1>1, <1>3, <1>4
<1> QED
  BY <1>1, <1>2, <1>3, <1>5, <1>6 DEF Within

\* The packet of a request is its header and its payload, and has a length.
Header(m) == writeInt(Len(Payload(m))) \o writeFiller(4)

LEMMA RequestPacket ==
  ASSUME NEW m, IsMessage(m), m.p \in Writers, m.p # "WriteOpenDatabase"
  PROVE  /\ Payload(m) \in Seq(Byte) /\ Header(m) \in Seq(Byte)
         /\ Bytes(m) = Header(m) \o Payload(m) /\ Len(Bytes(m)) = 8 + Len(Payload(m))
         /\ Len(Bytes(m)) \in Nat /\ Len(Bytes(m)) <= MaxLen /\ Len(Payload(m)) \in Number32
<1> DEFINE q == Payload(m)
           l == writeInt(Len(q))
           z == writeFiller(4)
<1>1. q \in Seq(Byte)
  BY PayloadType
<1>2. m.p \notin Parsers /\ Len(Bytes(m)) <= MaxLen
  BY DEF Parsers, Writers, IsMessage
<1>3. Bytes(m) = (l \o z) \o q
  BY <1>2 DEF Bytes, buildProtocolHeader
<1> HIDE DEF q
<1>4. Len(q) \in Nat /\ Len(q) \in Int
  BY <1>1
<1>5. l \in Seq(Byte) /\ Len(l) = 4
  BY <1>4, WordType
<1>6. z \in Seq(Byte) /\ Len(z) = 4
  <2>1. 4 \in Nat
    OBVIOUS
  <2> QED
    BY <2>1, FillerType
<1> HIDE DEF l, z
<1>7. l \o z \in Seq(Byte) /\ Len(l \o z) = 8
  <2>1. l \in Seq(Byte) /\ z \in Seq(Byte)
    BY <1>5, <1>6
  <2>2. l \o z \in Seq(Byte) /\ Len(l \o z) = Len(l) + Len(z)
    BY <2>1, Joined
  <2> QED
    BY <1>5, <1>6, <2>2
<1> DEFINE h == l \o z
<1>8. h \in Seq(Byte) /\ Len(h) = 8 /\ Header(m) = h /\ Bytes(m) = h \o q
  BY <1>3, <1>7 DEF Header, l, z, q
<1> HIDE DEF h
<1>9. h \o q \in Seq(Byte) /\ Len(h \o q) = Len(h) + Len(q)
  BY <1>1, <1>8, Joined
<1>10. Len(Bytes(m)) = 8 + Len(q) /\ Len(Bytes(m)) \in Nat
  BY <1>4, <1>8, <1>9
<1>11. Len(q) <= MaxInt
  BY <1>2, <1>4, <1>10, SMT DEF MaxLen, MaxInt
<1>12. Len(q) \in Number32
  BY <1>4, <1>11, LengthType
<1> QED
  BY <1>1, <1>2, <1>8, <1>10, <1>12 DEF q

\* The last argument to have been put in front.
LEMMA SnocJoin ==
  ASSUME NEW S, NEW h \in Seq(S), NEW t \in Seq(S), NEW u \in Seq(S), NEW a \in S, t \o <<a>> = u
  PROVE  (h \o t) \o <<a>> = h \o u
<1>1. <<a>> \in Seq(S)
  OBVIOUS
<1>2. (h \o t) \o <<a>> = h \o (t \o <<a>>)
  BY <1>1, Assoc, SMTT(40)
<1> QED
  BY <1>2

\* What FC=3 starts with.
Binds == <<GetArg, GetArg, GetArg, GetArg, GetInt("bindLen")>>
Executes(m) == (<<GetByte("fc")>> \o Binds) \o <<Args(m)>>
Code3(m) == (((<<3>> \o addBytes(writeInt(m.h))) \o addBytes(<<0>>)) \o addBytes(writeInt(0))) \o addBytes(writeInt(0))
Params(m) == [i \in DOMAIN m.args |-> ParamValue(m.args[i])]

LEMMA ExecuteStarts ==
  ASSUME NEW m, IsMessage(m), NEW x \in Metas
  PROVE  Reads(m, <<GetByte("fc"), GetArg, GetArg, GetArg, GetArg>>, Code3(m),
               <<One("fc", 3), Number(m.h), Arg(<<0>>), Number(0), Number(0)>>, x, x)
<1> DEFINE o == GetByte("fc")
           a == GetArg
           f == One("fc", 3)
           b1 == writeInt(m.h)
           b2 == <<0>>
           b3 == writeInt(0)
           f1 == Arg(b1)
           f2 == Arg(b2)
           f3 == Arg(b3)
           p0 == <<3>>
           p1 == p0 \o addBytes(b1)
           p2 == p1 \o addBytes(b2)
           p3 == p2 \o addBytes(b3)
           p4 == p3 \o addBytes(b3)
<1>1. b1 \in Sendable /\ b2 \in Sendable /\ b3 \in Sendable
  BY ArgumentKinds, SendableArgs
<1>2. o \in SoundEntries /\ a \in SoundEntries
  BY ReadKinds, IntOf DEF PlainNames, GetArg
<1>3. Reads(m, <<o>>, p0, <<f>>, x, x) /\ f \in Field
  <2>1. 3 \in Byte
    BY DEF Byte
  <2> QED
    BY <2>1, FcReads
<1>4. /\ Code3(m) = p4 /\ f1 = Number(m.h) /\ f2 = Arg(<<0>>) /\ f3 = Number(0)
  BY DEF Code3, Number
<1> HIDE DEF o, a, f, b1, b2, b3, f1, f2, f3, p0, p1, p2, p3, p4
<1>5. ASSUME NEW b \in Sendable PROVE Reads(m, <<a>>, addBytes(b), <<Arg(b)>>, x, x) /\ Arg(b) \in Field
  <2>1. b \in Seq(Byte) /\ Len(b) <= MaxInt
    BY DEF Sendable
  <2>2. Reads(m, <<a>>, addBytes(b), <<Arg(b)>>, x, x)
    BY <2>1, ArgReads DEF a
  <2> DEFINE s == <<Arg(b)>>
  <2>3. s \in Seq(Field)
    BY <2>2 DEF Reads
  <2>4. 1 \in 1..Len(s) /\ s[1] = Arg(b)
    OBVIOUS
  <2> HIDE DEF s
  <2>5. Arg(b) \in Field
    BY <2>3, <2>4
  <2> QED
    BY <2>2, <2>5
<1>6. /\ Reads(m, <<a>>, addBytes(b1), <<f1>>, x, x) /\ f1 \in Field
      /\ Reads(m, <<a>>, addBytes(b2), <<f2>>, x, x) /\ f2 \in Field
      /\ Reads(m, <<a>>, addBytes(b3), <<f3>>, x, x) /\ f3 \in Field
  BY <1>1, <1>5 DEF f1, f2, f3
<1>7. Reads(m, <<o, a>>, p1, <<f, f1>>, x, x)
  <2>1. <<o>> \o <<a>> = <<o, a>>
    BY <1>2, TwoJoin
  <2>2. <<f>> \o <<f1>> = <<f, f1>>
    BY <1>3, <1>6, TwoJoin
  <2>3. Reads(m, <<o>> \o <<a>>, p1, <<f>> \o <<f1>>, x, x)
    BY <1>3, <1>6, ReadsJoin DEF p1
  <2> QED
    BY <2>1, <2>2, <2>3
<1>8. Reads(m, <<o, a, a>>, p2, <<f, f1, f2>>, x, x)
  <2>1. <<o, a>> \o <<a>> = <<o, a, a>>
    BY <1>2, ThreeJoin
  <2>2. <<f, f1>> \o <<f2>> = <<f, f1, f2>>
    BY <1>3, <1>6, ThreeJoin
  <2>3. Reads(m, <<o, a>> \o <<a>>, p2, <<f, f1>> \o <<f2>>, x, x)
    BY <1>6, <1>7, ReadsJoin DEF p2
  <2> QED
    BY <2>1, <2>2, <2>3
<1>9. Reads(m, <<o, a, a, a>>, p3, <<f, f1, f2, f3>>, x, x)
  <2>1. <<o, a, a>> \o <<a>> = <<o, a, a, a>>
    BY <1>2, FourJoin
  <2>2. <<f, f1, f2>> \o <<f3>> = <<f, f1, f2, f3>>
    BY <1>3, <1>6, FourJoin
  <2>3. Reads(m, <<o, a, a>> \o <<a>>, p3, <<f, f1, f2>> \o <<f3>>, x, x)
    BY <1>6, <1>8, ReadsJoin DEF p3
  <2> QED
    BY <2>1, <2>2, <2>3
<1>10. Reads(m, <<o, a, a, a, a>>, p4, <<f, f1, f2, f3, f3>>, x, x)
  <2>1. <<o, a, a, a>> \o <<a>> = <<o, a, a, a, a>>
    BY <1>2, FiveJoin
  <2>2. <<f, f1, f2, f3>> \o <<f3>> = <<f, f1, f2, f3, f3>>
    BY <1>3, <1>6, FiveJoin
  <2>3. Reads(m, <<o, a, a, a>> \o <<a>>, p4, <<f, f1, f2, f3>> \o <<f3>>, x, x)
    BY <1>6, <1>9, ReadsJoin DEF p4
  <2> QED
    BY <2>1, <2>2, <2>3
<1> QED
  BY <1>4, <1>10 DEF o, a, f, p4, f1, f2, f3

LEMMA ExecuteBinds ==
  ASSUME NEW m, IsMessage(m), Len(encodeBindParams(m.args)) <= MaxInt, NEW x \in Metas
  PROVE  Serves(m, Executes(m), Code3(m) \o addBytes(encodeBindParams(m.args)),
                <<One("fc", 3), Number(m.h), Arg(<<0>>), Number(0), Number(0)>> \o Params(m), x)
<1> DEFINE w == encodeBindParams(m.args)
           g == Params(m)
           o == GetByte("fc")
           a == GetArg
           b == GetInt("bindLen")
           five == <<One("fc", 3), Number(m.h), Arg(<<0>>), Number(0), Number(0)>>
<1>1. Bytes(m) \in Seq(Byte)
  BY PacketType
<1>2. m.args \in Seq(GoodArgs) /\ w = FlattenSeq(Each(Encoding, m.args)) /\ g = Each(Meaning, m.args)
  BY ParamsAre DEF Params
<1>3. ASSUME NEW r \in Seq(Byte) PROVE Repeats(m, r, "paramSize", w, g, x)
  <2>1. Repeats(m, r, "paramSize", FlattenSeq(Each(Encoding, m.args)), Each(Meaning, m.args), x)
    BY <1>1, <1>2, ParamsRepeat
  <2> QED
    BY <1>2, <2>1
<1>4. w \in Seq(Byte) /\ g \in Seq(Field)
  <2>1. <<>> \in Seq(Byte)
    OBVIOUS
  <2>2. Repeats(m, <<>>, "paramSize", w, g, x)
    BY <1>3, <2>1
  <2> QED
    BY <2>2 DEF Repeats
<1>5. Len(w) \in Number32
  <2>1. Len(w) \in Nat /\ Len(w) <= MaxInt
    BY <1>4
  <2> QED
    BY <2>1, LengthType
<1>6. Reads(m, <<o, a, a, a, a>>, Code3(m), five, x, x)
  BY ExecuteStarts
<1>7. o \in SoundEntries /\ a \in SoundEntries /\ b \in SoundEntries
  BY ReadKinds, IntOf DEF PlainNames, GetArg
<1>8. Executes(m) = (<<o>> \o <<a, a, a, a, b>>) \o <<Args(m)>>
  BY DEF Executes, Binds
<1> HIDE DEF w, g, o, a, five
<1>9. Reads(m, <<b>>, addBytes(w), g, x, x)
  BY <1>1, <1>3, <1>4, <1>5, BindReads
<1> HIDE DEF b
<1>10. Reads(m, <<o, a, a, a, a>> \o <<b>>, Code3(m) \o addBytes(w), five \o g, x, x)
  BY <1>6, <1>9, ReadsJoin
<1>11. <<o, a, a, a, a>> \o <<b>> = <<o>> \o <<a, a, a, a, b>>
  <2>1. <<o, a, a, a, a>> \o <<b>> = <<o, a, a, a, a, b>>
    BY <1>7, SixJoin
  <2>2. <<o>> \o <<a, a, a, a, b>> = <<o, a, a, a, a, b>>
    <3> DEFINE s == <<o>>
               t == <<a, a, a, a, b>>
               u == <<o, a, a, a, a, b>>
    <3>1. s \in Ops /\ t \in Ops /\ u \in Ops
      BY <1>7 DEF Ops
    <3>2. Len(u) = Len(s) + Len(t)
      OBVIOUS
    <3>3. (\A n \in 1..Len(s) : u[n] = s[n]) /\ \A n \in 1..Len(t) : u[Len(s) + n] = t[n]
      OBVIOUS
    <3> HIDE DEF s, t, u
    <3>4. s \o t = u
      BY <3>1, <3>2, <3>3, SameSequence DEF Ops
    <3> QED
      BY <3>4 DEF s, t, u
  <2> QED
    BY <2>1, <2>2
<1>12. Reads(m, <<o>> \o <<a, a, a, a, b>>, Code3(m) \o addBytes(w), five \o g, x, x)
  BY <1>10, <1>11
<1> DEFINE q == <<o>> \o <<a, a, a, a, b>>
           p == Code3(m) \o addBytes(w)
           f == five \o g
<1>13. Reads(m, q, p, f, x, x)
  BY <1>12
<1> HIDE DEF q, p, f
<1>14. Serves(m, q \o <<Args(m)>>, p, f, x)
  BY <1>1, <1>13, ServesStart
<1> QED
  BY <1>8, <1>14 DEF q, p, f, w, g, five

LEMMA ExecuteAsked ==
  ASSUME NEW m, IsMessage(m), m.p = "WriteExecute", NEW x \in Metas
  PROVE  Asks(m, Executes(m), x)
<1> DEFINE w == encodeBindParams(m.args)
           c == Code3(m)
           F == Flag(m.stmt = StmtSelect)
           b1 == <<F>>
           b2 == <<Flag(m.ac)>>
           b3 == <<1>>
           b4 == writeFiller(8)
           b5 == writeInt(0)
           p == c \o addBytes(w)
           p1 == p \o addBytes(b1)
           p2 == p1 \o addBytes(b2)
           p3 == p2 \o addBytes(b3)
           p4 == p3 \o addBytes(b4)
           p5 == p4 \o addBytes(b5)
           a1 == Arg(b1)
           a2 == Arg(b2)
           a3 == Arg(b3)
           a4 == Arg(b4)
           a5 == Arg(b5)
           g == <<One("fc", 3), Number(m.h), Arg(<<0>>), Number(0), Number(0)>> \o Params(m)
           ops == Executes(m)
<1>1. Bytes(m) \in Seq(Byte)
  BY PacketType
<1>2. b1 \in Sendable /\ b2 \in Sendable /\ b3 \in Sendable /\ b4 \in Sendable /\ b5 \in Sendable
  BY ArgumentKinds, SendableArgs
<1>3. w \in Seq(Byte) /\ c \in Seq(Byte)
  <2>1. Reads(m, <<GetByte("fc"), GetArg, GetArg, GetArg, GetArg>>, c,
               <<One("fc", 3), Number(m.h), Arg(<<0>>), Number(0), Number(0)>>, x, x)
    BY ExecuteStarts
  <2> QED
    BY <2>1, BindParamsType DEF Reads
<1>4. Payload(m) = (((((p \o writeInt(1)) \o b1) \o addBytes(b2)) \o addBytes(b3)) \o addBytes(b4)) \o addBytes(b5)
  BY ZeroBytes DEF Payload, WriteExecute, Code3, addInt, addByte
<1>5. addBytes(b1) = writeInt(1) \o b1
  <2>1. Len(b1) = 1
    OBVIOUS
  <2> QED
    BY <2>1 DEF addBytes
<1>6. Asked(m) = g \o <<a1, a2, a3, a4, a5>>
  BY ArgumentKinds DEF Asked, Number, Params, Flag
<1> HIDE DEF w, c, F, b1, b2, b3, b4, b5, p, p1, p2, p3, p4, p5, a1, a2, a3, a4, a5, g, ops
<1>7. /\ addBytes(b1) \in Seq(Byte) /\ addBytes(b2) \in Seq(Byte) /\ addBytes(b3) \in Seq(Byte)
      /\ addBytes(b4) \in Seq(Byte) /\ addBytes(b5) \in Seq(Byte) /\ addBytes(w) \in Seq(Byte)
      /\ b1 \in Seq(Byte) /\ writeInt(1) \in Seq(Byte)
  BY <1>2, <1>3, BytesType, Constants DEF Sendable
<1>8. p \in Seq(Byte)
  BY <1>3, <1>7, ConcatProperties DEF p
<1>9. (p \o writeInt(1)) \o b1 = p1
  <2> DEFINE u == writeInt(1)
  <2>1. p \in Seq(Byte) /\ u \in Seq(Byte) /\ b1 \in Seq(Byte)
    BY <1>7, <1>8
  <2> HIDE DEF u
  <2>2. (p \o u) \o b1 = p \o (u \o b1)
    BY <2>1, BytesAssoc
  <2> QED
    BY <1>5, <2>2 DEF p1, u
<1>10. Payload(m) = p5
  BY <1>4, <1>9 DEF p2, p3, p4, p5
<1>11. Len(w) <= MaxInt
  <2>1. Within(w, w)
    <3>1. Len(w) \in Nat
      BY <1>3
    <3> QED
      BY <1>3, <3>1 DEF Within
  <2>2. Within(w, addBytes(w))
    <3>1. Len(w) \in Int
      BY <1>3
    <3>2. writeInt(Len(w)) \in Seq(Byte)
      BY <3>1, WordType
    <3> DEFINE l == writeInt(Len(w))
    <3>3. l \in Seq(Byte) /\ addBytes(w) = l \o w
      BY <3>2 DEF addBytes
    <3> HIDE DEF l
    <3> QED
      BY <2>1, <3>3, WithinMore
  <2>3. Within(w, p)
    BY <1>3, <2>2, WithinMore DEF p
  <2>4. Within(w, p1)
    BY <1>7, <2>3, WithinMore DEF p1
  <2>5. Within(w, p2)
    BY <1>7, <2>4, WithinMore DEF p2
  <2>6. Within(w, p3)
    BY <1>7, <2>5, WithinMore DEF p3
  <2>7. Within(w, p4)
    BY <1>7, <2>6, WithinMore DEF p4
  <2>8. Within(w, p5)
    BY <1>7, <2>7, WithinMore DEF p5
  <2>9. m.p \in Writers /\ m.p # "WriteOpenDatabase"
    BY DEF Writers
  <2>10. Len(Payload(m)) \in Number32
    BY <2>9, RequestPacket
  <2>11. Len(w) <= Len(p5) /\ Len(p5) \in Number32 /\ Len(w) \in Nat
    BY <1>3, <1>10, <2>8, <2>10 DEF Within
  <2>12. Len(p5) \in Int /\ Len(p5) <= MaxInt /\ MaxInt \in Int
    <3> DEFINE n == Len(p5)
    <3>1. n \in Number32
      BY <2>11
    <3> HIDE DEF n
    <3>2. n \in Int /\ n <= MaxInt /\ MaxInt \in Int
      BY <3>1, Bounds
    <3> QED
      BY <3>2 DEF n
  <2> QED
    BY <2>11, <2>12
<1>12. Serves(m, ops, p, g, x)
  BY <1>11, ExecuteBinds DEF w, c, p, g, ops
<1>13. Serves(m, ops, p1, g \o <<a1>>, x) /\ a1 \in Field
  BY <1>1, <1>2, <1>12, ServesArg DEF p1, a1
<1>14. Serves(m, ops, p2, (g \o <<a1>>) \o <<a2>>, x) /\ a2 \in Field
  BY <1>1, <1>2, <1>13, ServesArg DEF p2, a2
<1>15. (g \o <<a1>>) \o <<a2>> = g \o <<a1, a2>>
  <2>1. g \in Seq(Field) /\ <<a1>> \in Seq(Field) /\ <<a1, a2>> \in Seq(Field)
    BY <1>12, <1>13, <1>14 DEF Serves
  <2>2. <<a1>> \o <<a2>> = <<a1, a2>>
    BY <1>13, <1>14, TwoJoin
  <2> QED
    BY <1>14, <2>1, <2>2, SnocJoin
<1>16. Serves(m, ops, p3, (g \o <<a1, a2>>) \o <<a3>>, x) /\ a3 \in Field
  BY <1>1, <1>2, <1>14, <1>15, ServesArg DEF p3, a3
<1>17. (g \o <<a1, a2>>) \o <<a3>> = g \o <<a1, a2, a3>>
  <2>1. g \in Seq(Field) /\ <<a1, a2>> \in Seq(Field) /\ <<a1, a2, a3>> \in Seq(Field)
    BY <1>12, <1>13, <1>14, <1>16 DEF Serves
  <2>2. <<a1, a2>> \o <<a3>> = <<a1, a2, a3>>
    BY <1>13, <1>14, <1>16, ThreeJoin
  <2> QED
    BY <1>16, <2>1, <2>2, SnocJoin
<1>18. Serves(m, ops, p4, (g \o <<a1, a2, a3>>) \o <<a4>>, x) /\ a4 \in Field
  BY <1>1, <1>2, <1>16, <1>17, ServesArg DEF p4, a4
<1>19. (g \o <<a1, a2, a3>>) \o <<a4>> = g \o <<a1, a2, a3, a4>>
  <2>1. g \in Seq(Field) /\ <<a1, a2, a3>> \in Seq(Field) /\ <<a1, a2, a3, a4>> \in Seq(Field)
    BY <1>12, <1>13, <1>14, <1>16, <1>18 DEF Serves
  <2>2. <<a1, a2, a3>> \o <<a4>> = <<a1, a2, a3, a4>>
    BY <1>13, <1>14, <1>16, <1>18, FourJoin
  <2> QED
    BY <1>18, <2>1, <2>2, SnocJoin
<1>20. Serves(m, ops, p5, (g \o <<a1, a2, a3, a4>>) \o <<a5>>, x) /\ a5 \in Field
  BY <1>1, <1>2, <1>18, <1>19, ServesArg DEF p5, a5
<1>21. (g \o <<a1, a2, a3, a4>>) \o <<a5>> = g \o <<a1, a2, a3, a4, a5>>
  <2>1. g \in Seq(Field) /\ <<a1, a2, a3, a4>> \in Seq(Field) /\ <<a1, a2, a3, a4, a5>> \in Seq(Field)
    BY <1>12, <1>13, <1>14, <1>16, <1>18, <1>20 DEF Serves
  <2>2. <<a1, a2, a3, a4>> \o <<a5>> = <<a1, a2, a3, a4, a5>>
    BY <1>13, <1>14, <1>16, <1>18, <1>20, FiveJoin
  <2> QED
    BY <1>20, <2>1, <2>2, SnocJoin
<1> QED
  BY <1>6, <1>10, <1>20, <1>21 DEF Asks, ops

\* The open request is four fields of fixed length.
Opened(m, g, x) ==
  /\ Reads(m, ReadOpenDatabase, Bytes(m), g, x, x)
  /\ Len(Bytes(m)) = 628 /\ NamesIn(g, m)

LEMMA OpenRequest ==
  ASSUME NEW m, IsMessage(m), m.p = "WriteOpenDatabase", NEW x \in Metas
  PROVE  \E g : Opened(m, g, x)
<1> DEFINE a == writeFixedString(m.text, 32)
           b == writeFixedString(m.user, 32)
           c == writeFixedString(m.password, 32)
           z == writeFiller(532)
           o == GetRaw(32, "fixed")
           e == GetRaw(532, "")
           fa == <<"fixed", a>>
           fb == <<"fixed", b>>
           fc == <<"fixed", c>>
<1>1. /\ a \in Seq(Byte) /\ Len(a) = 32 /\ b \in Seq(Byte) /\ Len(b) = 32 /\ c \in Seq(Byte) /\ Len(c) = 32
      /\ InField(a, m.text) /\ InField(b, m.user) /\ InField(c, m.password)
  <2>1. m.text \in Seq(Byte) /\ m.user \in Seq(Byte) /\ m.password \in Seq(Byte)
    BY MessageType
  <2> QED
    BY <2>1, FixedString
<1>2. z \in Seq(Byte) /\ Len(z) = 532
  <2> DEFINE n == 532
  <2>1. n \in Nat
    OBVIOUS
  <2> HIDE DEF n
  <2>2. writeFiller(n) \in Seq(Byte) /\ Len(writeFiller(n)) = n
    BY <2>1, FillerType
  <2> QED
    BY <2>2 DEF n
<1>3. Bytes(m) = (((a \o b) \o c) \o writeFiller(512)) \o writeFiller(20)
  BY DEF Bytes, WriteOpenDatabase, Parsers
<1>4. writeFiller(512) \o writeFiller(20) = z
  <2> DEFINE i == 512
             j == 20
  <2>1. i \in Nat /\ j \in Nat /\ i + j = 532
    OBVIOUS
  <2> HIDE DEF i, j
  <2>2. writeFiller(i) \o writeFiller(j) = writeFiller(i + j)
    BY <2>1, FillersJoin
  <2> QED
    BY <2>1, <2>2 DEF i, j
<1>5. writeFiller(512) \in Seq(Byte) /\ writeFiller(20) \in Seq(Byte)
  <2>1. 512 \in Nat /\ 20 \in Nat
    OBVIOUS
  <2> QED
    BY <2>1, FillerType
<1>6. "fixed" \in PlainNames /\ "fixed" \notin {"proto", "errMsg"} /\ "fixed" \notin FineNames /\ "" \in PlainNames
  BY DEF PlainNames, FineNames
<1>7. \A w : Fields("fixed", w) = <<<<"fixed", w>>>>
  BY DEF Fields, Dropped
<1>8. o \in SoundEntries /\ e \in SoundEntries
  <2>1. 32 \in Nat /\ 532 \in Nat
    OBVIOUS
  <2> QED
    BY <1>6, <2>1, ReadKinds
<1>9. ReadOpenDatabase = <<o, o, o, e>>
  BY DEF ReadOpenDatabase
<1> HIDE DEF a, b, c, z
<1>10. ASSUME NEW w \in Seq(Byte), Len(w) = 32 PROVE Reads(m, <<o>>, w, <<<<"fixed", w>>>>, x, x)
  <2>1. Reads(m, <<GetRaw(32, "fixed")>>, w, Fields("fixed", w), x, x)
    BY <1>6, <1>10, RawReads
  <2> QED
    BY <1>7, <2>1
<1>11. Reads(m, <<o>>, a, <<fa>>, x, x) /\ Reads(m, <<o>>, b, <<fb>>, x, x) /\ Reads(m, <<o>>, c, <<fc>>, x, x)
  BY <1>1, <1>10
<1>12. Reads(m, <<e>>, z, <<>>, x, x)
  <2>1. Reads(m, <<GetRaw(Len(z), "")>>, z, <<>>, x, x)
    BY <1>2, SkipReads
  <2> QED
    BY <1>2, <2>1
<1> HIDE DEF o, e
<1> DEFINE k == (a \o b) \o c
<1>13. Reads(m, <<o>> \o <<o>>, a \o b, <<fa>> \o <<fb>>, x, x)
  BY <1>11, ReadsJoin
<1>14. Reads(m, (<<o>> \o <<o>>) \o <<o>>, k, (<<fa>> \o <<fb>>) \o <<fc>>, x, x)
  BY <1>11, <1>13, ReadsJoin
<1>15. Reads(m, ((<<o>> \o <<o>>) \o <<o>>) \o <<e>>, k \o z, (<<fa>> \o <<fb>>) \o <<fc>>, x, x)
  BY <1>12, <1>14, ReadsQuiet
<1>16. ((<<o>> \o <<o>>) \o <<o>>) \o <<e>> = <<o, o, o, e>>
  <2>1. <<o>> \o <<o>> = <<o, o>>
    BY <1>8, TwoJoin
  <2>2. <<o, o>> \o <<o>> = <<o, o, o>>
    BY <1>8, ThreeJoin
  <2>3. <<o, o, o>> \o <<e>> = <<o, o, o, e>>
    BY <1>8, FourJoin
  <2> QED
    BY <2>1, <2>2, <2>3
<1>17. k \in Seq(Byte) /\ Len(k) = 96
  <2>0. a \in Seq(Byte) /\ b \in Seq(Byte) /\ c \in Seq(Byte)
    BY <1>1
  <2>1. a \o b \in Seq(Byte) /\ Len(a \o b) = Len(a) + Len(b)
    BY <2>0, Joined
  <2> DEFINE d == a \o b
  <2>2. d \in Seq(Byte) /\ Len(d) = 64
    BY <1>1, <2>1
  <2> HIDE DEF d
  <2>3. d \o c \in Seq(Byte) /\ Len(d \o c) = Len(d) + Len(c)
    <3>1. d \in Seq(Byte)
      BY <2>2
    <3> QED
      BY <2>0, <3>1, Joined
  <2>4. Len(d \o c) = 96
    BY <1>1, <2>2, <2>3
  <2> QED
    BY <2>3, <2>4 DEF d
<1> HIDE DEF k
<1>18. k \o z \in Seq(Byte) /\ Len(k \o z) = 628
  <2>1. k \in Seq(Byte) /\ z \in Seq(Byte)
    BY <1>2, <1>17
  <2>2. k \o z \in Seq(Byte) /\ Len(k \o z) = Len(k) + Len(z)
    BY <2>1, Joined
  <2> QED
    BY <1>2, <1>17, <2>2
<1>19. Bytes(m) = k \o z
  <2> DEFINE u == writeFiller(512)
             v == writeFiller(20)
  <2>1. k \in Seq(Byte) /\ u \in Seq(Byte) /\ v \in Seq(Byte)
    BY <1>5, <1>17
  <2>2. Bytes(m) = (k \o u) \o v /\ u \o v = z
    BY <1>3, <1>4 DEF k
  <2> HIDE DEF u, v
  <2>3. (k \o u) \o v = k \o (u \o v)
    BY <2>1, BytesAssoc
  <2> QED
    BY <2>2, <2>3
<1> DEFINE g == (<<fa>> \o <<fb>>) \o <<fc>>
<1>20. g = <<fa, fb, fc>>
  <2>1. fa \in Field /\ fb \in Field /\ fc \in Field
    <3>1. ASSUME NEW f, <<f>> \in Seq(Field) PROVE f \in Field
      <4> DEFINE s == <<f>>
      <4>1. 1 \in 1..Len(s) /\ s[1] = f
        OBVIOUS
      <4>2. s[1] \in Field
        BY <3>1, <4>1
      <4> QED
        BY <4>1, <4>2
    <3>2. <<fa>> \in Seq(Field) /\ <<fb>> \in Seq(Field) /\ <<fc>> \in Seq(Field)
      BY <1>11 DEF Reads
    <3> HIDE DEF fa, fb, fc
    <3> QED
      BY <3>1, <3>2
  <2> HIDE DEF fa, fb, fc
  <2>2. <<fa>> \o <<fb>> = <<fa, fb>>
    BY <2>1, TwoJoin
  <2>3. <<fa, fb>> \o <<fc>> = <<fa, fb, fc>>
    BY <2>1, ThreeJoin
  <2> QED
    BY <2>2, <2>3
<1>21. Reads(m, <<o, o, o, e>>, k \o z, g, x, x)
  BY <1>15, <1>16
<1> HIDE DEF g
<1>22. Reads(m, ReadOpenDatabase, Bytes(m), g, x, x) /\ Len(Bytes(m)) = 628
  BY <1>9, <1>18, <1>19, <1>21 DEF o, e
<1>23. NamesIn(g, m)
  <2>1. Len(g) = 3 /\ g[1] = fa /\ g[2] = fb /\ g[3] = fc
    BY <1>20
  <2>2. /\ fa[1] = "fixed" /\ InField(fa[2], m.text) /\ fb[1] = "fixed" /\ InField(fb[2], m.user)
        /\ fc[1] = "fixed" /\ InField(fc[2], m.password)
    BY <1>1
  <2> HIDE DEF fa, fb, fc
  <2> DEFINE s == <<m.text, m.user, m.password>>
  <2>3. s[1] = m.text /\ s[2] = m.user /\ s[3] = m.password
    OBVIOUS
  <2> HIDE DEF s
  <2>4. \A j \in 1..3 : g[j][1] = "fixed" /\ InField(g[j][2], s[j])
    <3> TAKE j \in 1..3
    <3>1. j = 1 \/ j = 2 \/ j = 3
      OBVIOUS
    <3> QED
      BY <2>1, <2>2, <2>3, <3>1
  <2> QED
    BY <2>1, <2>4 DEF NamesIn, s
<1>24. Opened(m, g, x)
  BY <1>22, <1>23 DEF Opened
<1> QED
  BY <1>24

-----------------------------------------------------------------------------
(***************************************************************************)
(* What is sent arrives.  On a connection that is in step the reads that   *)
(* are left always lead to where every byte is used up and what was meant  *)
(* is what was returned; each step takes the first of them.                *)
(***************************************************************************)
Right(m, o) ==
  IF m.p \in Parsers THEN o = Said(m)
  ELSE IF m.p = "WriteOpenDatabase"
       THEN Len(Bytes(m)) = 628 /\ NamesIn(o, m)
       ELSE o = <<One("dataLen", Len(Bytes(m)) - 8)>> \o Asked(m)

Home(m, e) == e \in Situation /\ e.rest = <<>> /\ Right(m, e.out)

InStep == parser = msg.p /\ (msg.p \in Parsers => msg.err = <<>>)

Arriving ==
  InStep =>
    \/ st = "run" /\ Now \in Situation /\ \E e : Home(msg, e) /\ Leads(msg, todo, Now, e)
    \/ st = "done" /\ Home(msg, Now)

LEMMA AnswersStart ==
  ASSUME Succeeds(msg), parser = msg.p, buf = Bytes(msg)
  PROVE  \E e : Home(msg, e) /\ Leads(msg, Program, At(Bytes(msg), <<>>, Start(msg)), e)
<1>1. PICK y : Reads(msg, Program, Bytes(msg), Said(msg), Start(msg), y)
  BY ProgramReads
<1>2. /\ Bytes(msg) \in Seq(Byte) /\ Said(msg) \in Seq(Field) /\ y \in Metas
      /\ \A r \in Seq(Byte), o \in Seq(Field) :
           Leads(msg, Program, At(Bytes(msg) \o r, o, Start(msg)), At(r, o \o Said(msg), y))
  BY <1>1 DEF Reads
<1>3. <<>> \in Seq(Byte) /\ <<>> \in Seq(Field)
  OBVIOUS
<1>4. Leads(msg, Program, At(Bytes(msg) \o <<>>, <<>>, Start(msg)), At(<<>>, <<>> \o Said(msg), y))
  BY <1>2, <1>3
<1>5. Bytes(msg) \o <<>> = Bytes(msg) /\ <<>> \o Said(msg) = Said(msg)
  <2>1. Bytes(msg) \in Seq(Byte) /\ Said(msg) \in Seq(Field)
    BY <1>2
  <2> HIDE <1>2, <1>4
  <2> QED
    BY <2>1, ConcatEmptySeq
<1> DEFINE e == At(<<>>, Said(msg), y)
<1>6. Leads(msg, Program, At(Bytes(msg), <<>>, Start(msg)), e)
  BY <1>4, <1>5
<1>7. e \in Situation
  BY <1>2, <1>3, AtType
<1>8. msg.p \in Parsers
  BY DEF Succeeds
<1>9. Home(msg, e)
  BY <1>7, <1>8 DEF Home, Right, At
<1> QED
  BY <1>6, <1>9

LEMMA ArrivingStarts ==
  ASSUME Init, InStep
  PROVE  /\ Now \in Situation /\ Now = At(Bytes(msg), <<>>, Start(msg))
         /\ IsMessage(msg) /\ buf = Bytes(msg) /\ st = "run" /\ todo = Program
<1>1. IsMessage(msg)
  BY WireAssumption DEF Init
<1>2. buf = Bytes(msg) /\ buf \in Seq(Byte) /\ offset = 0 /\ out = <<>> /\ st = "run" /\ todo = Program
  BY <1>1, PacketType DEF Init
<1>3. Rest = buf
  <2>1. SubSeq(buf, 0 + 1, Len(buf)) = buf
    BY <1>2, SubSeqFull
  <2> QED
    BY <1>2, <2>1 DEF Rest, RestOf
<1>4. meta = Start(msg)
  BY DEF Init, InStep, Start, Known, TypesOf
<1>5. Now = At(Bytes(msg), <<>>, Start(msg))
  BY <1>2, <1>3, <1>4 DEF Now
<1>6. <<>> \in Seq(Field) /\ Start(msg) \in Metas
  BY <1>1, StartType
<1>7. At(buf, <<>>, Start(msg)) \in Situation
  BY <1>2, <1>6, AtType
<1> QED
  BY <1>1, <1>2, <1>5, <1>7

\* A step takes the first of the reads that lead home.
LEMMA ArrivingStep ==
  ASSUME WireType, Arriving, [Next]_vars
  PROVE  Arriving'
<1>1. CASE UNCHANGED vars
  <2>1. msg' = msg /\ parser' = parser /\ buf' = buf /\ offset' = offset /\ todo' = todo /\ meta' = meta
        /\ out' = out /\ st' = st
    BY <1>1 DEF vars
  <2>2. Now' = Now
    BY <2>1 DEF Now, Rest
  <2> QED
    BY <2>1, <2>2 DEF Arriving, InStep
<1>2. CASE Next
  <2>1. msg' = msg /\ parser' = parser
    BY <1>2 DEF Next, parseByte, parseShort, parseInt, parseRawBytes, parseShorts, parseNullTermString, readNil,
                Got, DoLoop, DoUntil, DoInline, Expand, Done, Panic
  <2>2. SUFFICES ASSUME InStep
                 PROVE  \/ st' = "run" /\ Now' \in Situation /\ \E e : Home(msg, e) /\ Leads(msg, todo', Now', e)
                        \/ st' = "done" /\ Home(msg, Now')
    BY <2>1 DEF Arriving, InStep
  <2>3. st = "run"
    BY <1>2, StepKinds DEF Reading, DoLoop, DoUntil, DoInline, Panic, Running, Done
  <2>4. Now \in Situation
    BY <2>2, <2>3 DEF Arriving
  <2>5. PICK e : Home(msg, e) /\ Leads(msg, todo, Now, e)
    BY <2>2, <2>3 DEF Arriving
  <2>6. e \in Situation /\ parser = msg.p
    BY <2>2, <2>5 DEF Home, InStep
  <2>7. \/ todo = <<>> /\ Now = e /\ st' = "done" /\ Now' = Now
        \/ st' = "run" /\ Now' \in Situation /\ Leads(msg, todo', Now', e)
    BY <1>2, <2>3, <2>4, <2>5, <2>6, LeadsStep
  <2> QED
    BY <2>5, <2>7
<1> QED
  BY <1>1, <1>2

LEMMA Arrived ==
  ASSUME WireType, Arriving, InStep, st # "run"
  PROVE  Whole /\ Right(msg, out)
<1>1. st = "done" /\ Home(msg, Now)
  BY DEF Arriving
<1>2. Rest = <<>> /\ Right(msg, out)
  BY <1>1 DEF Home, Now, At
<1>3. Len(Rest) = Len(buf) - offset /\ Len(buf) \in Nat /\ offset \in Nat
  BY PositionNow DEF WireType
<1>4. offset = Len(buf)
  BY <1>2, <1>3
<1> QED
  BY <1>1, <1>2, <1>4 DEF Whole

\* The reads of a request: its header, then what its function takes.
Serving(m) == IF m.p = "WriteExecute" THEN Executes(m) ELSE Called(m)

LEMMA HeaderReads ==
  ASSUME NEW m, IsMessage(m), m.p \in Writers, m.p # "WriteOpenDatabase", NEW x \in Metas
  PROVE  /\ Reads(m, <<GetInt("dataLen"), GetRaw(4, "")>>, Header(m), <<One("dataLen", Len(Bytes(m)) - 8)>>, x, x)
         /\ One("dataLen", Len(Bytes(m)) - 8) \in Field
<1> DEFINE n == Len(Payload(m))
           a == GetInt("dataLen")
           z == writeFiller(4)
           b == GetRaw(4, "")
           f == One("dataLen", n)
<1>1. n \in Number32 /\ Header(m) = writeInt(n) \o z
  BY RequestPacket DEF Header
<1>2. Len(Bytes(m)) - 8 = n
  <2>1. n \in Int /\ Len(Bytes(m)) = 8 + n
    BY <1>1, RequestPacket, Bounds
  <2> QED
    BY <2>1
<1> HIDE DEF n
<1>3. Reads(m, <<a>>, writeInt(n), <<f>>, x, x)
  <2>1. "dataLen" \in PlainNames /\ "dataLen" \notin {"proto", "errMsg"} /\ "dataLen" \notin FineNames
    BY DEF PlainNames, FineNames
  <2>2. Reads(m, <<a>>, writeInt(n), Fields("dataLen", <<n>>), x, x)
    BY <1>1, <2>1, NumberReads
  <2>3. Fields("dataLen", <<n>>) = <<f>>
    BY DEF Fields, Dropped, One
  <2> QED
    BY <2>2, <2>3
<1>4. f \in Field
  <2> DEFINE s == <<f>>
  <2>1. s \in Seq(Field)
    BY <1>3 DEF Reads
  <2>2. 1 \in 1..Len(s) /\ s[1] = f
    OBVIOUS
  <2> HIDE DEF s
  <2> QED
    BY <2>1, <2>2
<1>5. 4 \in Nat
  OBVIOUS
<1>6. z \in Seq(Byte) /\ Len(z) = 4
  BY <1>5, FillerType
<1>7. Reads(m, <<b>>, z, <<>>, x, x)
  <2> HIDE DEF z
  <2>1. Reads(m, <<GetRaw(Len(z), "")>>, z, <<>>, x, x)
    BY <1>6, SkipReads
  <2> QED
    BY <1>6, <2>1
<1>8. a \in SoundEntries /\ b \in SoundEntries
  BY <1>5, ReadKinds DEF PlainNames, ByteNames
<1> HIDE DEF a, b, f, z
<1>9. Reads(m, <<a>> \o <<b>>, writeInt(n) \o z, <<f>>, x, x)
  BY <1>3, <1>7, ReadsQuiet
<1>10. <<a>> \o <<b>> = <<a, b>>
  BY <1>8, TwoJoin
<1> QED
  BY <1>1, <1>2, <1>4, <1>9, <1>10 DEF a, b, f

LEMMA RequestAsks ==
  ASSUME NEW m, IsMessage(m), m.p \in Writers, m.p # "WriteOpenDatabase", NEW x \in Metas
  PROVE  Asks(m, Serving(m), x)
<1>1. CASE m.p = "WriteExecute"
  <2>1. Serving(m) = Executes(m)
    BY <1>1 DEF Serving
  <2>2. Asks(m, Executes(m), x)
    BY <1>1, ExecuteAsked
  <2> QED
    BY <2>1, <2>2
<1>2. CASE m.p # "WriteExecute"
  <2>1. Serving(m) = Called(m)
    BY <1>2 DEF Serving
  <2>2. Asks(m, Called(m), x)
    BY <1>2, EndTranAsked, PrepareAsked, CloseReqHandleAsked, FetchAsked, GetDbVersionAsked, ConCloseAsked,
       GetLastInsertIdAsked, PrepareAndExecuteAsked DEF Writers
  <2> QED
    BY <2>1, <2>2
<1> QED
  BY <1>1, <1>2

LEMMA RequestProgram ==
  ASSUME IsMessage(msg), msg.p \in Writers, msg.p # "WriteOpenDatabase", parser = msg.p, buf = Bytes(msg)
  PROVE  Program = <<GetInt("dataLen"), GetRaw(4, "")>> \o Serving(msg) /\ Serving(msg) \in Ops
<1> DEFINE a == GetInt("dataLen")
           b == GetRaw(4, "")
           c == GetByte("fc")
           u == Args(msg)
           E == IF msg.p = "WriteExecute" THEN Binds ELSE <<>>
<1>1. Program = ReadRequest
  <2>1. parser \notin Parsers /\ parser # "WriteOpenDatabase"
    BY DEF Parsers, Writers
  <2> QED
    BY <2>1 DEF Program, Parsers
<1>2. ReadRequest = (<<a, b, c>> \o E) \o <<u>>
  BY DEF ReadRequest, Args, Binds, GetArg
<1>3. Serving(msg) = (<<c>> \o E) \o <<u>>
  <2>1. <<c>> \o <<>> = <<c>>
    <3>1. <<c>> \in Seq({c})
      OBVIOUS
    <3> QED
      BY <3>1, ConcatEmptySeq
  <2> QED
    BY <2>1 DEF Serving, Executes, Called
<1>4. a \in SoundEntries /\ b \in SoundEntries /\ c \in SoundEntries /\ u \in SoundEntries
  <2>1. 4 \in Nat /\ "dataLen" \in PlainNames /\ "fc" \in PlainNames /\ "" \in PlainNames /\ "dataLen" \notin ByteNames
    BY DEF PlainNames, ByteNames
  <2>2. Bytes(msg) \in Seq(Byte)
    BY PacketType
  <2> QED
    BY <2>1, <2>2, ReadKinds, ArgsOf
<1>5. E \in Ops
  <2>1. GetArg \in SoundEntries /\ GetInt("bindLen") \in SoundEntries
    BY IntOf DEF GetArg
  <2>2. Binds \in Ops
    BY <2>1 DEF Binds, Ops
  <2>3. <<>> \in Ops
    BY DEF Ops
  <2> QED
    BY <2>2, <2>3
<1> HIDE DEF a, b, c, u, E
<1>6. <<a, b>> \o <<c>> = <<a, b, c>> /\ <<a, b>> \in Ops /\ <<c>> \in Ops /\ <<u>> \in Ops
  BY <1>4, ThreeJoin, TupleTypes DEF Ops
<1> DEFINE h == <<a, b>>
           d == <<c>>
           v == <<u>>
<1>7. h \in Seq(SoundEntries) /\ d \in Seq(SoundEntries) /\ v \in Seq(SoundEntries) /\ E \in Seq(SoundEntries)
  BY <1>5, <1>6 DEF Ops
<1>8. h \o d = <<a, b, c>>
  BY <1>6
<1> HIDE DEF h, d, v
<1>9. (h \o d) \o E = h \o (d \o E)
  BY <1>7, OpsAssoc, SMTT(40) DEF Ops
<1>10. d \o E \in Seq(SoundEntries)
  BY <1>7, ConcatProperties
<1>11. (h \o (d \o E)) \o v = h \o ((d \o E) \o v)
  <2> DEFINE k == d \o E
  <2>1. h \in Seq(SoundEntries) /\ k \in Seq(SoundEntries) /\ v \in Seq(SoundEntries)
    BY <1>7, <1>10
  <2> HIDE DEF k
  <2>2. (h \o k) \o v = h \o (k \o v)
    BY <2>1, OpsAssoc DEF Ops
  <2> QED
    BY <2>2 DEF k
<1>12. (d \o E) \o v \in Seq(SoundEntries)
  BY <1>7, <1>10, ConcatProperties
<1> QED
  BY <1>1, <1>2, <1>3, <1>8, <1>9, <1>11, <1>12 DEF Ops, h, d, v, a, b

LEMMA RequestsStart ==
  ASSUME IsMessage(msg), msg.p \notin Parsers, parser = msg.p, buf = Bytes(msg)
  PROVE  \E e : Home(msg, e) /\ Leads(msg, Program, At(Bytes(msg), <<>>, Start(msg)), e)
<1> DEFINE x == Start(msg)
<1>1. x \in Metas /\ Bytes(msg) \in Seq(Byte) /\ msg.p \in Writers
  BY StartType, PacketType DEF IsMessage
<1>2. <<>> \in Seq(Byte) /\ <<>> \in Seq(Field)
  OBVIOUS
<1> HIDE DEF x
<1>3. CASE msg.p = "WriteOpenDatabase"
  <2>1. Program = ReadOpenDatabase
    BY <1>3 DEF Program
  <2>2. PICK g : Opened(msg, g, x)
    BY <1>1, <1>3, OpenRequest
  <2> DEFINE w == Bytes(msg)
             e == At(<<>>, g, x)
  <2>3. /\ g \in Seq(Field) /\ w \in Seq(Byte)
        /\ \A r \in Seq(Byte), o \in Seq(Field) : Leads(msg, ReadOpenDatabase, At(w \o r, o, x), At(r, o \o g, x))
    BY <2>2 DEF Opened, Reads
  <2>9. Leads(msg, ReadOpenDatabase, At(w \o <<>>, <<>>, x), At(<<>>, <<>> \o g, x))
    BY <1>2, <2>3
  <2>4. w \o <<>> = w /\ <<>> \o g = g
    <3>1. w \in Seq(Byte) /\ g \in Seq(Field)
      BY <2>3
    <3> HIDE DEF w
    <3> HIDE <2>3, <2>2
    <3> QED
      BY <3>1, ConcatEmptySeq
  <2>5. Leads(msg, Program, At(Bytes(msg), <<>>, x), e)
    BY <2>1, <2>4, <2>9
  <2>6. e \in Situation
    BY <1>1, <1>2, <2>3, AtType
  <2>7. Right(msg, g)
    BY <1>3, <2>2 DEF Right, Opened
  <2>8. Home(msg, e)
    BY <2>6, <2>7 DEF Home, At
  <2> QED
    BY <2>5, <2>8 DEF x
<1>4. CASE msg.p # "WriteOpenDatabase"
  <2> DEFINE p == <<GetInt("dataLen"), GetRaw(4, "")>>
             q == Serving(msg)
             h == Header(msg)
             w == Payload(msg)
             n == One("dataLen", Len(Bytes(msg)) - 8)
             f == Asked(msg)
             a == At(h \o w, <<>>, x)
             b == At(w, <<n>>, x)
             e == At(<<>>, <<n>> \o f, x)
  <2>1. Program = p \o q /\ q \in Ops
    BY <1>1, <1>4, RequestProgram
  <2>2. Reads(msg, p, h, <<n>>, x, x)
    BY <1>1, <1>4, HeaderReads
  <2>3. Asks(msg, q, x)
    BY <1>1, <1>4, RequestAsks
  <2>4. Serves(msg, q, w, f, x)
    BY <2>3 DEF Asks
  <2>5. Bytes(msg) = h \o w
    BY <1>1, <1>4, RequestPacket
  <2> HIDE DEF p, q, h, w, n, f
  <2>6. /\ p \in Ops /\ h \in Seq(Byte) /\ w \in Seq(Byte) /\ <<n>> \in Seq(Field) /\ f \in Seq(Field)
    BY <2>2, <2>4 DEF Reads, Serves
  <2>7. \A o \in Seq(Field) : Leads(msg, q, At(w, o, x), At(<<>>, o \o f, x))
    BY <1>1, <2>4, ServesEnd
  <2>8. h \o w \in Seq(Byte) /\ <<n>> \o f \in Seq(Field)
    BY <2>6, ConcatProperties
  <2>9. a \in Situation /\ b \in Situation /\ e \in Situation
    BY <1>1, <1>2, <2>6, <2>8, AtType
  <2>10. Leads(msg, p, a, b)
    <3>1. Leads(msg, p, At(h \o w, <<>>, x), At(w, <<>> \o <<n>>, x))
      BY <1>2, <2>2, <2>6 DEF Reads
    <3>2. <<>> \o <<n>> = <<n>>
      BY <2>6, ConcatEmptySeq
    <3> QED
      BY <3>1, <3>2
  <2>11. Leads(msg, q, b, e)
    BY <2>6, <2>7
  <2>12. Right(msg, <<n>> \o f)
    BY <1>4 DEF Right, n, f
  <2>13. Home(msg, e)
    BY <2>9, <2>12 DEF Home, At
  <2> HIDE DEF a, b, e
  <2>14. Leads(msg, p \o q, a, e)
    BY <2>1, <2>6, <2>9, <2>10, <2>11, LeadsJoin
  <2>15. a = At(Bytes(msg), <<>>, x)
    BY <2>5 DEF a
  <2> QED
    BY <2>1, <2>13, <2>14, <2>15 DEF x
<1> QED
  BY <1>3, <1>4

LEMMA ArrivingInit ==
  ASSUME Init
  PROVE  Arriving
<1> SUFFICES ASSUME InStep
             PROVE  st = "run" /\ Now \in Situation /\ \E e : Home(msg, e) /\ Leads(msg, todo, Now, e)
  BY DEF Arriving
<1>1. /\ Now \in Situation /\ Now = At(Bytes(msg), <<>>, Start(msg))
      /\ IsMessage(msg) /\ buf = Bytes(msg) /\ st = "run" /\ todo = Program
  BY ArrivingStarts
<1>2. parser = msg.p /\ (msg.p \in Parsers => msg.err = <<>>)
  BY DEF InStep
<1>3. \E e : Home(msg, e) /\ Leads(msg, Program, At(Bytes(msg), <<>>, Start(msg)), e)
  <2>1. CASE msg.p \in Parsers
    <3>1. Succeeds(msg)
      BY <1>1, <1>2, <2>1 DEF Succeeds
    <3> QED
      BY <1>1, <1>2, <3>1, AnswersStart
  <2>2. CASE msg.p \notin Parsers
    BY <1>1, <1>2, <2>2, RequestsStart
  <2> QED
    BY <2>1, <2>2
<1> QED
  BY <1>1, <1>3

LEMMA ArrivingAlways == Spec => []Arriving
<1>1. Init => Arriving
  BY ArrivingInit
<1>2. WireType /\ Arriving /\ [Next]_vars => Arriving'
  BY ArrivingStep
<1> QED
  BY <1>1, <1>2, WireTypeAlways, PTL DEF Spec

\* On a connection that is in step every answer reaches the program whole: for
\* any number of columns, results and rows of any values, of every protocol
\* version, the parser of protocol.go returns what the server said and uses up
\* every byte, and never panics.
THEOREM AnswersArrive == Spec => []AnswersArriveWhole
<1>1. WireType /\ Arriving => AnswersArriveWhole
  <2> SUFFICES ASSUME WireType, Arriving, st # "run", msg.p \in Parsers, parser = msg.p, msg.err = <<>>
               PROVE  Whole /\ out = Said(msg)
    BY DEF AnswersArriveWhole
  <2>1. InStep
    BY DEF InStep
  <2>2. Whole /\ Right(msg, out)
    BY <2>1, Arrived
  <2> QED
    BY <2>2 DEF Right
<1> QED
  BY <1>1, ArrivingAlways, WireTypeAlways, PTL

Handed == msg.p \notin Parsers => parser = msg.p

LEMMA HandedAlways == Spec => []Handed
<1>1. Init => Handed
  BY DEF Init, Handed
<1>2. Handed /\ [Next]_vars => Handed'
  <2> SUFFICES ASSUME Handed, [Next]_vars PROVE Handed'
    OBVIOUS
  <2>1. msg' = msg /\ parser' = parser
    BY DEF Next, parseByte, parseShort, parseInt, parseRawBytes, parseShorts, parseNullTermString, readNil,
           Got, DoLoop, DoUntil, DoInline, Expand, Done, Panic, vars
  <2> QED
    BY <2>1 DEF Handed
<1> QED
  BY <1>1, <1>2, PTL DEF Spec

\* The server takes every request apart into exactly the arguments the driver
\* put in (protocol.go 595-667 and the Write... functions), of any text, any
\* handle and any list of bind parameters, of which only nil is a NULL, and
\* finds the length of the payload in the header; the open request is 628 bytes,
\* with database, user and password, of any length, each in a field of 32.
THEOREM RequestsArrive == Spec => []RequestsArriveWhole
<1>1. WireType /\ Arriving /\ Handed => RequestsArriveWhole
  <2> SUFFICES ASSUME WireType, Arriving, Handed, st # "run", msg.p \notin Parsers
               PROVE  /\ Whole
                      /\ IF msg.p = "WriteOpenDatabase"
                         THEN Len(buf) = 628 /\ NamesIn(out, msg)
                         ELSE out = <<One("dataLen", Len(buf) - 8)>> \o Asked(msg)
    BY DEF RequestsArriveWhole
  <2>1. InStep
    BY DEF InStep, Handed
  <2>2. Whole /\ Right(msg, out)
    BY <2>1, Arrived
  <2>3. buf = Bytes(msg)
    BY DEF WireType
  <2> QED
    BY <2>2, <2>3 DEF Right
<1> QED
  BY <1>1, ArrivingAlways, WireTypeAlways, HandedAlways, PTL
=============================================================================
