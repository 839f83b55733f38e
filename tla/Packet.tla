------------------------------- MODULE Packet -------------------------------
(***************************************************************************)
(* The bytes of the driver's requests: PacketWriter (packet.go), the       *)
(* Write... functions of protocol.go and the encoding of bind parameters.  *)
(* A request is a record m: its function p, and the arguments h (handle),  *)
(* n (a number), ac (auto-commit), text, args and stmt, as p takes them.   *)
(***************************************************************************)
EXTENDS Integers, Sequences, SequencesExt

(***************************************************************************)
(* Bytes.  64-bit integers and floats stay the bytes they are.             *)
(***************************************************************************)
writeShort(n) == <<(n \div 256) % 256, n % 256>>
writeInt(n) == <<(n \div 16777216) % 256, (n \div 65536) % 256, (n \div 256) % 256, n % 256>>
writeFiller(n) == [i \in 1..n |-> 0]

High(b) == IF b >= 128 THEN b - 256 ELSE b
Short(b) == High(b[1]) * 256 + b[2]
Int32(b) == High(b[1]) * 16777216 + b[2] * 65536 + b[3] * 256 + b[4]

\* An argument of a request: its length, then its bytes.
addBytes(b) == writeInt(Len(b)) \o b
addInt(n) == addBytes(writeInt(n))
addByte(n) == addBytes(<<n>>)
addNull == writeInt(0)
writeNullTermString(s) == addBytes(s \o <<0>>)

\* Fault: the last byte of the field is kept for a terminator.
writeFixedStringEnded(s, n) ==
  LET t == SubSeq(s, 1, IF Len(s) > n - 1 THEN n - 1 ELSE Len(s)) IN t \o writeFiller(n - Len(t))

writeFixedString(s, n) ==
  LET t == SubSeq(s, 1, IF Len(s) > n THEN n ELSE Len(s)) IN t \o writeFiller(n - Len(t))
addCacheTime == addBytes(writeInt(0) \o writeInt(0))

Flag(b) == IF b THEN 1 ELSE 0
buildProtocolHeader(payload) == writeInt(Len(payload)) \o writeFiller(4) \o payload

\* The types of constants.go that are read in different ways.
TypeNull == 0
TextTypes == {1, 2, 3, 4, 25, 7}           \* CHAR .. VARNCHAR, ENUM, NUMERIC
TypeString == 2
TypeVarBit == 6
TypeInt == 8
TypeShort == 9
TypeDouble == 12
TypeBigInt == 21
TypeDatetime == 22
Shorts(t) == CASE t \in {13, 14} -> 3 [] t = 15 -> 6 [] t = TypeDatetime -> 7 [] OTHER -> 0
Wide(t) == CASE t \in {10, 12, TypeBigInt} -> 8 [] t = 11 -> 4 [] OTHER -> 0
StmtSelect == 21
StmtCallSP == 126

-----------------------------------------------------------------------------
(***************************************************************************)
(* The requests.                                                           *)
(***************************************************************************)

\* encodeOneParam: the size of what follows, the type, the value; 0 is NULL.
encodeOneParam(a) ==
  LET typed(t, b) == writeInt(1 + Len(b)) \o <<t>> \o b
  IN CASE a.go = "nil"     -> writeInt(0)
       [] a.go = "bool"    -> typed(TypeShort, writeShort(a.v[1]))
       [] a.go = "int64"   -> typed(TypeBigInt, a.v)
       [] a.go = "float64" -> typed(TypeDouble, a.v)
       [] a.go = "[]byte"  -> typed(TypeVarBit, a.v)
       [] a.go = "time"    -> typed(TypeDatetime, FlattenSeq([i \in 1..7 |-> writeShort(a.v[i])]))
       [] OTHER            -> typed(TypeString, a.v \o <<0>>)

encodeBindParams(args) == FlattenSeq([i \in DOMAIN args |-> encodeOneParam(args[i])])

WriteEndTran(m) == <<1>> \o addByte(m.n)
WriteCloseReqHandle(m) == <<6>> \o addInt(m.h)
WriteGetDbVersion(m) == <<15>> \o addByte(Flag(m.ac))
WriteConClose(m) == <<31>>
WriteGetLastInsertId(m) == <<40>>

\* Fault: positions are not length-prefixed.
WriteFetchRaw(m) ==
  <<8>> \o addInt(m.h) \o writeInt(m.n + 1) \o addInt(100) \o addByte(0) \o addInt(0)

WriteFetch(m) ==
  <<8>> \o addInt(m.h) \o addInt(m.n + 1) \o addInt(100) \o addByte(0) \o addInt(0)

WritePrepare(m) == <<2>> \o writeNullTermString(m.text) \o addByte(0) \o addByte(Flag(m.ac))

WritePrepareAndExecute(m) ==
  <<41>> \o addInt(3) \o writeNullTermString(m.text) \o addByte(0) \o addByte(Flag(m.ac))
    \o addByte(2) \o addInt(0) \o addInt(0) \o addNull
    \o writeInt(8) \o writeInt(0) \o writeInt(0) \o addInt(0)

\* The bytes after the bind parameters: bind_mode_count and fetchFlag together
\* make one more argument.
WriteExecute(m) ==
  <<3>> \o addInt(m.h) \o addByte(0) \o addInt(0) \o addInt(0)
    \o addBytes(encodeBindParams(m.args))
    \o writeInt(1) \o <<Flag(m.stmt = StmtSelect)>>
    \o addByte(Flag(m.ac)) \o addByte(1) \o addCacheTime \o addInt(0)

WriteOpenDatabase(m) ==
  writeFixedString(m.text, 32) \o writeFixedString(m.user, 32) \o writeFixedString(m.password, 32)
    \o writeFiller(512) \o writeFiller(20)

Writers == {"WriteEndTran", "WriteCloseReqHandle", "WriteGetDbVersion", "WriteConClose",
            "WriteGetLastInsertId", "WriteFetch", "WritePrepare", "WritePrepareAndExecute",
            "WriteExecute", "WriteOpenDatabase"}

Payload(m) ==
  CASE m.p = "WriteEndTran"           -> WriteEndTran(m)
    [] m.p = "WriteCloseReqHandle"    -> WriteCloseReqHandle(m)
    [] m.p = "WriteGetDbVersion"      -> WriteGetDbVersion(m)
    [] m.p = "WriteConClose"          -> WriteConClose(m)
    [] m.p = "WriteGetLastInsertId"   -> WriteGetLastInsertId(m)
    [] m.p = "WriteFetch"             -> WriteFetch(m)
    [] m.p = "WritePrepare"           -> WritePrepare(m)
    [] m.p = "WritePrepareAndExecute" -> WritePrepareAndExecute(m)
    [] m.p = "WriteExecute"           -> WriteExecute(m)
=============================================================================
