------------------------------- MODULE MCWire -------------------------------
(***************************************************************************)
(* Answers with up to two columns and rows of every kind of type, and one  *)
(* request of each kind.                                                   *)
(***************************************************************************)
EXTENDS Wire

\* "Un" and "syn", as beginnings of newError's words; in the messages in any case
MCIntegrity == {<<117, 110>>}
MCProgramming == {<<115, 121, 110>>}

M == [p |-> "", h |-> 258, n |-> 1, ac |-> TRUE, text |-> <<>>, user |-> <<>>, password |-> <<>>, args |-> <<>>, stmt |-> StmtSelect,
      cols |-> <<>>, rows |-> <<>>, total |-> 0, infos |-> <<>>, ver |-> 7, err |-> <<>>]

\* Column types with their values.
Wide8 == <<128, 0, 0, 0, 0, 0, 0, 1>>
ValuesOf(t) ==
  {Null} \cup
  CASE t = TypeString   -> {<<"text", <<>>>>, <<"text", <<97, 0>>>>}
    [] t = TypeInt      -> {One("int", -2), One("int", 65536)}
    [] t = TypeShort    -> {One("int", -32768)}
    [] t = TypeBigInt   -> {<<"wide", Wide8>>}
    [] t = TypeDatetime -> {<<"time", <<2024, 2, 29, 23, 59, 59, 999>>>>}
    [] t = TypeVarBit   -> {<<"bytes", <<0, 255>>>>}
    [] OTHER            -> {<<"bytes", <<1>>>>}

Cells(t) == {[t |-> t, v |-> v] : v \in ValuesOf(t)}
Cells0 == Cells(TypeString) \cup Cells(TypeInt) \cup Cells(TypeVarBit)   \* of a column without type

Types == {TypeNull, TypeString, TypeInt, TypeShort, TypeBigInt, TypeDatetime, TypeVarBit, 16}
Col(t) == [t |-> t, wide |-> t = 16, name |-> IF t = TypeInt THEN <<>> ELSE <<99>>]
CellsFor(t) == IF t = TypeNull THEN Cells0 ELSE Cells(t)

\* A row of one or two columns, and two rows of one column.
Tables ==
  {[cols |-> <<>>, rows |-> <<>>]}
    \cup UNION {{[cols |-> <<Col(t)>>, rows |-> r] :
                   r \in {<<>>} \cup {<<<<c>>>> : c \in CellsFor(t)} \cup {<<<<c>>, <<d>>>> : c, d \in CellsFor(t)}} : t \in Types}
    \cup UNION {{[cols |-> <<Col(t), Col(u)>>, rows |-> <<<<c, d>>>>] :
                   c \in CellsFor(t), d \in CellsFor(u)} : t, u \in {TypeNull, TypeString, TypeVarBit}}

Selects ==
  {[M EXCEPT !.p = p, !.cols = t.cols, !.rows = t.rows, !.ver = v,
             !.infos = <<[stmt |-> 21, count |-> 2]>>, !.total = 2] :
     p \in {"ParsePrepareAndExecute", "ParseExecute"}, t \in Tables, v \in {1, 7}}
Fetches ==
  {[M EXCEPT !.p = "ParseFetch", !.cols = t.cols, !.rows = t.rows, !.stmt = s] :
     t \in Tables, s \in {StmtSelect, StmtCallSP}}
Updates ==
  {[M EXCEPT !.p = p, !.stmt = 20, !.ver = v, !.infos = i, !.total = 1] :
     p \in {"ParsePrepareAndExecute", "ParseExecute"}, v \in {1, 4, 7},
     i \in {<<>>, <<[stmt |-> 20, count |-> 1], [stmt |-> 20, count |-> 0]>>}}
Others ==
  {[M EXCEPT !.p = p, !.text = t] :
     p \in {"ParsePrepare", "ParseSimpleResponse", "ParseGetDbVersion", "ParseGetLastInsertId", "ParseOpenDatabase"},
     t \in {<<>>, <<49, 49>>}}
Errors ==
  {[M EXCEPT !.p = "ParseSimpleResponse", !.text = e[1], !.err = <<-495, e[2]>>] :
     e \in {<<<<>>, "CubridError">>, <<<<120, 85>>, "CubridError">>, <<<<120, 85, 78>>, "IntegrityError">>,
            <<<<83, 121, 110, 117, 110>>, "IntegrityError">>, <<<<83, 121, 110>>, "ProgrammingError">>}}

A(go, v) == [go |-> go, v |-> v]
Params == {A("nil", <<>>), A("bool", <<1>>), A("int64", Wide8), A("float64", Wide8), A("string", <<97>>),
           A("[]byte", <<>>), A("[]byte", <<0>>), A("time", <<2024, 2, 29, 0, 0, 0, 1>>), A("other", <<>>)}

\* Names about as long as the field they go to.
NamesOf(b) == {[i \in 1..n |-> b + (i % 3)] : n \in {0, 1, 31, 32, 33}}

Requests ==
  {[M EXCEPT !.p = p, !.ac = b, !.text = <<63>>] :
     b \in BOOLEAN, p \in {"WriteEndTran", "WriteCloseReqHandle", "WriteGetDbVersion", "WriteConClose", "WriteGetLastInsertId",
           "WriteFetch", "WritePrepare", "WritePrepareAndExecute"}}
  \cup {[M EXCEPT !.p = "WriteExecute", !.args = a] : a \in {<<>>} \cup {<<x>> : x \in Params} \cup {<<x, y>> : x, y \in Params}}
  \cup {[M EXCEPT !.p = "WriteOpenDatabase", !.text = d, !.user = u, !.password = w] :
           d \in NamesOf(100), u \in NamesOf(117), w \in NamesOf(112)}

MCMessages == Selects \cup Fetches \cup Updates \cup Others \cup Errors \cup Requests
=============================================================================
