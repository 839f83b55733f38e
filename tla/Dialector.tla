----------------------------- MODULE Dialector -----------------------------
(***************************************************************************)
(* The GORM dialector (dialector/cubrid.go) on top of the driver: GORM     *)
(* builds a statement by asking the dialector to write its identifiers,    *)
(* bind variables and column types, and hands the text with the values of  *)
(* the bind variables to the driver, which scans it (Interpolate).  Text   *)
(* that GORM writes itself is one "x".  The migrator's queries on the      *)
(* catalog come with a text of their own.                                  *)
(***************************************************************************)
EXTENDS Interpolate

CONSTANTS
  Names,      \* names of tables and columns
  Fields,     \* the fields of the models that are migrated
  MaxParts    \* bound: parts of a statement

\* A field as GORM's schema describes it; custom is a type: tag GORM does not know, whose text
\* it passes to the dialector as the kind.
Field ==
  [kind : {"Bool", "Int", "Uint", "Float", "String", "Time", "Bytes", "custom"},
   size : Nat, precision : Nat, auto : BOOLEAN, default : BOOLEAN]

\* Only numbers are counted up, and Go's have at most 64 bits; the migrator's queries have two
\* bind variables.
ASSUME DialectorAssumption ==
  /\ \A n \in Names : n \in Seq(Chars)
  /\ Fields \subseteq Field
  /\ \A f \in Fields : /\ f.auto => f.kind \in {"Int", "Uint"}
                       /\ f.kind \in {"Int", "Uint"} => f.size <= 64
  /\ MaxParts \in Nat
  /\ MaxArgs >= 2

VARIABLES
  building,   \* GORM is still writing the statement
  names,      \* the identifiers written so far
  parts,      \* how many parts were written
  columns     \* the columns of the statement, each a field and its type

dvars == <<vars, building, names, parts, columns>>

-----------------------------------------------------------------------------

\* Fault: quotes inside a name are left as they are.
QuoteToPlain(s) == <<"d">> \o s \o <<"d">>

\* Double quotes around the name, and a second one for each inside it.
QuoteTo(s) == <<"d">> \o Doubled(s, {"d"}) \o <<"d">>

BindVarTo == <<"?">>

\* A type with the size it is written with, if it has one.
Type(base, n) == [base |-> base, size |-> n]

\* The type that a type: tag asks for.
Forced == Type("custom", 0)

\* Fault: an unsigned field is given the column of a signed one.
DataTypeOfSigned(f) ==
  CASE f.auto -> Type(IF f.size > 32 THEN "BIGINT" ELSE "INTEGER", 0)
    [] ~f.auto /\ f.kind = "Bool" -> Type("SMALLINT", 0)
    [] ~f.auto /\ f.kind \in {"Int", "Uint"} ->
         Type(CASE f.size <= 16 -> "SMALLINT"
                [] f.size > 16 /\ f.size <= 32 -> "INTEGER" [] OTHER -> "BIGINT", 0)
    [] OTHER -> Type("other", 0)

\* The type: tag is not read: the column gets the text of the field's default value as its
\* type, or VARCHAR(256).
dataTypeFromTag(f) == IF f.default THEN Type("the default value", 0) ELSE Type("VARCHAR", 256)

DataTypeOf(f) ==
  CASE f.auto -> Type(IF f.size > 32 THEN "BIGINT" ELSE "INTEGER", 0)
    [] ~f.auto /\ f.kind = "Bool" -> Type("SMALLINT", 0)
    [] ~f.auto /\ f.kind = "Int" ->
         Type(CASE f.size <= 16 -> "SMALLINT"
                [] f.size > 16 /\ f.size <= 32 -> "INTEGER" [] OTHER -> "BIGINT", 0)
    [] ~f.auto /\ f.kind = "Uint" ->
         Type(CASE f.size <= 8 -> "SMALLINT"
                [] f.size > 8 /\ f.size <= 16 -> "INTEGER" [] OTHER -> "BIGINT", 0)
    [] ~f.auto /\ f.kind = "Float" -> Type(IF f.size <= 32 THEN "FLOAT" ELSE "DOUBLE", 0)
    [] ~f.auto /\ f.kind = "String" ->
         LET size == IF f.size = 0 THEN 256 ELSE f.size
         IN IF size >= 1073741823 THEN Type("STRING", 0) ELSE Type("VARCHAR", size)
    [] ~f.auto /\ f.kind = "Time" -> Type("DATETIME", f.precision)
    [] ~f.auto /\ f.kind = "Bytes" -> Type("BLOB", 0)
    [] ~f.auto /\ f.kind = "custom" -> dataTypeFromTag(f)

-----------------------------------------------------------------------------
\* GORM writes a statement, one part after another.

Write(text) ==
  /\ building /\ parts < MaxParts
  /\ sql' = sql \o text \o <<"x">>
  /\ parts' = parts + 1
  /\ UNCHANGED <<building, args, pc, i, state, positions, prev, sb, result>>

WriteName(n) ==
  /\ Write(QuoteTo(n))
  /\ names' = Append(names, n)
  /\ UNCHANGED <<nargs, columns>>

\* Statement.AddVar keeps the value and asks for its placeholder.
WriteVar ==
  /\ nargs < MaxArgs
  /\ Write(BindVarTo)
  /\ nargs' = nargs + 1
  /\ UNCHANGED <<names, columns>>

\* A column definition: its name, its type and what GORM adds to it.  FullDataTypeOf changes
\* only the spelling of that.
FullDataTypeOf(n, f) ==
  /\ building /\ parts = 0
  /\ sql' = <<"x">> \o QuoteTo(n) \o <<"x">>
  /\ names' = <<n>>
  /\ columns' = <<[field |-> f, type |-> DataTypeOf(f)]>>
  /\ building' = FALSE /\ parts' = 1
  /\ UNCHANGED <<nargs, args, pc, i, state, positions, prev, sb, result>>

\* HasTable: one bind variable and a literal.  HasColumn and HasIndex: two bind variables.
HasTable ==
  /\ building /\ parts = 0
  /\ sql' = <<"x", "?", "x", "q", "x", "q">> /\ nargs' = 1
  /\ building' = FALSE /\ parts' = 1
  /\ UNCHANGED <<args, pc, i, state, positions, prev, sb, result, names, columns>>

HasColumn ==
  /\ building /\ parts = 0
  /\ sql' = <<"x", "?", "x", "?">> /\ nargs' = 2
  /\ building' = FALSE /\ parts' = 1
  /\ UNCHANGED <<args, pc, i, state, positions, prev, sb, result, names, columns>>

\* The driver gets the statement.
Submit ==
  /\ building /\ parts > 0
  /\ building' = FALSE
  /\ UNCHANGED <<vars, names, parts, columns>>

Build ==
  \/ \E n \in Names : WriteName(n)
  \/ \E n \in Names, f \in Fields : FullDataTypeOf(n, f)
  \/ WriteVar \/ HasTable \/ HasColumn \/ Submit

\* A statement is written by GORM, or by a program that uses database/sql itself.
DInit ==
  /\ names = <<>> /\ parts = 0 /\ columns = <<>>
  /\ \/ building = FALSE /\ Init
     \/ /\ building = TRUE /\ sql = <<>> /\ nargs = 0
        /\ args = <<>> /\ pc = "scan" /\ i = 1 /\ state = "normal" /\ positions = <<>>
        /\ prev = 1 /\ sb = <<>> /\ result = "running"

Driver == ~building /\ Next /\ UNCHANGED <<building, names, parts, columns>>

DNext == Build \/ Driver

DSpec == DInit /\ [][DNext]_dvars

-----------------------------------------------------------------------------

\* The name a quoted identifier stands for.
NameOf(token) == Undoubled(SubSeq(token, 2, Len(token) - 1), {"d"})

\* The quoted identifiers of a text, in order; upTo[k] are those that start at 1..k.
Identifiers(s) ==
  LET starts == {k \in TokenStarts(s) : s[k] = "d"}
      upTo[k \in 0..Len(s)] ==
        IF k = 0 THEN <<>>
        ELSE IF k \in starts
             THEN Append(upTo[k - 1], NameOf(SubSeq(s, k, TokenEnd(s, k))))
             ELSE upTo[k - 1]
  IN upTo[Len(s)]

ByGorm == ~building /\ parts > 0

\* What GORM asked for arrives (QuoteTo, BindVarTo, cubrid.go 95-115, with types.go 14-93): when
\* its names are plain the driver finds as many placeholders as GORM bound values, and in the
\* text it sends the identifiers are those that were quoted, the values spliced in between them
\* notwithstanding.
GormStatementsArrive ==
  ByGorm /\ (\A k \in DOMAIN names : PlainName(names[k])) =>
    /\ i > Len(sql) => Len(positions) = nargs
    /\ result = "ok" => Identifiers(sb) = names

Bits(type) ==
  CASE type.base = "SMALLINT" -> 16 [] type.base = "INTEGER" -> 32 [] type.base = "BIGINT" -> 64

\* Every value of the field fits its column: a number of its width, a text of its size or, when it
\* has none, of any length, an instant with the digits of its precision, any bytes.
Fits(f, type) ==
  CASE f.kind = "Bool" -> Bits(type) >= 1
    [] f.kind = "Int" -> f.size <= Bits(type)
    [] f.kind = "Uint" -> f.size < Bits(type)
    [] f.kind = "Float" -> type.base = "DOUBLE" \/ (f.size <= 32 /\ type.base = "FLOAT")
    [] f.kind = "String" -> \/ type.base = "STRING"
                            \/ type.base = "VARCHAR" /\ f.size > 0 /\ f.size <= type.size
    [] f.kind = "Time" -> type.base = "DATETIME" /\ f.precision <= type.size
    [] f.kind = "Bytes" -> type.base = "BLOB"
    [] f.kind = "custom" -> type = Forced

\* The fields that have no column wide enough: the upper half of 64 unsigned bits, or of 32 in an
\* AUTO_INCREMENT column (INTEGER); a text without a size, which gets the 256 characters that
\* docs/GORM.md:184 announces; and the fields with a type: tag, which docs/GORM.md:191 says forces
\* the type, and which dataTypeFromTag does not read.
Excepted(f) ==
  \/ f.kind = "Uint" /\ (f.size = 64 \/ (f.auto /\ f.size = 32))
  \/ f.kind = "String" /\ f.size = 0
  \/ f.kind = "custom"

\* The column DataTypeOf gives a field holds every value of the field (cubrid.go 122-179), at the
\* widths where the types change, but for the fields that Excepted names.
ColumnsHoldFields ==
  \A k \in DOMAIN columns :
    ~Excepted(columns[k].field) => Fits(columns[k].field, columns[k].type)
=============================================================================
