-------------------------- MODULE DialectorProofs --------------------------
(***************************************************************************)
(* Proofs about Interpolate and Dialector: the scanner of the driver finds *)
(* the placeholders of every statement, whatever its length; the arguments *)
(* arrive in their places; the identifiers that GORM quotes are those of   *)
(* the text that is sent; and the columns of the dialector hold the fields *)
(* they are made for.                                                      *)
(***************************************************************************)
EXTENDS Dialector, InterpolateProofs

-----------------------------------------------------------------------------
\* The dialector's texts are made of the characters the scanner knows.

\* A quoted name is a text of the characters the scanner knows.
LEMMA QuoteToType ==
  ASSUME NEW s \in Seq(Chars)
  PROVE  QuoteTo(s) \in Seq(Chars)
<1> DEFINE seqs == [k \in 1..Len(s) |-> IF s[k] \in {"d"} THEN <<s[k], s[k]>> ELSE <<s[k]>>]
<1>1. \A k \in 1..Len(s) : s[k] \in Chars
  OBVIOUS
<1>2. "d" \in Chars
  BY DEF Chars
<1>3. seqs \in Seq(Seq(Chars))
  BY <1>1, <1>2
<1>4. FlattenSeq(seqs) \in Seq(Chars)
  BY <1>3, FlattenType
<1>5. QuoteTo(s) = <<"d">> \o FlattenSeq(seqs) \o <<"d">>
  BY DEF QuoteTo, Doubled
<1>6. <<"d">> \in Seq(Chars)
  BY <1>2
<1> HIDE DEF seqs
<1> QED
  BY <1>4, <1>5, <1>6

-----------------------------------------------------------------------------
\* The invariant: nothing is read of a statement that GORM still writes, its placeholders are
\* found as far as it was read, and there is one argument for each when they are replaced.

Unread ==
  building => /\ pc = "scan" /\ i = 1 /\ state = "normal" /\ positions = <<>>
              /\ prev = 1 /\ args = <<>>

Counted == pc = "splice" => Len(positions) = nargs

ScanInv == TypeOK /\ Unread /\ Counted /\ Scanned

\* Before the first step every statement is scanned as far as position 1.
LEMMA NothingScanned ==
  ASSUME NEW s \in Seq(Chars)
  PROVE  Found(s, <<>>, 1) /\ Where(s, 1, "normal")
<1>0. s \in Seq(Letter)
  BY StatementsAreTexts
<1>1. Placeholders(s) \subseteq 1..Len(s)
  BY <1>0, TokensTile DEF Placeholders
<1>2. {p \in Placeholders(s) : p < 1} = {} /\ Range(<<>>) = {}
  BY <1>1 DEF Range
<1>3. Found(s, <<>>, 1)
  BY <1>2 DEF Found
<1>4. Len(s) = 0 \/ Len(s) > 0
  OBVIOUS
<1>5. Boundary(s, 1)
  BY <1>0, <1>4, TokensTile DEF Boundary
<1> QED
  BY <1>3, <1>5 DEF Where

\* A statement that was not looked at satisfies the invariant.
LEMMA ScanInit == DInit => ScanInv
<1> SUFFICES ASSUME DInit PROVE ScanInv
  OBVIOUS
<1> USE InterpolateAssumption
<1>1. sql \in Seq(Chars) /\ nargs \in 0..MaxArgs
  <2>1. CASE Init
    <3>1. PICK n \in 0..MaxSql : sql \in [1..n -> Chars]
      BY <2>1 DEF Init
    <3>2. n \in Nat
      OBVIOUS
    <3> QED
      BY <2>1, <3>1, <3>2 DEF Init
  <2>2. CASE building = TRUE
    <3>1. sql = <<>> \/ Init
      BY <2>2 DEF DInit
    <3>2. CASE sql = <<>> /\ nargs = 0
      BY <3>2
    <3> QED
      BY <2>1, <2>2, <3>2 DEF DInit
  <2> QED
    BY <2>1, <2>2 DEF DInit
<1>2. /\ args = <<>> /\ pc = "scan" /\ i = 1 /\ state = "normal" /\ positions = <<>>
      /\ prev = 1 /\ result = "running"
  BY DEF DInit, Init
<1>3. TypeOK
  BY <1>1, <1>2 DEF TypeOK
<1>4. Scanned
  BY <1>1, <1>2, NothingScanned DEF Scanned
<1> QED
  BY <1>2, <1>3, <1>4 DEF ScanInv, Unread, Counted

\* GORM's steps: the text grows, nothing of it is read.
LEMMA BuildStep == ScanInv /\ Build => ScanInv'
<1> SUFFICES ASSUME ScanInv, Build PROVE ScanInv'
  OBVIOUS
<1> USE InterpolateAssumption, DialectorAssumption
<1>1. /\ building /\ TypeOK /\ pc = "scan" /\ i = 1 /\ state = "normal" /\ positions = <<>>
      /\ prev = 1 /\ args = <<>>
  BY DEF ScanInv, Unread, Build, WriteName, WriteVar, Write, FullDataTypeOf, HasTable, HasColumn,
         Submit
<1>2. UNCHANGED <<args, pc, i, state, positions, prev, sb, result>>
  BY DEF Build, WriteName, WriteVar, Write, FullDataTypeOf, HasTable, HasColumn, Submit, vars
<1>3. sql \in Seq(Chars) /\ nargs \in 0..MaxArgs
  BY <1>1 DEF TypeOK
<1>4. <<"x">> \in Seq(Chars) /\ BindVarTo \in Seq(Chars)
  BY DEF BindVarTo, Chars
<1>5. sql' \in Seq(Chars) /\ nargs' \in 0..MaxArgs
  <2>1. ASSUME NEW n \in Names, WriteName(n) PROVE sql' \in Seq(Chars) /\ nargs' \in 0..MaxArgs
    <3>1. QuoteTo(n) \in Seq(Chars)
      BY QuoteToType
    <3>2. sql' = sql \o QuoteTo(n) \o <<"x">> /\ nargs' = nargs
      BY <2>1 DEF WriteName, Write
    <3> QED
      BY <1>3, <1>4, <3>1, <3>2
  <2>2. ASSUME NEW n \in Names, NEW f \in Fields, FullDataTypeOf(n, f)
        PROVE  sql' \in Seq(Chars) /\ nargs' \in 0..MaxArgs
    <3>1. QuoteTo(n) \in Seq(Chars)
      BY QuoteToType
    <3>2. sql' = <<"x">> \o QuoteTo(n) \o <<"x">> /\ nargs' = nargs
      BY <2>2 DEF FullDataTypeOf
    <3> QED
      BY <1>3, <1>4, <3>1, <3>2
  <2>3. CASE WriteVar
    <3>1. sql' = sql \o BindVarTo \o <<"x">> /\ nargs' = nargs + 1 /\ nargs < MaxArgs
      BY <2>3 DEF WriteVar, Write
    <3>2. sql' \in Seq(Chars)
      BY <1>3, <1>4, <3>1
    <3>3. nargs' \in 0..MaxArgs
      BY <1>3, <3>1
    <3> QED
      BY <3>2, <3>3
  <2>4. CASE HasTable
    <3>1. sql' = <<"x", "?", "x", "q", "x", "q">> /\ nargs' = 1
      BY <2>4 DEF HasTable
    <3> QED
      BY <3>1 DEF Chars
  <2>5. CASE HasColumn
    <3>1. sql' = <<"x", "?", "x", "?">> /\ nargs' = 2
      BY <2>5 DEF HasColumn
    <3> QED
      BY <3>1 DEF Chars
  <2>6. CASE Submit
    BY <1>3, <2>6 DEF Submit, vars
  <2> QED
    BY <2>1, <2>2, <2>3, <2>4, <2>5, <2>6 DEF Build
<1>6. TypeOK'
  BY <1>1, <1>2, <1>5 DEF TypeOK
<1>7. Scanned'
  BY <1>1, <1>2, <1>5, NothingScanned DEF Scanned
<1> QED
  BY <1>1, <1>2, <1>6, <1>7 DEF ScanInv, Unread, Counted

\* The driver's steps.
LEMMA DriverStep == ScanInv /\ Driver => ScanInv'
<1> SUFFICES ASSUME ScanInv, Driver PROVE ScanInv'
  OBVIOUS
<1> USE InterpolateAssumption
<1>0. TypeOK /\ Scanned /\ ~building' /\ Next
  BY DEF ScanInv, Driver
<1>1. /\ sql \in Seq(Chars) /\ Len(sql) \in Nat /\ i \in 1..Len(sql) + 1
      /\ positions \in Seq(1..Len(sql)) /\ nargs \in 0..MaxArgs /\ prev \in 1..Len(sql) + 1
      /\ args \in Seq(Values) /\ Len(args) <= nargs
  BY <1>0 DEF TypeOK
<1>2. Unread'
  BY <1>0 DEF Unread
<1>3. sql' = sql /\ nargs' = nargs
  BY <1>0 DEF Next, findBindPlaceholders, ScanNormal, ScanLiteral, ScanBlock, ScanLine, Go,
         Placeholder, WrongCount, NoPlaceholders, StartSplice, CopyRest, Splice, Unsupported, splice
<1>4. CASE findBindPlaceholders
  <2>1. pc = "scan" /\ UNCHANGED <<pc, result, splice>> /\ i <= Len(sql)
    BY <1>4 DEF findBindPlaceholders, ScanNormal, ScanLiteral, ScanBlock, ScanLine, Go,
                Placeholder, Scanning
  <2>2. i' \in 1..Len(sql) + 1 /\ state' \in {"normal", "literal", "block", "line"}
    BY <1>1, <1>4, <2>1 DEF findBindPlaceholders, ScanNormal, ScanLiteral, ScanBlock, ScanLine, Go,
                Placeholder, Scanning, At2
  <2>3. positions' \in Seq(1..Len(sql))
    <3>1. positions' = positions \/ positions' = Append(positions, i)
      BY <1>4 DEF findBindPlaceholders, ScanNormal, ScanLiteral, ScanBlock, ScanLine, Go, Placeholder
    <3> DEFINE S == 1..Len(sql)
    <3>2. i \in S /\ positions \in Seq(S)
      BY <1>1, <2>1
    <3> HIDE DEF S
    <3>3. positions' \in Seq(S)
      BY <3>1, <3>2
    <3> QED
      BY <3>3 DEF S
  <2>4. TypeOK'
    BY <1>0, <1>3, <2>1, <2>2, <2>3 DEF TypeOK, splice
  <2>5. Scanned'
    <3> SUFFICES ASSUME PlainNames(sql)
                 PROVE  Found(sql, positions', i') /\ Where(sql, i', state')
      BY <1>3 DEF Scanned
    <3>1. Found(sql, positions, i) /\ Where(sql, i, state)
      BY <1>0 DEF Scanned
    <3>2. i \in Nat /\ i >= 1 /\ sql \in Seq(Letter)
      BY <1>1, StatementsAreTexts
    <3> QED
      BY <1>1, <1>4, <3>1, <3>2, NormalScanned, LiteralScanned, BlockScanned, LineScanned
         DEF findBindPlaceholders
  <2> QED
    BY <1>2, <2>1, <2>4, <2>5 DEF ScanInv, Counted
<1>5. ASSUME ~findBindPlaceholders PROVE ScanInv'
  <2>1. UNCHANGED <<i, state, positions>>
    BY <1>0, <1>5 DEF Next, WrongCount, NoPlaceholders, StartSplice, CopyRest, Splice, Unsupported,
                      splice
  <2>2. Scanned'
    BY <1>0, <1>3, <2>1 DEF Scanned
  <2>3. Counted'
    BY <1>0, <1>3, <1>5, <2>1 DEF ScanInv, Counted, Next, WrongCount, NoPlaceholders, StartSplice,
            CopyRest, Splice, Unsupported, Return
  <2>4. /\ pc' \in {"scan", "splice", "done"} /\ result' \in {"running", "ok", "err"}
    BY <1>0, <1>5 DEF TypeOK, Next, WrongCount, NoPlaceholders, StartSplice, CopyRest, Splice,
            Unsupported, Return
  <2>5. CASE UNCHANGED <<args, prev>>
    BY <1>0, <1>3, <2>1, <2>2, <2>3, <2>4, <2>5, <1>2 DEF TypeOK, ScanInv
  <2>6. ASSUME NEW v \in Values, Splice(v)
        PROVE  ScanInv'
    <3>1. Len(args) < nargs /\ Len(positions) = nargs
      BY <2>6 DEF Splice, ScanInv, Counted
    <3>2. Len(args) + 1 \in 1..Len(positions)
      BY <1>1, <3>1
    <3>3. positions[Len(args) + 1] \in 1..Len(sql)
      BY <1>1, <3>2
    <3>4. prev' = positions[Len(args) + 1] + 1 /\ args' = Append(args, v)
      BY <2>6 DEF Splice
    <3>5. prev' \in 1..Len(sql) + 1
      BY <1>1, <3>3, <3>4
    <3>6. args' \in Seq(Values) /\ Len(args') <= nargs
      BY <1>1, <3>1, <3>4
    <3>7. TypeOK'
      BY <1>0, <1>1, <1>3, <2>1, <2>4, <3>5, <3>6 DEF TypeOK
    <3> QED
      BY <1>2, <2>2, <2>3, <3>7 DEF ScanInv
  <2> QED
    BY <1>0, <1>5, <2>5, <2>6 DEF Next, WrongCount, NoPlaceholders, StartSplice, CopyRest,
            Unsupported, splice
<1> QED
  BY <1>4, <1>5

\* Every step keeps the invariant of the scanner.
LEMMA ScanStep == ScanInv /\ [DNext]_dvars => ScanInv'
<1> SUFFICES ASSUME ScanInv, [DNext]_dvars PROVE ScanInv'
  OBVIOUS
<1>1. CASE UNCHANGED dvars
  BY <1>1 DEF ScanInv, TypeOK, Unread, Counted, Scanned, dvars, vars
<1> QED
  BY <1>1, BuildStep, DriverStep DEF DNext

\* The scanner's state stays well formed: it never reads beyond the text and splices one argument for
\* each placeholder it found, whoever wrote the statement.
THEOREM ScanTypeCorrect == DSpec => []TypeOK
<1>1. ScanInv => TypeOK
  BY DEF ScanInv
<1> QED
  BY <1>1, ScanInit, ScanStep, PTL DEF DSpec

\* findBindPlaceholders finds the placeholders of a statement of any length, exactly and in order.
THEOREM PlaceholdersFound == DSpec => []ScanFindsPlaceholders
<1>1. ScanInv => ScanFindsPlaceholders
  <2> SUFFICES ASSUME ScanInv, pc = "scan", i > Len(sql), PlainNames(sql)
               PROVE  /\ Range(positions) = Placeholders(sql)
                      /\ \A m, n \in DOMAIN positions : m < n => positions[m] < positions[n]
    BY DEF ScanFindsPlaceholders
  <2>1. Found(sql, positions, i)
    BY DEF ScanInv, Scanned
  <2>2. sql \in Seq(Chars) /\ Len(sql) \in Nat /\ i \in Nat
    BY DEF ScanInv, TypeOK
  <2>3. Placeholders(sql) \subseteq 1..Len(sql)
    BY <2>2, StatementsAreTexts, TokensTile DEF Placeholders
  <2>4. {p \in Placeholders(sql) : p < i} = Placeholders(sql)
    BY <2>2, <2>3
  <2> QED
    BY <2>1, <2>4 DEF Found
<1> QED
  BY <1>1, ScanInit, ScanStep, PTL DEF DSpec

-----------------------------------------------------------------------------
\* The invariant behind ArgsArriveWhole: nothing is built before the statement is scanned, then
\* what is built has each argument in its place.

ArriveInv ==
  /\ pc = "scan" => args = <<>> /\ prev = 1 /\ sb = <<>>
  /\ pc = "splice" => i > Len(sql) /\ nargs > 0
  /\ pc /= "done" => result = "running"
  /\ PlainNames(sql) /\ Spaced(sql) => /\ pc = "splice" => Spliced
                                       /\ result = "ok" => Delivered

\* Nothing is built before the first step.
LEMMA ArriveInit == DInit => ArriveInv
BY DEF DInit, Init, ArriveInv

\* GORM's steps build nothing of the text that is sent.
LEMMA ArriveBuild == ScanInv /\ ArriveInv /\ Build => ArriveInv'
<1> SUFFICES ASSUME ScanInv, ArriveInv, Build PROVE ArriveInv'
  OBVIOUS
<1>1. building /\ pc = "scan"
  BY DEF ScanInv, Unread, Build, WriteName, WriteVar, Write, FullDataTypeOf, HasTable, HasColumn,
         Submit
<1>2. UNCHANGED <<args, pc, prev, sb, result>>
  BY DEF Build, WriteName, WriteVar, Write, FullDataTypeOf, HasTable, HasColumn, Submit, vars
<1> QED
  BY <1>1, <1>2 DEF ArriveInv

\* The driver's steps put every argument in its place.
LEMMA ArriveDriver == ScanInv /\ ArriveInv /\ Driver => ArriveInv'
<1> SUFFICES ASSUME ScanInv, ArriveInv, Driver PROVE ArriveInv'
  OBVIOUS
<1>1. /\ sql \in Seq(Chars) /\ sql \in Seq(Letter) /\ Len(sql) \in Nat /\ i \in 1..Len(sql) + 1
      /\ positions \in Seq(1..Len(sql)) /\ args \in Seq(Values) /\ nargs \in Nat
      /\ Next
  BY InterpolateAssumption, StatementsAreTexts DEF ScanInv, TypeOK, Driver
<1>2. sql' = sql /\ nargs' = nargs
  BY <1>1 DEF Next, findBindPlaceholders, ScanNormal, ScanLiteral, ScanBlock, ScanLine, Go,
         Placeholder, WrongCount, NoPlaceholders, StartSplice, CopyRest, Splice, Unsupported, splice
<1>3. CASE findBindPlaceholders
  <2>1. pc = "scan" /\ UNCHANGED <<pc, result, splice>>
    BY <1>3 DEF findBindPlaceholders, ScanNormal, ScanLiteral, ScanBlock, ScanLine, Go,
                Placeholder, Scanning
  <2> QED
    BY <2>1 DEF ArriveInv, splice
<1>4. CASE WrongCount
  <2>1. pc' = "done" /\ result' = "err"
    BY <1>4 DEF WrongCount, Return
  <2> QED
    BY <2>1 DEF ArriveInv
<1>5. CASE \E v \in Values : Unsupported(v)
  <2>1. pc' = "done" /\ result' = "err"
    BY <1>5 DEF Unsupported, Return
  <2> QED
    BY <2>1 DEF ArriveInv
<1>6. i > Len(sql) /\ PlainNames(sql) => Found(sql, positions, Len(sql) + 1)
  <2>1. i > Len(sql) => i = Len(sql) + 1
    BY <1>1
  <2> QED
    BY <2>1 DEF ScanInv, Scanned
<1>7. CASE NoPlaceholders
  <2>1. pc' = "done" /\ i > Len(sql) /\ nargs = Len(positions)
    BY <1>7 DEF NoPlaceholders, Return
  <2>2. PlainNames(sql) => Delivered'
    BY <1>1, <1>6, <1>7, <2>1, NoPlaceholdersDeliver
  <2> QED
    BY <1>2, <2>1, <2>2 DEF ArriveInv
<1>8. CASE StartSplice
  <2>1. /\ pc = "scan" /\ i > Len(sql) /\ nargs > 0 /\ pc' = "splice"
        /\ UNCHANGED <<i, result, args, prev, sb>>
    BY <1>8 DEF StartSplice, splice
  <2>2. args' = <<>> /\ prev' = 1 /\ sb' = <<>> /\ result' = "running"
    BY <2>1 DEF ArriveInv
  <2>3. (args = <<>> /\ prev = 1 /\ sb = <<>> => Spliced)'
    BY NothingSpliced, PTL
  <2> QED
    BY <1>2, <2>1, <2>2, <2>3 DEF ArriveInv
<1>9. ASSUME NEW v \in Values, Splice(v) PROVE ArriveInv'
  <2>1. /\ pc = "splice" /\ pc' = pc /\ nargs = Len(positions) /\ i > Len(sql)
        /\ UNCHANGED <<i, result>> /\ result = "running"
    BY <1>9 DEF Splice, ScanInv, Counted, ArriveInv
  <2>2. PlainNames(sql) /\ Spaced(sql) => Spliced'
    <3> SUFFICES ASSUME PlainNames(sql), Spaced(sql) PROVE Spliced'
      OBVIOUS
    <3>1. Spliced
      BY <2>1 DEF ArriveInv
    <3> QED
      BY <1>1, <1>6, <1>9, <2>1, <3>1, SpliceStep
  <2> QED
    BY <1>2, <2>1, <2>2 DEF ArriveInv
<1>10. CASE CopyRest
  <2>1. /\ pc = "splice" /\ pc' = "done" /\ nargs = Len(positions) /\ i > Len(sql)
    BY <1>10 DEF CopyRest, Return, ScanInv, Counted, ArriveInv
  <2>2. PlainNames(sql) /\ Spaced(sql) => Delivered'
    <3> SUFFICES ASSUME PlainNames(sql), Spaced(sql) PROVE Delivered'
      OBVIOUS
    <3>1. Spliced
      BY <2>1 DEF ArriveInv
    <3>2. nargs > 0
      BY <2>1 DEF ArriveInv
    <3> QED
      BY <1>1, <1>6, <1>10, <2>1, <3>1, <3>2, CopyRestDelivers
  <2> QED
    BY <1>2, <2>1, <2>2 DEF ArriveInv
<1> QED
  BY <1>1, <1>3, <1>4, <1>5, <1>7, <1>8, <1>9, <1>10 DEF Next

\* Every step keeps the arguments in their places.
LEMMA ArriveStep == ScanInv /\ ArriveInv /\ [DNext]_dvars => ArriveInv'
<1> SUFFICES ASSUME ScanInv, ArriveInv, [DNext]_dvars PROVE ArriveInv'
  OBVIOUS
<1>1. CASE UNCHANGED dvars
  <2>1. UNCHANGED <<sql, nargs, args, pc, i, positions, prev, sb, result>>
    BY <1>1 DEF dvars, vars
  <2>2. \A k : Offset(k)' = Offset(k)
    BY <2>1 DEF Offset
  <2> QED
    BY <2>1, <2>2 DEF ArriveInv, Spliced, Delivered
<1> QED
  BY <1>1, ArriveBuild, ArriveDriver DEF DNext

\* In a statement of any length with any arguments, each argument InterpolateArgs replaces arrives
\* as one value in the place of its placeholder, and brings no placeholder of its own.
THEOREM ArgumentsArrive == DSpec => []ArgsArriveWhole
<1>1. ArriveInv => ArgsArriveWhole
  BY DEF ArriveInv, ArgsArriveWhole, Delivered, Arrived
<1>2. DInit => ScanInv /\ ArriveInv
  BY ScanInit, ArriveInit
<1>3. ScanInv /\ ArriveInv /\ [DNext]_dvars => (ScanInv /\ ArriveInv)'
  BY ScanStep, ArriveStep
<1> QED
  BY <1>1, <1>2, <1>3, PTL DEF DSpec

-----------------------------------------------------------------------------
\* The identifiers of a text, token by token.

NameStarts(s) == {k \in TokenStarts(s) : s[k] = "d"}

Token(s, k) == SubSeq(s, k, TokenEnd(s, k))

NameAt(s, k) == NameOf(Token(s, k))

Named(s, g, k) ==
  IF k = 0 THEN <<>>
  ELSE IF k \in NameStarts(s) THEN Append(g[k - 1], NameAt(s, k)) ELSE g[k - 1]

IsNamed(s, g, n) == g = [k \in 0..n |-> Named(s, g, k)]

\* The recursive function behind Identifiers exists, for texts of every length.
LEMMA NamedExists ==
  ASSUME NEW s, NEW n \in Nat
  PROVE  \E g : IsNamed(s, g, n)
<1> DEFINE P == {m \in Nat : \E g : IsNamed(s, g, m)}
<1>1. 0 \in P
  <2> DEFINE g == [k \in 0..0 |-> <<>>]
  <2>1. \A k \in 0..0 : Named(s, g, k) = <<>>
    BY DEF Named
  <2>2. IsNamed(s, g, 0)
    BY <2>1 DEF IsNamed
  <2> QED
    BY <2>2
<1>2. \A m \in Nat : m \in P => m + 1 \in P
  <2> SUFFICES ASSUME NEW m \in Nat, NEW g, IsNamed(s, g, m)
               PROVE  \E h : IsNamed(s, h, m + 1)
    OBVIOUS
  <2> DEFINE h == [k \in 0..m + 1 |-> Named(s, g, k)]
  <2>1. \A k \in 0..m : h[k] = g[k]
    BY DEF IsNamed
  <2>2. \A k \in 0..m + 1 : Named(s, h, k) = Named(s, g, k)
    <3> SUFFICES ASSUME NEW k \in 0..m + 1 PROVE Named(s, h, k) = Named(s, g, k)
      OBVIOUS
    <3>1. k = 0 \/ k - 1 \in 0..m
      OBVIOUS
    <3> HIDE DEF h
    <3> QED
      BY <2>1, <3>1 DEF Named
  <2>3. IsNamed(s, h, m + 1)
    BY <2>2 DEF IsNamed
  <2> QED
    BY <2>3
<1>3. Nat \subseteq P
  <2> HIDE DEF P
  <2> QED
    BY <1>1, <1>2, SetInduction
<1> QED
  BY <1>3

NamedOf(s) == CHOOSE g : IsNamed(s, g, Len(s))

\* Identifiers adds one name at each position where a quoted identifier starts.
LEMMA NamedSteps ==
  ASSUME NEW s \in Seq(Letter)
  PROVE  /\ Identifiers(s) = NamedOf(s)[Len(s)]
         /\ \A k \in 0..Len(s) : NamedOf(s)[k] = Named(s, NamedOf(s), k)
<1>1. IsNamed(s, NamedOf(s), Len(s))
  BY NamedExists DEF NamedOf
<1>2. Identifiers(s) = NamedOf(s)[Len(s)]
  BY DEF Identifiers, NamedOf, IsNamed, Named, NameStarts, NameAt, Token
<1>3. \A k \in 0..Len(s) : NamedOf(s)[k] = Named(s, NamedOf(s), k)
  BY <1>1 DEF IsNamed
<1> QED
  BY <1>2, <1>3

\* What is read back is a text.
LEMMA UndoubledType ==
  ASSUME NEW s \in Seq(Letter), NEW D
  PROVE  Undoubled(s, D) \in Seq(Letter)
<1> DEFINE n == Len(s)
           r == ReadOf(s, D)
           P == {k \in Nat : k <= n => r[k].text \in Seq(Letter)}
<1>0. n \in Nat
  OBVIOUS
<1>1. Undoubled(s, D) = r[n].text /\ \A k \in 0..n : r[k] = Read(s, D, r, k)
  BY ReadSteps
<1> HIDE DEF r
<1>2. 0 \in P
  <2>1. r[0] = Read(s, D, r, 0)
    BY <1>0, <1>1
  <2>2. r[0].text = <<>>
    BY <2>1 DEF Read
  <2>3. <<>> \in Seq(Letter)
    OBVIOUS
  <2> QED
    BY <2>2, <2>3
<1>3. \A k \in Nat : k \in P => k + 1 \in P
  <2> SUFFICES ASSUME NEW k \in Nat, k + 1 <= n, r[k].text \in Seq(Letter)
               PROVE  r[k + 1].text \in Seq(Letter)
    BY <1>0
  <2> DEFINE m == k + 1
  <2>1. m \in 0..n /\ m /= 0 /\ m - 1 = k /\ s[m] \in Letter
    BY <1>0
  <2> HIDE DEF m
  <2>2. r[m] = Read(s, D, r, m)
    BY <1>1, <2>1
  <2>3. r[m].text = r[k].text \/ r[m].text = Append(r[k].text, s[m])
    BY <2>1, <2>2 DEF Read
  <2>4. r[m].text \in Seq(Letter)
    <3> DEFINE x == r[k].text
               c == s[m]
    <3>1. x \in Seq(Letter) /\ c \in Letter
      BY <2>1
    <3> HIDE DEF x, c
    <3>2. Append(x, c) \in Seq(Letter)
      BY <3>1
    <3> QED
      BY <2>3, <3>1, <3>2 DEF x, c
  <2> QED
    BY <2>4 DEF m
<1>4. n \in P
  <2> HIDE DEF P
  <2> QED
    BY <1>0, <1>2, <1>3, SetInduction
<1> QED
  BY <1>0, <1>1, <1>4

\* A name that is read back is a text.
LEMMA NameAtType ==
  ASSUME NEW s \in Seq(Letter), NEW k \in 1..Len(s)
  PROVE  NameAt(s, k) \in Seq(Letter)
<1> DEFINE e == TokenEnd(s, k)
           t == SubSeq(s, k, e)
           u == SubSeq(t, 2, Len(t) - 1)
<1>1. e \in k..Len(s)
  BY TokenEndBounds
<1> HIDE DEF e
<1>2. t \in Seq(Letter)
  BY <1>1, SliceIs
<1> HIDE DEF t
<1>3. u \in Seq(Letter)
  BY <1>2
<1> HIDE DEF u
<1>4. Undoubled(u, {"d"}) \in Seq(Letter)
  BY <1>3, UndoubledType
<1> QED
  BY <1>4 DEF NameAt, Token, NameOf, e, t, u

\* The names found so far are texts.
LEMMA NamedType ==
  ASSUME NEW s \in Seq(Letter)
  PROVE  \A k \in 0..Len(s) : NamedOf(s)[k] \in Seq(Seq(Letter))
<1> DEFINE n == Len(s)
           g == NamedOf(s)
           P == {k \in Nat : k <= n => g[k] \in Seq(Seq(Letter))}
<1>0. n \in Nat
  OBVIOUS
<1>1. \A k \in 0..n : g[k] = Named(s, g, k)
  BY NamedSteps
<1> HIDE DEF g
<1>2. 0 \in P
  <2>1. g[0] = Named(s, g, 0)
    BY <1>0, <1>1
  <2>2. g[0] = <<>>
    BY <2>1 DEF Named
  <2>3. <<>> \in Seq(Seq(Letter))
    OBVIOUS
  <2> QED
    BY <2>2, <2>3
<1>3. \A k \in Nat : k \in P => k + 1 \in P
  <2> SUFFICES ASSUME NEW k \in Nat, k + 1 <= n, g[k] \in Seq(Seq(Letter))
               PROVE  g[k + 1] \in Seq(Seq(Letter))
    BY <1>0
  <2> DEFINE m == k + 1
  <2>1. m \in 1..n /\ m \in 0..n /\ m /= 0 /\ m - 1 = k
    BY <1>0
  <2> HIDE DEF m
  <2>2. g[m] = Named(s, g, m) /\ NameAt(s, m) \in Seq(Letter)
    BY <1>1, <2>1, NameAtType
  <2>3. g[m] = g[k] \/ g[m] = Append(g[k], NameAt(s, m))
    BY <2>1, <2>2 DEF Named
  <2>4. g[m] \in Seq(Seq(Letter))
    <3> DEFINE x == g[k]
               c == NameAt(s, m)
    <3>1. x \in Seq(Seq(Letter)) /\ c \in Seq(Letter)
      BY <2>2
    <3> HIDE DEF x, c
    <3>2. Append(x, c) \in Seq(Seq(Letter))
      BY <3>1
    <3> QED
      BY <2>3, <3>1, <3>2 DEF x, c
  <2> QED
    BY <2>4 DEF m
<1>4. Nat \subseteq P
  <2> HIDE DEF P
  <2> QED
    BY <1>2, <1>3, SetInduction
<1> QED
  BY <1>0, <1>4 DEF g

\* The identifiers of a text are texts.
LEMMA IdentifiersType ==
  ASSUME NEW s \in Seq(Letter)
  PROVE  Identifiers(s) \in Seq(Seq(Letter))
<1>1. Len(s) \in 0..Len(s)
  OBVIOUS
<1> QED
  BY <1>1, NamedSteps, NamedType

\* A slice of a joined text that lies in one part is a slice of that part.
LEMMA JoinedSlices ==
  ASSUME NEW u \in Seq(Letter), NEW v \in Seq(Letter)
  PROVE  /\ \A k \in 1..Len(u) : \A e \in k..Len(u) : SubSeq(u \o v, k, e) = SubSeq(u, k, e)
         /\ \A k \in 1..Len(v) : \A e \in k..Len(v) :
              SubSeq(u \o v, Len(u) + k, Len(u) + e) = SubSeq(v, k, e)
<1> DEFINE a == Len(u)
           b == Len(v)
           w == u \o v
<1>0. a \in Nat /\ b \in Nat
  OBVIOUS
<1>1. /\ w \in Seq(Letter) /\ Len(w) = a + b
      /\ \A j \in 1..a : w[j] = u[j]
      /\ \A j \in 1..b : w[a + j] = v[j]
  BY JoinedLetters
<1> HIDE DEF w
<1>2. ASSUME NEW k \in 1..a, NEW e \in k..a
      PROVE  SubSeq(w, k, e) = SubSeq(u, k, e)
  <2> DEFINE x == SubSeq(w, k, e)
             y == SubSeq(u, k, e)
  <2>1. /\ k \in 1..Len(u) + 1 /\ e \in k - 1..Len(u) /\ k \in 1..Len(w) + 1 /\ e \in k - 1..Len(w)
        /\ e - k + 1 \in Nat
    BY <1>0, <1>1
  <2>2. /\ x \in Seq(Letter) /\ Len(x) = e - k + 1 /\ \A j \in 1..Len(x) : x[j] = w[k - 1 + j]
        /\ y \in Seq(Letter) /\ Len(y) = e - k + 1 /\ \A j \in 1..Len(y) : y[j] = u[k - 1 + j]
    BY <1>1, <2>1, SliceIs
  <2> HIDE DEF x, y
  <2>3. \A j \in 1..Len(x) : k - 1 + j \in 1..a
    BY <1>0, <2>2
  <2>4. ASSUME NEW j \in 1..Len(x) PROVE x[j] = y[j]
    BY <1>1, <2>2, <2>3
  <2>5. x = y
    BY <2>2, <2>4
  <2> QED
    BY <2>5 DEF x, y
<1>3. ASSUME NEW k \in 1..b, NEW e \in k..b
      PROVE  SubSeq(w, a + k, a + e) = SubSeq(v, k, e)
  <2> DEFINE p == a + k
             q == a + e
             x == SubSeq(w, p, q)
             y == SubSeq(v, k, e)
  <2>1. /\ k \in 1..Len(v) + 1 /\ e \in k - 1..Len(v) /\ p \in 1..Len(w) + 1 /\ q \in p - 1..Len(w)
        /\ q - p + 1 = e - k + 1 /\ e - k + 1 \in Nat
    BY <1>0, <1>1
  <2>2. \A j \in 1..e - k + 1 : p - 1 + j = a + (k - 1 + j) /\ k - 1 + j \in 1..b
    BY <1>0
  <2> HIDE DEF p, q
  <2>3. /\ x \in Seq(Letter) /\ Len(x) = e - k + 1 /\ \A j \in 1..Len(x) : x[j] = w[p - 1 + j]
        /\ y \in Seq(Letter) /\ Len(y) = e - k + 1 /\ \A j \in 1..Len(y) : y[j] = v[k - 1 + j]
    BY <1>1, <2>1, SliceIs
  <2> HIDE DEF x, y
  <2>4. ASSUME NEW j \in 1..Len(x) PROVE x[j] = y[j]
    <3>1. x[j] = w[p - 1 + j] /\ y[j] = v[k - 1 + j] /\ p - 1 + j = a + (k - 1 + j)
          /\ k - 1 + j \in 1..b
      BY <2>2, <2>3
    <3> QED
      BY <1>1, <3>1
  <2>5. x = y
    BY <2>3, <2>4
  <2> QED
    BY <2>5 DEF x, y, p, q
<1> QED
  BY <1>2, <1>3 DEF w

\* The names of two texts that are joined.
LEMMA JoinedNames ==
  ASSUME NEW u \in Seq(Letter), NEW v \in Seq(Letter), Ended(u), Joins(u, v)
  PROVE  /\ \A k \in 1..Len(u) : /\ k \in NameStarts(u \o v) <=> k \in NameStarts(u)
                                 /\ k \in NameStarts(u) => Token(u \o v, k) = Token(u, k)
         /\ \A k \in 1..Len(v) : /\ Len(u) + k \in NameStarts(u \o v) <=> k \in NameStarts(v)
                                 /\ Token(u \o v, Len(u) + k) = Token(v, k)
<1> DEFINE a == Len(u)
           b == Len(v)
           w == u \o v
<1>0. a \in Nat /\ b \in Nat
  OBVIOUS
<1>1. /\ w \in Seq(Letter) /\ Len(w) = a + b
      /\ \A j \in 1..a : w[j] = u[j]
      /\ \A j \in 1..b : w[a + j] = v[j]
  BY JoinedLetters
<1>2. /\ TokenStarts(w) = TokenStarts(u) \cup {a + k : k \in TokenStarts(v)}
      /\ \A k \in TokenStarts(u) : TokenEnd(w, k) = TokenEnd(u, k)
  BY JoinedTokens
<1>3. TokenStarts(u) \subseteq 1..a /\ TokenStarts(v) \subseteq 1..b
  BY TokensTile
<1>4. \A k \in 1..b : TokenEnd(w, a + k) = a + TokenEnd(v, k)
  BY SuffixToken
<1>5. /\ \A k \in 1..a : \A e \in k..a : SubSeq(w, k, e) = SubSeq(u, k, e)
      /\ \A k \in 1..b : \A e \in k..b : SubSeq(w, a + k, a + e) = SubSeq(v, k, e)
  BY JoinedSlices
<1> HIDE DEF w
<1>6. ASSUME NEW k \in 1..a
      PROVE  k \in TokenStarts(w) <=> k \in TokenStarts(u)
  <2>1. \A j \in TokenStarts(v) : a + j /= k
    BY <1>0, <1>3
  <2> QED
    BY <1>2, <2>1
<1>7. ASSUME NEW k \in 1..b
      PROVE  a + k \in TokenStarts(w) <=> k \in TokenStarts(v)
  <2>1. a + k \notin TokenStarts(u)
    BY <1>0, <1>3
  <2>2. \A j \in TokenStarts(v) : a + j = a + k => j = k
    BY <1>0, <1>3
  <2> QED
    BY <1>2, <2>1, <2>2
<1>8. ASSUME NEW k \in 1..a
      PROVE  /\ k \in NameStarts(w) <=> k \in NameStarts(u)
             /\ k \in NameStarts(u) => Token(w, k) = Token(u, k)
  <2>1. k \in NameStarts(w) <=> k \in NameStarts(u)
    BY <1>1, <1>6 DEF NameStarts
  <2>2. k \in NameStarts(u) => Token(w, k) = Token(u, k)
    <3> SUFFICES ASSUME k \in TokenStarts(u) PROVE Token(w, k) = Token(u, k)
      BY DEF NameStarts
    <3>1. TokenEnd(w, k) = TokenEnd(u, k) /\ TokenEnd(u, k) \in k..a
      BY <1>2, TokenEndBounds
    <3>2. SubSeq(w, k, TokenEnd(w, k)) = SubSeq(u, k, TokenEnd(u, k))
      BY <1>5, <3>1
    <3> QED
      BY <3>2 DEF Token
  <2> QED
    BY <2>1, <2>2
<1>9. ASSUME NEW k \in 1..b
      PROVE  /\ a + k \in NameStarts(w) <=> k \in NameStarts(v)
             /\ Token(w, a + k) = Token(v, k)
  <2>1. a + k \in NameStarts(w) <=> k \in NameStarts(v)
    BY <1>1, <1>7 DEF NameStarts
  <2>2. TokenEnd(w, a + k) = a + TokenEnd(v, k) /\ TokenEnd(v, k) \in k..b
    BY <1>4, TokenEndBounds
  <2>3. SubSeq(w, a + k, TokenEnd(w, a + k)) = SubSeq(v, k, TokenEnd(v, k))
    BY <1>5, <2>2
  <2> QED
    BY <2>1, <2>3 DEF Token
<1> QED
  BY <1>8, <1>9 DEF w

\* Appending to the second of two lists appends to both joined.
LEMMA AppendJoined ==
  ASSUME NEW x \in Seq(Seq(Letter)), NEW y \in Seq(Seq(Letter)), NEW c \in Seq(Letter)
  PROVE  Append(x \o y, c) = x \o Append(y, c)
<1> DEFINE p == Append(x \o y, c)
           q == x \o Append(y, c)
           m == Len(x)
           n == Len(y)
<1>1. m \in Nat /\ n \in Nat
  OBVIOUS
<1>2. p \in Seq(Seq(Letter)) /\ Len(p) = m + n + 1 /\ q \in Seq(Seq(Letter)) /\ Len(q) = m + n + 1
  OBVIOUS
<1>3. /\ \A j \in 1..m : p[j] = x[j]
      /\ \A j \in m + 1..m + n : p[j] = y[j - m]
      /\ p[m + n + 1] = c
  OBVIOUS
<1>4. /\ \A j \in 1..m : q[j] = x[j]
      /\ \A j \in m + 1..m + n : q[j] = y[j - m]
      /\ q[m + n + 1] = c
  OBVIOUS
<1> HIDE DEF p, q, m, n
<1>5. \A j \in 1..m + n + 1 : p[j] = q[j]
  <2> SUFFICES ASSUME NEW j \in 1..m + n + 1 PROVE p[j] = q[j]
    OBVIOUS
  <2>1. j \in 1..m \/ j \in m + 1..m + n \/ j = m + n + 1
    BY <1>1
  <2> QED
    BY <1>3, <1>4, <2>1
<1>6. p = q
  BY <1>2, <1>5
<1> QED
  BY <1>6 DEF p, q

\* The elements of two lists that are joined.
LEMMA JoinedLists ==
  ASSUME NEW x \in Seq(Seq(Letter)), NEW y \in Seq(Seq(Letter))
  PROVE  /\ x \o y \in Seq(Seq(Letter)) /\ Len(x \o y) = Len(x) + Len(y)
         /\ \A j \in 1..Len(x) : (x \o y)[j] = x[j]
         /\ \A j \in Len(x) + 1..Len(x) + Len(y) : (x \o y)[j] = y[j - Len(x)]
OBVIOUS

\* Joining lists is associative.
LEMMA JoinedThrice ==
  ASSUME NEW x \in Seq(Seq(Letter)), NEW y \in Seq(Seq(Letter)), NEW z \in Seq(Seq(Letter))
  PROVE  (x \o y) \o z = x \o (y \o z)
<1> DEFINE u == x \o y
           v == y \o z
           p == u \o z
           q == x \o v
           a == Len(x)
           b == Len(y)
           c == Len(z)
<1>1. a \in Nat /\ b \in Nat /\ c \in Nat
  OBVIOUS
<1>2. /\ u \in Seq(Seq(Letter)) /\ Len(u) = a + b
      /\ \A j \in 1..a : u[j] = x[j]
      /\ \A j \in a + 1..a + b : u[j] = y[j - a]
  BY JoinedLists
<1>3. /\ v \in Seq(Seq(Letter)) /\ Len(v) = b + c
      /\ \A j \in 1..b : v[j] = y[j]
      /\ \A j \in b + 1..b + c : v[j] = z[j - b]
  BY JoinedLists
<1> HIDE DEF u, v
<1>4. /\ p \in Seq(Seq(Letter)) /\ Len(p) = Len(u) + c
      /\ \A j \in 1..Len(u) : p[j] = u[j]
      /\ \A j \in Len(u) + 1..Len(u) + c : p[j] = z[j - Len(u)]
  BY <1>2, JoinedLists
<1>5. /\ q \in Seq(Seq(Letter)) /\ Len(q) = a + Len(v)
      /\ \A j \in 1..a : q[j] = x[j]
      /\ \A j \in a + 1..a + Len(v) : q[j] = v[j - a]
  BY <1>3, JoinedLists
<1> HIDE DEF p, q, a, b, c
<1>6. Len(u) = a + b /\ Len(v) = b + c /\ Len(p) = a + b + c /\ Len(q) = a + b + c
  BY <1>1, <1>2, <1>3, <1>4, <1>5
<1>7. ASSUME NEW j \in 1..a + b + c PROVE p[j] = q[j]
  <2>1. CASE j \in 1..a
    <3>1. j \in 1..Len(u)
      BY <1>1, <1>2, <2>1
    <3> QED
      BY <1>2, <1>4, <1>5, <2>1, <3>1
  <2>2. CASE j \in a + 1..a + b
    <3>1. j \in 1..Len(u) /\ j \in a + 1..a + Len(v) /\ j - a \in 1..b
      BY <1>1, <1>2, <1>3, <2>2
    <3> QED
      BY <1>2, <1>3, <1>4, <1>5, <2>2, <3>1
  <2>3. CASE j \in a + b + 1..a + b + c
    <3>1. /\ j \in Len(u) + 1..Len(u) + c /\ j \in a + 1..a + Len(v) /\ j - a \in b + 1..b + c
          /\ j - Len(u) = (j - a) - b
      BY <1>1, <1>6, <2>3
    <3>2. p[j] = z[(j - a) - b] /\ q[j] = v[j - a] /\ v[j - a] = z[(j - a) - b]
      BY <1>3, <1>4, <1>5, <3>1
    <3> QED
      BY <3>2
  <2> QED
    BY <1>1, <2>1, <2>2, <2>3
<1>8. p = q
  <2>1. p \in Seq(Seq(Letter)) /\ q \in Seq(Seq(Letter))
    BY <1>4, <1>5
  <2> QED
    BY <1>6, <1>7, <2>1
<1> QED
  BY <1>8 DEF p, q, u, v

\* A joined text has the identifiers of its first part, then those of its second.
LEMMA IdentifiersJoined ==
  ASSUME NEW u \in Seq(Letter), NEW v \in Seq(Letter), Ended(u), Joins(u, v)
  PROVE  Identifiers(u \o v) = Identifiers(u) \o Identifiers(v)
<1> DEFINE a == Len(u)
           b == Len(v)
           w == u \o v
           gu == NamedOf(u)
           gv == NamedOf(v)
           gw == NamedOf(w)
<1>0. a \in Nat /\ b \in Nat
  OBVIOUS
<1>1. w \in Seq(Letter) /\ Len(w) = a + b
  BY JoinedLetters
<1>2. /\ \A k \in 1..a : /\ k \in NameStarts(w) <=> k \in NameStarts(u)
                         /\ k \in NameStarts(u) => NameAt(w, k) = NameAt(u, k)
      /\ \A k \in 1..b : /\ a + k \in NameStarts(w) <=> k \in NameStarts(v)
                         /\ NameAt(w, a + k) = NameAt(v, k)
  BY JoinedNames DEF NameAt
<1> HIDE DEF w
<1>3. /\ Identifiers(u) = gu[a] /\ Identifiers(v) = gv[b] /\ Identifiers(w) = gw[a + b]
      /\ \A k \in 0..a : gu[k] = Named(u, gu, k)
      /\ \A k \in 0..b : gv[k] = Named(v, gv, k)
      /\ \A k \in 0..a + b : gw[k] = Named(w, gw, k)
  BY <1>1, NamedSteps
<1>4. /\ \A k \in 0..a : gu[k] \in Seq(Seq(Letter))
      /\ \A k \in 0..b : gv[k] \in Seq(Seq(Letter))
  BY NamedType
<1> HIDE DEF gu, gv, gw
<1>5. gw[0] = <<>> /\ gu[0] = <<>> /\ gv[0] = <<>>
  <2>1. 0 \in 0..a /\ 0 \in 0..b /\ 0 \in 0..a + b
    BY <1>0
  <2>2. gw[0] = Named(w, gw, 0) /\ gu[0] = Named(u, gu, 0) /\ gv[0] = Named(v, gv, 0)
    BY <1>3, <2>1
  <2> QED
    BY <2>2 DEF Named
<1>6. gw[a] = gu[a]
  <2> DEFINE P == {k \in Nat : k <= a => gw[k] = gu[k]}
  <2>1. 0 \in P
    BY <1>5
  <2>2. \A k \in Nat : k \in P => k + 1 \in P
    <3> SUFFICES ASSUME NEW k \in Nat, k + 1 <= a, gw[k] = gu[k] PROVE gw[k + 1] = gu[k + 1]
      BY <1>0
    <3> DEFINE m == k + 1
    <3>1. m \in 1..a /\ m \in 0..a /\ m \in 0..a + b /\ m /= 0 /\ m - 1 = k
      BY <1>0
    <3> HIDE DEF m
    <3>2. gw[m] = Named(w, gw, m) /\ gu[m] = Named(u, gu, m)
      BY <1>3, <3>1
    <3>3. gw[m] = gu[m]
      BY <1>2, <3>1, <3>2 DEF Named
    <3> QED
      BY <3>3 DEF m
  <2>3. Nat \subseteq P
    <3> HIDE DEF P
    <3> QED
      BY <2>1, <2>2, SetInduction
  <2> QED
    BY <1>0, <2>3
<1>7. gw[a + b] = gu[a] \o gv[b]
  <2> DEFINE R(k) == gw[a + k] = gu[a] \o gv[k]
             P == {k \in Nat : k <= b => R(k)}
  <2>1. 0 \in P
    <3>1. a + 0 = a /\ a \in 0..a
      BY <1>0
    <3>2. gu[a] \o <<>> = gu[a]
      <4> DEFINE x == gu[a]
      <4>1. x \in Seq(Seq(Letter))
        BY <1>4, <3>1
      <4> HIDE DEF x
      <4>2. x \o <<>> = x
        BY <4>1
      <4> QED
        BY <4>2 DEF x
    <3>3. gw[a + 0] = gu[a] \o gv[0]
      BY <1>5, <1>6, <3>1, <3>2
    <3> QED
      BY <3>3
  <2>2. \A k \in Nat : k \in P => k + 1 \in P
    <3> SUFFICES ASSUME NEW k \in Nat, k + 1 <= b, R(k) PROVE R(k + 1)
      <4> HIDE DEF R
      <4> QED
        BY <1>0
    <3> DEFINE m == k + 1
               n == a + m
               j == a + k
    <3>1. /\ m \in 1..b /\ m \in 0..b /\ m /= 0 /\ m - 1 = k
          /\ n \in 0..a + b /\ n /= 0 /\ n - 1 = j /\ k \in 0..b /\ a \in 0..a
      BY <1>0
    <3>2. /\ n \in NameStarts(w) <=> m \in NameStarts(v)
          /\ NameAt(w, n) = NameAt(v, m)
      <4> HIDE DEF m
      <4> QED
        BY <1>2, <3>1
    <3> HIDE DEF m, n, j
    <3>3. gw[n] = Named(w, gw, n) /\ gv[m] = Named(v, gv, m)
      BY <1>3, <3>1
    <3> DEFINE x == gu[a]
               y == gv[k]
               c == NameAt(v, m)
    <3>4. x \in Seq(Seq(Letter)) /\ y \in Seq(Seq(Letter)) /\ c \in Seq(Letter)
      BY <1>4, <3>1, NameAtType
    <3>5. gw[j] = x \o y
      BY DEF j
    <3>6. gv[m] = (IF m \in NameStarts(v) THEN Append(y, c) ELSE y)
      BY <3>1, <3>3 DEF Named
    <3>7. gw[n] = (IF m \in NameStarts(v) THEN Append(x \o y, c) ELSE x \o y)
      BY <3>1, <3>2, <3>3, <3>5 DEF Named
    <3> HIDE DEF x, y, c
    <3>8. Append(x \o y, c) = x \o Append(y, c)
      BY <3>4, AppendJoined
    <3>9. gw[n] = x \o gv[m]
      BY <3>6, <3>7, <3>8
    <3> QED
      BY <3>9 DEF x, m, n
  <2>3. Nat \subseteq P
    <3> HIDE DEF P
    <3> QED
      BY <2>1, <2>2, SetInduction
  <2>4. R(b)
    <3> HIDE DEF R
    <3> QED
      BY <1>0, <2>3
  <2> QED
    BY <2>4
<1> QED
  BY <1>3, <1>7 DEF w

\* A text with a name at its start and nowhere else, or with none.
LEMMA OneName ==
  ASSUME NEW s \in Seq(Letter), NameStarts(s) \subseteq {1}
  PROVE  /\ NameStarts(s) = {} => Identifiers(s) = <<>>
         /\ NameStarts(s) = {1} => Identifiers(s) = <<NameAt(s, 1)>>
<1> DEFINE n == Len(s)
           g == NamedOf(s)
           one == IF NameStarts(s) = {} THEN <<>> ELSE <<NameAt(s, 1)>>
           P == {k \in Nat : 1 <= k /\ k <= n => g[k] = one}
<1>0. n \in Nat /\ NameStarts(s) \subseteq 1..n
  BY TokensTile DEF NameStarts
<1>1. Identifiers(s) = g[n] /\ \A k \in 0..n : g[k] = Named(s, g, k)
  BY NamedSteps
<1> HIDE DEF g, n
<1>2. g[0] = <<>>
  <2>1. 0 \in 0..n
    BY <1>0
  <2>2. g[0] = Named(s, g, 0)
    BY <1>1, <2>1
  <2> QED
    BY <2>2 DEF Named
<1>3. \A k \in Nat : k \in P => k + 1 \in P
  <2> SUFFICES ASSUME NEW k \in Nat, k + 1 <= n, k >= 1 => g[k] = one PROVE g[k + 1] = one
    <3> HIDE DEF one
    <3> QED
      BY <1>0
  <2> DEFINE m == k + 1
  <2>1. m \in 0..n /\ m /= 0 /\ m - 1 = k
    BY <1>0
  <2> HIDE DEF m
  <2>2. g[m] = Named(s, g, m)
    BY <1>1, <2>1
  <2>3. CASE k = 0
    <3>1. m = 1
      BY <2>3 DEF m
    <3>2. g[m] = one
      <4>1. CASE NameStarts(s) = {}
        BY <1>2, <2>1, <2>2, <2>3, <4>1 DEF Named
      <4>2. CASE NameStarts(s) /= {}
        <5>1. 1 \in NameStarts(s)
          BY <4>2
        <5>2. g[m] = Append(<<>>, NameAt(s, 1))
          BY <1>2, <2>1, <2>2, <2>3, <3>1, <5>1 DEF Named
        <5> QED
          BY <4>2, <5>2
      <4> QED
        BY <4>1, <4>2
    <3> QED
      BY <3>2 DEF m
  <2>4. CASE k /= 0
    <3>1. m \notin NameStarts(s)
      BY <2>4 DEF m
    <3>2. g[m] = g[k]
      BY <2>1, <2>2, <3>1 DEF Named
    <3>3. k >= 1
      BY <2>4
    <3> HIDE DEF one
    <3> QED
      BY <3>2, <3>3 DEF m
  <2> QED
    BY <2>3, <2>4
<1>4. n \in P
  <2>1. 0 \in P
    OBVIOUS
  <2> HIDE DEF P
  <2> QED
    BY <1>0, <1>3, <2>1, SetInduction
<1>5. CASE n = 0
  <2>1. NameStarts(s) = {}
    BY <1>0, <1>5
  <2> QED
    BY <1>1, <1>2, <1>5, <2>1
<1>6. CASE n /= 0
  <2>1. g[n] = one
    BY <1>0, <1>4, <1>6
  <2>2. {1} /= {}
    OBVIOUS
  <2> QED
    BY <1>1, <2>1, <2>2
<1> QED
  BY <1>5, <1>6

-----------------------------------------------------------------------------
\* What GORM writes: a text with certain names and a number of placeholders, all tokens closed.

Built(t, ns, b) ==
  /\ t \in Seq(Letter) /\ Ended(t) /\ PlainNames(t) /\ Spaced(t)
  /\ Identifiers(t) = ns
  /\ Cardinality(Placeholders(t)) = b

\* The placeholders of a text can be counted.
LEMMA PlaceholdersCount ==
  ASSUME NEW s \in Seq(Letter)
  PROVE  /\ Placeholders(s) \subseteq 1..Len(s) /\ IsFiniteSet(Placeholders(s))
         /\ Cardinality(Placeholders(s)) \in Nat
<1>1. Placeholders(s) \subseteq 1..Len(s)
  BY TokensTile DEF Placeholders
<1>2. IsFiniteSet(1..Len(s))
  BY FS_Interval
<1> QED
  BY <1>1, <1>2, FS_Subset, FS_CardinalityType

\* A joined text has the placeholders of both parts.
LEMMA JoinedCount ==
  ASSUME NEW u \in Seq(Letter), NEW v \in Seq(Letter), Ended(u), Joins(u, v)
  PROVE  /\ Placeholders(u \o v) = Placeholders(u) \cup {Len(u) + k : k \in Placeholders(v)}
         /\ Cardinality(Placeholders(u \o v))
              = Cardinality(Placeholders(u)) + Cardinality(Placeholders(v))
<1> DEFINE a == Len(u)
           w == u \o v
           T == {a + k : k \in Placeholders(v)}
<1>0. a \in Nat
  OBVIOUS
<1>1. /\ \A j \in 1..a : w[j] = u[j]
      /\ \A j \in 1..Len(v) : w[a + j] = v[j]
  BY JoinedLetters
<1>2. TokenStarts(w) = TokenStarts(u) \cup {a + k : k \in TokenStarts(v)}
  BY JoinedTokens
<1>3. TokenStarts(u) \subseteq 1..a /\ TokenStarts(v) \subseteq 1..Len(v)
  BY TokensTile
<1> HIDE DEF w, a
<1>4. Placeholders(w) = Placeholders(u) \cup T
  BY <1>1, <1>2, <1>3 DEF Placeholders
<1>5. /\ Placeholders(u) \subseteq 1..a /\ IsFiniteSet(Placeholders(u))
      /\ Placeholders(v) \subseteq 1..Len(v) /\ IsFiniteSet(Placeholders(v))
  BY PlaceholdersCount DEF a
<1>6. IsFiniteSet(T) /\ Cardinality(T) = Cardinality(Placeholders(v))
  <2> DEFINE S == Placeholders(v)
             f == [k \in S |-> a + k]
  <2>1. S \subseteq Nat
    BY <1>5
  <2>2. f \in Bijection(S, T)
    <3>1. f \in [S -> T]
      OBVIOUS
    <3>2. \A x, y \in S : f[x] = f[y] => x = y
      BY <1>0, <2>1
    <3>3. \A t \in T : \E x \in S : f[x] = t
      OBVIOUS
    <3> HIDE DEF f, S, T
    <3> QED
      BY <3>1, <3>2, <3>3 DEF Bijection, Injection, Surjection, IsInjective
  <2> HIDE DEF f, T
  <2> QED
    BY <1>5, <2>2, FS_Bijection DEF ExistsBijection
<1>7. Placeholders(u) \cap T = {}
  BY <1>0, <1>5
<1>8. Cardinality({}) = 0
  BY FS_EmptySet
<1>9. Cardinality(Placeholders(u)) \in Nat /\ Cardinality(Placeholders(v)) \in Nat
  BY <1>5, FS_CardinalityType
<1> HIDE DEF T
<1>10. Cardinality(Placeholders(w)) = Cardinality(Placeholders(u)) + Cardinality(T) - Cardinality({})
  BY <1>4, <1>5, <1>6, <1>7, FS_Union
<1> QED
  BY <1>4, <1>6, <1>8, <1>9, <1>10 DEF w, a, T

\* What GORM wrote in two pieces has the names and placeholders of both.
LEMMA BuiltJoined ==
  ASSUME NEW u, NEW v, NEW ns, NEW ms, NEW b, NEW c, Built(u, ns, b), Built(v, ms, c),
         Len(u) > 0 /\ Len(v) > 0 => u[Len(u)] = "x" \/ v[1] = "x"
  PROVE  Built(u \o v, ns \o ms, b + c)
<1> DEFINE a == Len(u)
           w == u \o v
<1>0. u \in Seq(Letter) /\ v \in Seq(Letter) /\ Ended(u) /\ Ended(v) /\ a \in Nat /\ Len(v) \in Nat
  BY DEF Built
<1>1. Joins(u, v)
  BY DEF Joins
<1>2. /\ w \in Seq(Letter) /\ Len(w) = a + Len(v)
      /\ \A j \in 1..a : w[j] = u[j]
      /\ \A j \in 1..Len(v) : w[a + j] = v[j]
  BY <1>0, JoinedLetters
<1>3. Ended(w)
  BY <1>0, <1>1, JoinedTokens
<1>4. Identifiers(w) = ns \o ms
  BY <1>0, <1>1, IdentifiersJoined DEF Built
<1>5. /\ Placeholders(w) = Placeholders(u) \cup {a + k : k \in Placeholders(v)}
      /\ Cardinality(Placeholders(w)) = b + c
  BY <1>0, <1>1, JoinedCount DEF Built
<1>6. Placeholders(u) \subseteq 1..a /\ Placeholders(v) \subseteq 1..Len(v)
  BY <1>0, PlaceholdersCount
<1>7. /\ \A k \in 1..a : /\ k \in NameStarts(w) <=> k \in NameStarts(u)
                         /\ k \in NameStarts(u) => Token(w, k) = Token(u, k)
      /\ \A k \in 1..Len(v) : /\ a + k \in NameStarts(w) <=> k \in NameStarts(v)
                              /\ Token(w, a + k) = Token(v, k)
  BY <1>0, <1>1, JoinedNames
<1>8. /\ \A k \in NameStarts(u) : PlainName(Token(u, k))
      /\ \A k \in NameStarts(v) : PlainName(Token(v, k))
  BY DEF Built, PlainNames, NameStarts, Token
<1>9. TokenStarts(w) \subseteq 1..a + Len(v)
  BY <1>2, TokensTile
<1> HIDE DEF w
<1>10. PlainNames(w)
  <2>1. ASSUME NEW k \in NameStarts(w) PROVE PlainName(Token(w, k))
    <3>1. k \in 1..a + Len(v)
      BY <1>9 DEF NameStarts
    <3>2. CASE k <= a
      <4>1. k \in 1..a
        BY <3>1, <3>2
      <4> QED
        BY <1>7, <1>8, <2>1, <4>1
    <3>3. CASE k > a
      <4> DEFINE j == k - a
      <4>1. j \in 1..Len(v) /\ a + j = k
        BY <1>0, <3>1, <3>3
      <4> HIDE DEF j
      <4>2. j \in NameStarts(v) /\ Token(w, k) = Token(v, j)
        BY <1>7, <2>1, <4>1
      <4> QED
        BY <1>8, <4>2
    <3> QED
      BY <1>0, <3>1, <3>2, <3>3
  <2> QED
    BY <2>1 DEF PlainNames, NameStarts, Token
<1>11. Spaced(w)
  <2>1. ASSUME NEW k \in Placeholders(u)
        PROVE  /\ k > 1 => w[k - 1] \in {"x", "n"}
               /\ k < Len(w) => w[k + 1] \in {"x", "n"}
    <3>1. /\ k \in 1..a /\ u[k] = "?"
          /\ k > 1 => u[k - 1] \in {"x", "n"}
          /\ k < a => u[k + 1] \in {"x", "n"}
      BY <1>6 DEF Built, Spaced, Placeholders
    <3>2. k > 1 => w[k - 1] = u[k - 1]
      <4> SUFFICES ASSUME k > 1 PROVE w[k - 1] = u[k - 1]
        OBVIOUS
      <4>1. k - 1 \in 1..a
        BY <1>0, <3>1
      <4> QED
        BY <1>2, <4>1
    <3>3. k < a => w[k + 1] = u[k + 1]
      <4> SUFFICES ASSUME k < a PROVE w[k + 1] = u[k + 1]
        OBVIOUS
      <4>1. k + 1 \in 1..a
        BY <1>0, <3>1
      <4> QED
        BY <1>2, <4>1
    <3>4. k = a /\ k < Len(w) => w[k + 1] = "x"
      <4> SUFFICES ASSUME k = a, k < Len(w) PROVE w[k + 1] = "x"
        OBVIOUS
      <4>1. a > 0 /\ Len(v) > 0 /\ u[a] = "?" /\ 1 \in 1..Len(v)
        BY <1>0, <1>2, <3>1
      <4>2. v[1] = "x"
        BY <4>1
      <4> QED
        BY <1>2, <4>1, <4>2
    <3> QED
      BY <1>0, <3>1, <3>2, <3>3, <3>4
  <2>2. ASSUME NEW j \in Placeholders(v), NEW k, k = a + j
        PROVE  /\ k > 1 => w[k - 1] \in {"x", "n"}
               /\ k < Len(w) => w[k + 1] \in {"x", "n"}
    <3>1. /\ j \in 1..Len(v) /\ v[j] = "?"
          /\ j > 1 => v[j - 1] \in {"x", "n"}
          /\ j < Len(v) => v[j + 1] \in {"x", "n"}
      BY <1>6 DEF Built, Spaced, Placeholders
    <3>2. j > 1 => w[k - 1] = v[j - 1]
      <4> SUFFICES ASSUME j > 1 PROVE w[k - 1] = v[j - 1]
        OBVIOUS
      <4> DEFINE m == j - 1
      <4>1. m \in 1..Len(v) /\ k - 1 = a + m
        BY <1>0, <2>2, <3>1
      <4> HIDE DEF m
      <4>2. w[k - 1] = v[m]
        BY <1>2, <4>1
      <4> QED
        BY <4>2 DEF m
    <3>3. k < Len(w) => w[k + 1] \in {"x", "n"}
      <4> SUFFICES ASSUME k < Len(w) PROVE w[k + 1] \in {"x", "n"}
        OBVIOUS
      <4> DEFINE m == j + 1
      <4>1. m \in 1..Len(v) /\ k + 1 = a + m /\ j < Len(v)
        BY <1>0, <1>2, <2>2, <3>1
      <4> HIDE DEF m
      <4>2. w[k + 1] = v[m]
        BY <1>2, <4>1
      <4> QED
        BY <3>1, <4>1, <4>2 DEF m
    <3>4. j = 1 /\ k > 1 => w[k - 1] = "x"
      <4> SUFFICES ASSUME j = 1, k > 1 PROVE w[k - 1] = "x"
        OBVIOUS
      <4>1. k - 1 = a /\ a > 0 /\ Len(v) > 0 /\ a \in 1..a
        BY <1>0, <2>2, <3>1
      <4>2. u[a] = "x"
        BY <3>1, <4>1
      <4> QED
        BY <1>2, <4>1, <4>2
    <3> QED
      BY <1>0, <3>1, <3>2, <3>3, <3>4
  <2> QED
    BY <1>5, <2>1, <2>2 DEF Spaced
<1> QED
  BY <1>2, <1>3, <1>4, <1>5, <1>10, <1>11 DEF Built, w

\* One character that is a token.
LEMMA BuiltOne ==
  ASSUME NEW c \in {"x", "?"}
  PROVE  Built(<<c>>, <<>>, IF c = "?" THEN 1 ELSE 0)
<1> DEFINE s == <<c>>
<1>1. s \in Seq(Letter) /\ Len(s) = 1 /\ s[1] = c
  BY DEF Letter, Chars
<1> HIDE DEF s
<1>2. TokenStarts(s) \subseteq {1} /\ 1 \in TokenStarts(s)
  <2>1. 1..Len(s) = {1}
    BY <1>1
  <2>2. TokenStarts(s) \subseteq 1..Len(s) /\ (Len(s) > 0 => 1 \in TokenStarts(s))
    BY <1>1, TokensTile
  <2> QED
    BY <1>1, <2>1, <2>2
<1>3. TokenStarts(s) = {1}
  BY <1>2
<1>4. Ended(s)
  BY <1>1, <1>3 DEF Ended, EndedAt, Opens
<1>5. NameStarts(s) = {}
  BY <1>1, <1>3 DEF NameStarts
<1>6. PlainNames(s)
  BY <1>5 DEF PlainNames, NameStarts
<1>7. Identifiers(s) = <<>>
  BY <1>1, <1>5, OneName
<1>8. Placeholders(s) = IF c = "?" THEN {1} ELSE {}
  BY <1>1, <1>3 DEF Placeholders
<1>9. Spaced(s)
  BY <1>1, <1>8 DEF Spaced
<1>10. Cardinality(Placeholders(s)) = IF c = "?" THEN 1 ELSE 0
  <2>1. Cardinality({1}) = 1 /\ Cardinality({}) = 0
    BY FS_Singleton, FS_EmptySet
  <2> QED
    BY <1>8, <2>1
<1> QED
  BY <1>1, <1>4, <1>6, <1>7, <1>9, <1>10 DEF Built, s

\* The empty text has no names and no placeholders.
LEMMA BuiltNothing == Built(<<>>, <<>>, 0)
<1> DEFINE s == <<>>
<1>1. s \in Seq(Letter) /\ Len(s) = 0
  OBVIOUS
<1> HIDE DEF s
<1>2. TokenStarts(s) = {}
  <2>1. TokenStarts(s) \subseteq 1..Len(s)
    BY <1>1, TokensTile
  <2> QED
    BY <1>1, <2>1
<1>3. NameStarts(s) = {} /\ Placeholders(s) = {}
  BY <1>2 DEF NameStarts, Placeholders
<1>4. Identifiers(s) = <<>> /\ Cardinality(Placeholders(s)) = 0
  BY <1>1, <1>3, OneName, FS_EmptySet
<1> QED
  BY <1>1, <1>2, <1>3, <1>4 DEF Built, s, Ended, PlainNames, Spaced

\* The literal in the migrator's query.
LEMMA BuiltLiteral == Built(<<"x", "q", "x", "q">>, <<>>, 0)
<1> DEFINE v == [kind |-> "bytes"]
           s == <<"x", "q", "x", "q">>
<1>1. FormatValue(v) = s /\ v.kind = "bytes"
  BY DEF FormatValue
<1>2. /\ Len(s) = 4 /\ \A k \in 1..Len(s) : s[k] /= "d"
  OBVIOUS
<1> HIDE DEF v, s
<1>3. Arrives(s, v)
  BY <1>1, BytesArrive
<1>4. s \in Seq(Letter) /\ Ended(s) /\ Placeholders(s) = {}
  BY <1>3 DEF Arrives, Placeholders
<1>5. NameStarts(s) = {}
  BY <1>2, <1>4, TokensTile DEF NameStarts
<1>6. Identifiers(s) = <<>> /\ Cardinality(Placeholders(s)) = 0
  BY <1>4, <1>5, OneName, FS_EmptySet
<1>7. PlainNames(s) /\ Spaced(s)
  BY <1>4, <1>5 DEF PlainNames, NameStarts, Spaced
<1> QED
  BY <1>4, <1>6, <1>7 DEF Built, s

\* A plain name is plain when it is quoted.
Calm(c, d) == ~(c = "-" /\ d = "-") /\ ~(c = "/" /\ d = "*")

PlainTo(t, x) ==
  /\ \A j \in 1..x : t[j] \notin {"q", "?"}
  /\ \A j \in 1..x - 1 : Calm(t[j], t[j + 1])

\* A plain name, with its pairs of neighbours named.
LEMMA PlainNameIs ==
  ASSUME NEW s
  PROVE  PlainName(s) <=> PlainTo(s, Len(s))
<1>1. \A k : <<s[k], s[k + 1]>> \notin {<<"-", "-">>, <<"/", "*">>} <=> Calm(s[k], s[k + 1])
  BY DEF Calm
<1> QED
  BY <1>1 DEF PlainName, PlainTo

\* A plain text stays plain with one more harmless character.
LEMMA PlainNext ==
  ASSUME NEW t, NEW x \in Nat, PlainTo(t, x), t[x + 1] \notin {"q", "?"},
         x > 0 => Calm(t[x], t[x + 1])
  PROVE  PlainTo(t, x + 1)
<1> DEFINE y == x + 1
<1>1. \A j \in 1..y : j \in 1..x \/ j = x + 1
  OBVIOUS
<1>2. \A j \in 1..y - 1 : j \in 1..x - 1 \/ (j = x /\ x > 0)
  OBVIOUS
<1> HIDE DEF y
<1>3. \A j \in 1..y : t[j] \notin {"q", "?"}
  BY <1>1 DEF PlainTo
<1>4. \A j \in 1..y - 1 : Calm(t[j], t[j + 1])
  BY <1>2 DEF PlainTo
<1>5. PlainTo(t, y)
  BY <1>3, <1>4 DEF PlainTo
<1> QED
  BY <1>5 DEF y

\* A plain name stays plain when its quotes are doubled.
LEMMA DoubledPlain ==
  ASSUME NEW s \in Seq(Letter), PlainName(s)
  PROVE  PlainName(Doubled(s, {"d"}))
<1> DEFINE n == Len(s)
           D == {"d"}
           t == Doubled(s, D)
<1>0. n \in Nat
  OBVIOUS
<1>1. t \in Seq(Letter) /\ \E at : Places(s, D, t, at)
  BY DoubledPlaces
<1> HIDE DEF t
<1>2. PICK at : Places(s, D, t, at)
  BY <1>1
<1>3. /\ \A k \in 0..n : at[k] \in Nat
      /\ at[0] = 0 /\ at[n] = Len(t)
      /\ \A k \in 1..n : /\ at[k] = at[k - 1] + Len(Twice(s[k], D))
                         /\ t[at[k - 1] + 1] = s[k]
                         /\ s[k] \in D => t[at[k - 1] + 2] = s[k]
  <2>1. at \in [0..n -> 0..Len(t)]
    BY <1>2 DEF Places
  <2> HIDE DEF n, D
  <2>2. \A k \in 0..n : at[k] \in Nat
    BY <2>1
  <2> QED
    BY <1>2, <2>2 DEF Places, n
<1>4. /\ \A k \in 1..n : s[k] \notin {"q", "?"}
      /\ \A k \in 1..n - 1 : Calm(s[k], s[k + 1])
  BY PlainNameIs DEF PlainTo
<1> DEFINE Good(k) == PlainTo(t, at[k]) /\ (at[k] > 0 => k > 0 /\ t[at[k]] = s[k])
           P == {k \in Nat : k <= n => Good(k)}
<1>5. 0 \in P
  BY <1>3 DEF PlainTo
<1>6. \A k \in Nat : k \in P => k + 1 \in P
  <2> SUFFICES ASSUME NEW k \in Nat, k + 1 <= n, Good(k) PROVE Good(k + 1)
    <3> HIDE DEF Good
    <3> QED
      BY <1>0
  <2> DEFINE m == k + 1
             x == at[k]
             y == x + 1
  <2>1. /\ m \in 1..n /\ m - 1 = k /\ k \in 0..n /\ m \in 0..n /\ m > 0
        /\ k > 0 => k \in 1..n - 1
    BY <1>0
  <2>2. Len(Twice(s[m], D)) = IF s[m] = "d" THEN 2 ELSE 1
    BY DEF Twice
  <2>3. s[m] \notin {"q", "?"} /\ (k > 0 => Calm(s[k], s[m]))
    BY <1>4, <2>1
  <2> HIDE DEF m
  <2>4. /\ x \in Nat /\ t[x + 1] = s[m] /\ at[m] = x + (IF s[m] = "d" THEN 2 ELSE 1)
        /\ s[m] = "d" => t[x + 2] = s[m]
    BY <1>3, <2>1, <2>2
  <2>5. x > 0 => k > 0 /\ t[x] = s[k]
    OBVIOUS
  <2>6. PlainTo(t, x)
    OBVIOUS
  <2> HIDE DEF x, y
  <2>7. PlainTo(t, x + 1)
    BY <2>3, <2>4, <2>5, <2>6, PlainNext
  <2>8. CASE s[m] /= "d"
    <3>1. at[m] = x + 1 /\ t[at[m]] = s[m]
      BY <2>4, <2>8
    <3> QED
      BY <2>1, <2>7, <3>1 DEF m
  <2>9. CASE s[m] = "d"
    <3>1. y \in Nat /\ y > 0 /\ y + 1 = x + 2 /\ at[m] = y + 1
      BY <2>4, <2>9 DEF y
    <3>2. PlainTo(t, y) /\ t[y] = "d" /\ t[y + 1] = "d"
      BY <2>4, <2>7, <2>9, <3>1 DEF y
    <3>3. PlainTo(t, y + 1)
      BY <3>1, <3>2, PlainNext DEF Calm
    <3> QED
      BY <2>1, <2>9, <3>1, <3>2, <3>3 DEF m
  <2> QED
    BY <2>8, <2>9
<1>7. Good(n)
  <2> HIDE DEF Good
  <2>1. Nat \subseteq P
    <3> HIDE DEF P
    <3> QED
      BY <1>5, <1>6, SetInduction
  <2> QED
    BY <1>0, <2>1
<1> QED
  BY <1>3, <1>7, PlainNameIs DEF t

\* A quoted name is one identifier, the name itself, and holds no placeholder.
LEMMA BuiltName ==
  ASSUME NEW s \in Seq(Letter), PlainName(s)
  PROVE  Built(QuoteTo(s), <<s>>, 0)
<1> DEFINE t == Doubled(s, {"d"})
           l == <<"d">> \o t \o <<"d">>
<1>1. /\ l \in Seq(Letter) /\ Len(l) = Len(t) + 2 /\ Len(t) \in Nat
      /\ l[1] = "d" /\ SubSeq(l, 2, Len(l) - 1) = t
      /\ TokenEnd(l, 1) = Len(l) /\ TokenStarts(l) = {1} /\ Ended(l)
  <2> DEFINE D == {"d"}
             q == "d"
  <2>1. q \in D /\ q \in {"q", "d"}
    OBVIOUS
  <2> HIDE DEF D, q
  <2>2. LET tt == Doubled(s, D)
            ll == <<q>> \o tt \o <<q>>
        IN /\ ll \in Seq(Letter) /\ Len(ll) = Len(tt) + 2 /\ Len(tt) \in Nat
           /\ ll[1] = q /\ SubSeq(ll, 2, Len(ll) - 1) = tt
           /\ TokenEnd(ll, 1) = Len(ll) /\ TokenStarts(ll) = {1} /\ Ended(ll)
    BY <2>1, QuotedToken
  <2> QED
    BY <2>2 DEF D, q
<1>2. t \in Seq(Letter) /\ PlainTo(t, Len(t))
  BY DoubledPlaces, DoubledPlain, PlainNameIs
<1>3. Undoubled(t, {"d"}) = s
  BY DoubledReadsBack
<1>4. \A j \in 1..Len(t) : l[j + 1] = t[j]
  BY <1>2
<1>5. l[Len(t) + 2] = "d"
  BY <1>2
<1>6. QuoteTo(s) = l
  BY DEF QuoteTo
<1> HIDE DEF l, t
<1>7. PlainName(l)
  <2> DEFINE n == Len(t)
             Q == {k \in Nat : k <= n => PlainTo(l, k + 1) /\ (k > 0 => l[k + 1] = t[k])}
  <2>1. 0 \in Q
    <3>1. PlainTo(l, 0)
      BY DEF PlainTo
    <3>2. PlainTo(l, 0 + 1)
      BY <1>1, <3>1, PlainNext
    <3> QED
      BY <3>2
  <2>2. \A k \in Nat : k \in Q => k + 1 \in Q
    <3> SUFFICES ASSUME NEW k \in Nat, k + 1 <= n, PlainTo(l, k + 1), k > 0 => l[k + 1] = t[k]
                 PROVE  PlainTo(l, k + 1 + 1) /\ l[k + 1 + 1] = t[k + 1]
      BY <1>1
    <3> DEFINE m == k + 1
    <3>1. m \in 1..n /\ m > 0 /\ (k > 0 => k \in 1..n - 1) /\ m \in Nat
      BY <1>1
    <3>2. l[m + 1] = t[m] /\ t[m] \notin {"q", "?"} /\ (k > 0 => Calm(t[k], t[m]))
      BY <1>2, <1>4, <3>1 DEF PlainTo
    <3>3. Calm(l[m], l[m + 1])
      <4>1. CASE k = 0
        <5>1. l[m] = "d"
          BY <1>1, <4>1
        <5> QED
          BY <5>1 DEF Calm
      <4>2. CASE k > 0
        <5>1. l[m] = t[k]
          BY <4>2
        <5> QED
          BY <3>2, <4>2, <5>1
      <4> QED
        BY <4>1, <4>2
    <3> HIDE DEF m
    <3>4. PlainTo(l, m + 1)
      <4>1. PlainTo(l, m)
        BY DEF m
      <4> QED
        BY <3>1, <3>2, <3>3, <4>1, PlainNext
    <3> QED
      BY <3>2, <3>4 DEF m
  <2>3. PlainTo(l, n + 1)
    <3>1. Nat \subseteq Q
      <4> HIDE DEF Q
      <4> QED
        BY <2>1, <2>2, SetInduction
    <3> QED
      BY <1>1, <3>1
  <2> DEFINE m == n + 1
  <2>4. m \in Nat /\ m + 1 = Len(l) /\ l[m + 1] = "d" /\ PlainTo(l, m)
    BY <1>1, <1>5, <2>3
  <2> HIDE DEF m
  <2>5. PlainTo(l, m + 1)
    BY <2>4, PlainNext DEF Calm
  <2> QED
    BY <2>4, <2>5, PlainNameIs
<1>8. Token(l, 1) = l
  <2>1. SubSeq(l, 1, Len(l)) = l
    BY <1>1, FirstChars
  <2> QED
    BY <1>1, <2>1 DEF Token
<1>9. NameStarts(l) = {1}
  BY <1>1 DEF NameStarts
<1>10. Identifiers(l) = <<s>>
  <2>1. NameAt(l, 1) = s
    BY <1>1, <1>3, <1>8 DEF NameAt, NameOf
  <2> QED
    BY <1>1, <1>9, <2>1, OneName
<1>11. PlainNames(l)
  <2>1. PlainName(Token(l, 1))
    BY <1>7, <1>8
  <2> QED
    BY <1>1, <2>1 DEF PlainNames, Token
<1>12. Placeholders(l) = {}
  BY <1>1 DEF Placeholders
<1> QED
  BY <1>1, <1>6, <1>10, <1>11, <1>12, FS_EmptySet DEF Built, Spaced

-----------------------------------------------------------------------------
\* The names in what is left of the statement behind a placeholder.

\* The identifiers before a placeholder and those behind it are all there are.
LEMMA RestNames ==
  ASSUME NEW s \in Seq(Letter), NEW p \in Placeholders(s), NEW a \in 1..p,
         Ended(SubSeq(s, a, p - 1))
  PROVE  Identifiers(SubSeq(s, a, Len(s)))
           = Identifiers(SubSeq(s, a, p - 1)) \o Identifiers(SubSeq(s, p + 1, Len(s)))
<1> DEFINE n == Len(s)
           t == SubSeq(s, a, n)
           m == SubSeq(s, a, p - 1)
           r == SubSeq(s, p + 1, n)
           c == <<"?">>
           q == c \o r
           w == m \o q
<1>0. n \in Nat /\ p \in 1..n /\ a \in 1..n /\ a <= p /\ s[p] = "?"
  <2>1. Placeholders(s) \subseteq 1..Len(s)
    BY PlaceholdersCount
  <2>2. s[p] = "?"
    BY DEF Placeholders
  <2> QED
    BY <2>1, <2>2
<1>1. /\ t \in Seq(Letter) /\ Len(t) = n - a + 1 /\ \A k \in 1..Len(t) : t[k] = s[a - 1 + k]
  <2>1. a \in 1..Len(s) + 1 /\ n \in a - 1..Len(s)
    BY <1>0
  <2> QED
    BY <2>1, SliceIs
<1>2. m \in Seq(Letter) /\ Len(m) = p - a /\ \A k \in 1..Len(m) : m[k] = s[a - 1 + k]
  <2> DEFINE e == p - 1
  <2>1. a \in 1..Len(s) + 1 /\ e \in a - 1..Len(s) /\ e - a + 1 = p - a
    BY <1>0
  <2> HIDE DEF e
  <2>2. /\ SubSeq(s, a, e) \in Seq(Letter) /\ Len(SubSeq(s, a, e)) = e - a + 1
        /\ \A k \in 1..Len(SubSeq(s, a, e)) : SubSeq(s, a, e)[k] = s[a - 1 + k]
    BY <2>1, SliceIs
  <2> QED
    BY <2>1, <2>2 DEF e
<1>3. r \in Seq(Letter) /\ Len(r) = n - p /\ \A k \in 1..Len(r) : r[k] = s[p + k]
  <2> DEFINE b == p + 1
  <2>1. b \in 1..Len(s) + 1 /\ n \in b - 1..Len(s) /\ n - b + 1 = n - p /\ b - 1 = p
    BY <1>0
  <2> HIDE DEF b
  <2>2. /\ SubSeq(s, b, n) \in Seq(Letter) /\ Len(SubSeq(s, b, n)) = n - b + 1
        /\ \A k \in 1..Len(SubSeq(s, b, n)) : SubSeq(s, b, n)[k] = s[b - 1 + k]
    BY <2>1, SliceIs
  <2> QED
    BY <2>1, <2>2 DEF b
<1>4. Built(c, <<>>, 1)
  BY BuiltOne
<1>5. c \in Seq(Letter) /\ Len(c) = 1 /\ c[1] = "?" /\ Ended(c) /\ Identifiers(c) = <<>>
  BY <1>4 DEF Built
<1> HIDE DEF n, t, m, r, c
<1>6. /\ q \in Seq(Letter) /\ Len(q) = 1 + (n - p) /\ q[1] = "?"
      /\ \A k \in 1..Len(r) : q[1 + k] = s[p + k]
  <2>1. /\ q \in Seq(Letter) /\ Len(q) = Len(c) + Len(r)
        /\ \A j \in 1..Len(c) : q[j] = c[j]
        /\ \A j \in 1..Len(r) : q[Len(c) + j] = r[j]
    BY <1>3, <1>5, JoinedLetters
  <2> HIDE DEF q
  <2> QED
    BY <1>3, <1>5, <2>1
<1>7. /\ w \in Seq(Letter) /\ Len(w) = Len(m) + Len(q)
      /\ \A j \in 1..Len(m) : w[j] = m[j]
      /\ \A j \in 1..Len(q) : w[Len(m) + j] = q[j]
  BY <1>2, <1>6, JoinedLetters
<1>8. Identifiers(w) = Identifiers(m) \o Identifiers(r)
  <2>1. Joins(m, q)
    BY <1>6 DEF Joins
  <2>2. Joins(c, r)
    BY <1>5 DEF Joins
  <2>3. Identifiers(w) = Identifiers(m) \o Identifiers(q)
    BY <1>2, <1>6, <2>1, IdentifiersJoined DEF m
  <2>4. Identifiers(q) = Identifiers(c) \o Identifiers(r)
    BY <1>3, <1>5, <2>2, IdentifiersJoined
  <2>5. <<>> \o Identifiers(r) = Identifiers(r)
    <3> DEFINE x == Identifiers(r)
    <3>1. x \in Seq(Seq(Letter))
      BY <1>3, IdentifiersType
    <3> HIDE DEF x
    <3>2. <<>> \o x = x
      BY <3>1
    <3> QED
      BY <3>2 DEF x
  <2> QED
    BY <1>5, <2>3, <2>4, <2>5
<1> HIDE DEF q, w
<1>9. Len(w) = Len(t)
  BY <1>0, <1>1, <1>2, <1>6, <1>7
<1>10. ASSUME NEW k \in 1..Len(t) PROVE w[k] = t[k]
  <2>1. t[k] = s[a - 1 + k] /\ k \in 1..n - a + 1
    BY <1>1
  <2>2. CASE k <= p - a
    <3>1. k \in 1..Len(m)
      BY <1>0, <1>2, <2>2
    <3> QED
      BY <1>2, <1>7, <2>1, <3>1
  <2>3. CASE k = p - a + 1
    <3>1. a - 1 + k = p /\ k = Len(m) + 1 /\ 1 \in 1..Len(q)
      BY <1>0, <1>2, <1>3, <1>6, <2>3
    <3> QED
      BY <1>0, <1>6, <1>7, <2>1, <3>1
  <2>4. CASE k > p - a + 1
    <3> DEFINE j == k - (p - a) - 1
    <3>1. /\ j \in 1..Len(r) /\ 1 + j \in 1..Len(q) /\ Len(m) + (1 + j) = k /\ p + j = a - 1 + k
      BY <1>0, <1>2, <1>3, <1>6, <2>1, <2>4
    <3> HIDE DEF j
    <3>2. w[Len(m) + (1 + j)] = q[1 + j] /\ q[1 + j] = s[p + j]
      BY <1>6, <1>7, <3>1
    <3> QED
      BY <2>1, <3>1, <3>2
  <2> QED
    BY <1>0, <2>1, <2>2, <2>3, <2>4
<1>11. w = t
  BY <1>1, <1>7, <1>9, <1>10
<1> QED
  BY <1>8, <1>11 DEF t, m, r, n

\* The names of the statement are in the text built and in what is still to be copied.
NamesKept ==
  Identifiers(sb) \o Identifiers(SubSeq(sql, prev, Len(sql))) = names

\* Replacing a placeholder by a literal loses no name and adds none.
LEMMA SpliceKeepsNames ==
  ASSUME sql \in Seq(Letter), Spaced(sql), positions \in Seq(1..Len(sql)),
         Found(sql, positions, Len(sql) + 1), args \in Seq(Values), nargs = Len(positions), Spliced,
         NEW v \in Values, Splice(v), NamesKept, names' = names
  PROVE  NamesKept'
<1> DEFINE n == Len(sql)
           p == positions[Len(args) + 1]
           m == SubSeq(sql, prev, p - 1)
           r == SubSeq(sql, p + 1, n)
           l == FormatValue(v)
<1>1. /\ p \in Placeholders(sql) /\ prev \in 1..p /\ prev' = p + 1 /\ sb' = sb \o m \o l
      /\ m \in Seq(Letter) /\ Ended(m)
      /\ Arrives(l, v) /\ Joins(sb, m) /\ Joins(sb \o m, l)
  BY SpliceJoins
<1>2. sql' = sql /\ names' = names
  BY DEF Splice
<1>3. sb \in Seq(Letter) /\ Ended(sb)
  BY DEF Spliced
<1>4. Identifiers(SubSeq(sql, prev, n)) = Identifiers(m) \o Identifiers(r)
  BY <1>1, RestNames
<1>5. p + 1 \in 1..n + 1 /\ r \in Seq(Letter)
  <2>1. p \in 1..n /\ n \in Nat
    BY <1>1, PlaceholdersCount
  <2> DEFINE b == p + 1
  <2>2. b \in 1..Len(sql) + 1 /\ n \in b - 1..Len(sql)
    BY <2>1
  <2> HIDE DEF b
  <2>3. SubSeq(sql, b, n) \in Seq(Letter)
    BY <2>2, SliceIs
  <2> QED
    BY <2>2, <2>3 DEF b
<1>6. l \in Seq(Letter) /\ Identifiers(l) = <<>>
  <2> HIDE DEF l
  <2>1. l \in Seq(Letter) /\ \A k \in TokenStarts(l) : l[k] /= "d"
    BY <1>1 DEF Arrives
  <2>2. NameStarts(l) = {}
    BY <2>1 DEF NameStarts
  <2> QED
    BY <2>1, <2>2, OneName
<1> HIDE DEF m, r, l, p
<1>7. Identifiers(sb \o m) = Identifiers(sb) \o Identifiers(m)
  BY <1>1, <1>3, IdentifiersJoined
<1>8. Ended(sb \o m) /\ sb \o m \in Seq(Letter)
  BY <1>1, <1>3, JoinedTokens, JoinedLetters
<1>9. Identifiers(sb') = Identifiers(sb \o m) \o Identifiers(l)
  <2> DEFINE u == sb \o m
  <2>1. u \in Seq(Letter) /\ Ended(u) /\ Joins(u, l) /\ sb' = u \o l
    BY <1>1, <1>8
  <2> HIDE DEF u
  <2>2. Identifiers(sb') = Identifiers(u) \o Identifiers(l)
    BY <1>6, <2>1, IdentifiersJoined
  <2> QED
    BY <2>2 DEF u
<1> DEFINE x == Identifiers(sb)
           y == Identifiers(m)
           z == Identifiers(r)
<1>10. x \in Seq(Seq(Letter)) /\ y \in Seq(Seq(Letter)) /\ z \in Seq(Seq(Letter))
  BY <1>1, <1>3, <1>5, IdentifiersType
<1>11. x \o (y \o z) = names
  BY <1>4 DEF NamesKept
<1>12. Identifiers(sb') = (x \o y) \o <<>>
  BY <1>6, <1>7, <1>9
<1>13. Identifiers(SubSeq(sql', prev', Len(sql'))) = z
  BY <1>1, <1>2 DEF r
<1> HIDE DEF x, y, z
<1>14. (x \o y) \o <<>> = x \o y
  BY <1>10
<1>15. (x \o y) \o z = x \o (y \o z)
  BY <1>10, JoinedThrice
<1> QED
  BY <1>2, <1>11, <1>12, <1>13, <1>14, <1>15 DEF NamesKept

\* With the rest of the statement copied, all names are in the text that is sent.
LEMMA CopyRestKeepsNames ==
  ASSUME sql \in Seq(Letter), Spaced(sql), positions \in Seq(1..Len(sql)),
         Found(sql, positions, Len(sql) + 1), nargs = Len(positions), nargs > 0, Spliced, CopyRest,
         NamesKept, names' = names
  PROVE  Identifiers(sb') = names'
<1> DEFINE m == SubSeq(sql, prev, Len(sql))
<1>1. /\ Len(args) = nargs /\ prev = After(positions, Len(positions)) /\ sb' = sb \o m
  BY DEF CopyRest, Spliced
<1>2. m \in Seq(Letter) /\ (Len(m) > 0 => m[1] \in {"x", "n"})
  BY <1>1, LastPiece
<1> HIDE DEF m
<1>3. sb \in Seq(Letter) /\ Ended(sb)
  BY DEF Spliced
<1>4. Joins(sb, m)
  BY <1>2 DEF Joins
<1>5. Identifiers(sb \o m) = Identifiers(sb) \o Identifiers(m)
  BY <1>2, <1>3, <1>4, IdentifiersJoined
<1> QED
  BY <1>1, <1>5 DEF NamesKept, m

\* Before the first placeholder is replaced all names are still to be copied.
LEMMA NothingKept ==
  ASSUME sql \in Seq(Letter), Identifiers(sql) = names, prev = 1, sb = <<>>
  PROVE  NamesKept
<1>1. SubSeq(sql, 1, Len(sql)) = sql
  BY FirstChars
<1>2. Identifiers(<<>>) = <<>>
  BY BuiltNothing DEF Built
<1> DEFINE x == Identifiers(sql)
<1>3. x \in Seq(Seq(Letter))
  BY IdentifiersType
<1> HIDE DEF x
<1>4. <<>> \o x = x
  BY <1>3
<1> QED
  BY <1>1, <1>2, <1>4 DEF NamesKept, x

-----------------------------------------------------------------------------
\* The invariant behind GormStatementsArrive: a statement that GORM writes has the names and the
\* number of placeholders it was asked for, and the names stay while the arguments are replaced.

NamesPlain == \A k \in DOMAIN names : PlainName(names[k])

Kept == /\ pc = "splice" => NamesKept
        /\ result = "ok" => Identifiers(sb) = names

AskedInv ==
  /\ names \in Seq(Names) /\ parts \in Nat
  /\ building /\ parts = 0 => sql = <<>> /\ names = <<>> /\ nargs = 0
  /\ building /\ parts > 0 => Len(sql) > 0 /\ sql[Len(sql)] = "x"
  /\ (building \/ parts > 0) /\ NamesPlain => Built(sql, names, nargs) /\ Kept

\* Names are texts of the characters the scanner knows.
LEMMA NamesAreTexts == Names \subseteq Seq(Letter) /\ Seq(Names) \subseteq Seq(Seq(Letter))
<1>1. Names \subseteq Seq(Letter)
  BY DialectorAssumption, StatementsAreTexts
<1> QED
  BY <1>1

\* At first GORM has asked for nothing.
LEMMA AskedInit == DInit => AskedInv
<1> SUFFICES ASSUME DInit PROVE AskedInv
  OBVIOUS
<1>1. names = <<>> /\ parts = 0 /\ pc = "scan" /\ result = "running"
  BY DEF DInit, Init
<1>2. building => sql = <<>> /\ nargs = 0
  BY DEF DInit
<1>3. names \in Seq(Names)
  BY <1>1
<1> QED
  BY <1>1, <1>2, <1>3, BuiltNothing DEF AskedInv, Kept

\* GORM's parts: a text is written behind what is there, and an "x" behind it.
LEMMA BuiltBehind ==
  ASSUME NEW s, NEW ns \in Seq(Seq(Letter)), NEW b \in Nat, Built(s, ns, b),
         Len(s) > 0 => s[Len(s)] = "x",
         NEW t, NEW ms \in Seq(Seq(Letter)), NEW c \in Nat, Built(t, ms, c)
  PROVE  /\ Built(s \o t \o <<"x">>, ns \o ms, b + c)
         /\ Len(s \o t \o <<"x">>) > 0
         /\ (s \o t \o <<"x">>)[Len(s \o t \o <<"x">>)] = "x"
<1> DEFINE x == <<"x">>
           u == s \o t
           w == u \o x
           ks == ns \o ms
           m == b + c
<1>1. Built(x, <<>>, 0) /\ x \in Seq(Letter) /\ Len(x) = 1 /\ x[1] = "x"
  <2>1. Built(x, <<>>, 0)
    BY BuiltOne
  <2> QED
    BY <2>1 DEF Built
<1> HIDE DEF x
<1>2. Built(u, ks, m)
  BY BuiltJoined
<1>3. ks \in Seq(Seq(Letter)) /\ m \in Nat /\ u \in Seq(Letter)
  BY <1>2, JoinedLists DEF Built
<1> HIDE DEF u, ks, m
<1>4. Built(w, ks \o <<>>, m + 0)
  BY <1>1, <1>2, BuiltJoined
<1>5. ks \o <<>> = ks /\ m + 0 = m
  BY <1>3
<1>6. Len(w) = Len(u) + 1 /\ Len(u) \in Nat /\ w[Len(u) + 1] = "x"
  <2>1. Len(w) = Len(u) + Len(x) /\ \A j \in 1..Len(x) : w[Len(u) + j] = x[j]
    BY <1>1, <1>3, JoinedLetters
  <2>2. 1 \in 1..Len(x) /\ Len(u) \in Nat
    BY <1>1, <1>3
  <2> HIDE DEF w
  <2> QED
    BY <1>1, <2>1, <2>2
<1>7. Built(w, ks, m)
  BY <1>4, <1>5
<1>8. Len(w) > 0 /\ w[Len(w)] = "x"
  BY <1>6
<1> QED
  BY <1>7, <1>8 DEF w, u, ks, m, x

\* The texts of the parts, and the migrator's queries.
LEMMA QuotedBuilt ==
  ASSUME NEW n \in Names, PlainName(n)
  PROVE  Built(QuoteTo(n), <<n>>, 0)
BY NamesAreTexts, BuiltName

\* A column definition has one name and no placeholder.
LEMMA ColumnBuilt ==
  ASSUME NEW n \in Names, PlainName(n)
  PROVE  Built(<<"x">> \o QuoteTo(n) \o <<"x">>, <<n>>, 0)
<1> DEFINE x == <<"x">>
           ns == <<n>>
           e == <<>>
<1>1. Built(x, e, 0) /\ x \in Seq(Letter) /\ Len(x) = 1 /\ x[1] = "x"
  <2>1. Built(x, e, 0)
    BY BuiltOne
  <2> QED
    BY <2>1 DEF Built
<1>2. Built(QuoteTo(n), ns, 0)
  BY QuotedBuilt
<1>3. e \in Seq(Seq(Letter)) /\ ns \in Seq(Seq(Letter)) /\ e \o ns = ns
  <2>1. n \in Seq(Letter)
    BY NamesAreTexts
  <2> QED
    BY <2>1
<1> HIDE DEF x, ns, e
<1>4. Built(x \o QuoteTo(n) \o <<"x">>, e \o ns, 0 + 0)
  BY <1>1, <1>2, <1>3, BuiltBehind
<1>5. Built(x \o QuoteTo(n) \o <<"x">>, ns, 0)
  BY <1>3, <1>4
<1> QED
  BY <1>5 DEF x, ns

\* Texts of one length with the same characters are the same.
LEMMA SameTexts ==
  ASSUME NEW s \in Seq(Letter), NEW t \in Seq(Letter), Len(s) = Len(t),
         \A k \in 1..Len(s) : s[k] = t[k]
  PROVE  s = t
OBVIOUS

\* The migrator's queries have as many placeholders as they bind values.
LEMMA QueriesBuilt ==
  /\ Built(<<"x", "?", "x", "q", "x", "q">>, <<>>, 1)
  /\ Built(<<"x", "?", "x", "?">>, <<>>, 2)
<1> DEFINE x == <<"x">>
           v == <<"?">>
           l == <<"x", "q", "x", "q">>
           e == <<>>
           xv == <<"x", "?">>
           xvx == <<"x", "?", "x">>
           xvxv == <<"x", "?", "x", "?">>
           xvl == <<"x", "?", "x", "q", "x", "q">>
<1>1. /\ Built(e, e, 0) /\ Built(x, e, 0) /\ Built(v, e, 1) /\ Built(l, e, 0)
      /\ e \in Seq(Seq(Letter)) /\ e \o e = e
  BY BuiltNothing, BuiltOne, BuiltLiteral
<1>2. /\ x \in Seq(Letter) /\ Len(x) = 1 /\ x[1] = "x"
      /\ v \in Seq(Letter) /\ Len(v) = 1 /\ v[1] = "?"
      /\ l \in Seq(Letter) /\ Len(l) = 4 /\ l[1] = "x" /\ l[2] = "q" /\ l[3] = "x" /\ l[4] = "q"
  BY DEF Letter, Chars
<1>3. /\ xv \in Seq(Letter) /\ Len(xv) = 2 /\ xv[1] = "x" /\ xv[2] = "?"
      /\ xvx \in Seq(Letter) /\ Len(xvx) = 3 /\ xvx[1] = "x" /\ xvx[2] = "?" /\ xvx[3] = "x"
  BY DEF Letter, Chars
<1>4. /\ xvxv \in Seq(Letter) /\ Len(xvxv) = 4
      /\ xvxv[1] = "x" /\ xvxv[2] = "?" /\ xvxv[3] = "x" /\ xvxv[4] = "?"
      /\ xvl \in Seq(Letter) /\ Len(xvl) = 6
      /\ xvl[1] = "x" /\ xvl[2] = "?" /\ xvl[3] = "x" /\ xvl[4] = "q" /\ xvl[5] = "x" /\ xvl[6] = "q"
  BY DEF Letter, Chars
<1> HIDE DEF x, v, l, e, xv, xvx, xvxv, xvl
<1>5. x \o v = xv
  <2> DEFINE w == x \o v
  <2>1. /\ w \in Seq(Letter) /\ Len(w) = Len(x) + Len(v)
        /\ \A k \in 1..Len(x) : w[k] = x[k]
        /\ \A k \in 1..Len(v) : w[Len(x) + k] = v[k]
    BY <1>2, JoinedLetters
  <2> HIDE DEF w
  <2>2. Len(w) = 2 /\ w[1] = x[1]
        /\ w[2] = v[1]
    BY <1>2, <2>1
  <2>3. 1..2 = {1, 2}
    OBVIOUS
  <2>4. \A k \in 1..2 : w[k] = xv[k]
    BY <1>2, <1>3, <1>4, <2>2, <2>3
  <2>5. w = xv
    BY <1>3, <2>1, <2>2, <2>4, SameTexts
  <2> QED
    BY <2>5 DEF w
<1>6. xv \o x = xvx
  <2> DEFINE w == xv \o x
  <2>1. /\ w \in Seq(Letter) /\ Len(w) = Len(xv) + Len(x)
        /\ \A k \in 1..Len(xv) : w[k] = xv[k]
        /\ \A k \in 1..Len(x) : w[Len(xv) + k] = x[k]
    BY <1>2, <1>3, JoinedLetters
  <2> HIDE DEF w
  <2>2. Len(w) = 3 /\ w[1] = xv[1] /\ w[2] = xv[2]
        /\ w[3] = x[1]
    BY <1>2, <1>3, <2>1
  <2>3. 1..3 = {1, 2, 3}
    OBVIOUS
  <2>4. \A k \in 1..3 : w[k] = xvx[k]
    BY <1>2, <1>3, <1>4, <2>2, <2>3
  <2>5. w = xvx
    BY <1>3, <2>1, <2>2, <2>4, SameTexts
  <2> QED
    BY <2>5 DEF w
<1>7. xvx \o v = xvxv
  <2> DEFINE w == xvx \o v
  <2>1. /\ w \in Seq(Letter) /\ Len(w) = Len(xvx) + Len(v)
        /\ \A k \in 1..Len(xvx) : w[k] = xvx[k]
        /\ \A k \in 1..Len(v) : w[Len(xvx) + k] = v[k]
    BY <1>2, <1>3, JoinedLetters
  <2> HIDE DEF w
  <2>2. Len(w) = 4 /\ w[1] = xvx[1] /\ w[2] = xvx[2] /\ w[3] = xvx[3]
        /\ w[4] = v[1]
    BY <1>2, <1>3, <2>1
  <2>3. 1..4 = {1, 2, 3, 4}
    OBVIOUS
  <2>4. \A k \in 1..4 : w[k] = xvxv[k]
    BY <1>2, <1>3, <1>4, <2>2, <2>3
  <2>5. w = xvxv
    BY <1>4, <2>1, <2>2, <2>4, SameTexts
  <2> QED
    BY <2>5 DEF w
<1>8. xv \o l = xvl
  <2> DEFINE w == xv \o l
  <2>1. /\ w \in Seq(Letter) /\ Len(w) = Len(xv) + Len(l)
        /\ \A k \in 1..Len(xv) : w[k] = xv[k]
        /\ \A k \in 1..Len(l) : w[Len(xv) + k] = l[k]
    BY <1>2, <1>3, JoinedLetters
  <2> HIDE DEF w
  <2>2. Len(w) = 6 /\ w[1] = xv[1] /\ w[2] = xv[2]
        /\ w[3] = l[1] /\ w[4] = l[2] /\ w[5] = l[3] /\ w[6] = l[4]
    BY <1>2, <1>3, <2>1
  <2>3. 1..6 = {1, 2, 3, 4, 5, 6}
    OBVIOUS
  <2>4. \A k \in 1..6 : w[k] = xvl[k]
    BY <1>2, <1>3, <1>4, <2>2, <2>3
  <2>5. w = xvl
    BY <1>4, <2>1, <2>2, <2>4, SameTexts
  <2> QED
    BY <2>5 DEF w
<1>9. Built(xv, e, 1)
  <2>1. Built(x \o v, e \o e, 0 + 1)
    BY <1>1, <1>2, BuiltJoined
  <2> QED
    BY <1>1, <1>5, <2>1
<1>10. Built(xvl, e, 1)
  <2>1. Built(xv \o l, e \o e, 1 + 0)
    BY <1>1, <1>2, <1>9, BuiltJoined
  <2> QED
    BY <1>1, <1>8, <2>1
<1>11. Built(xvx, e, 1)
  <2>1. Built(xv \o x, e \o e, 1 + 0)
    BY <1>1, <1>2, <1>9, BuiltJoined
  <2> QED
    BY <1>1, <1>6, <2>1
<1>12. Built(xvxv, e, 2)
  <2>1. Built(xvx \o v, e \o e, 1 + 1)
    BY <1>1, <1>3, <1>11, BuiltJoined
  <2> QED
    BY <1>1, <1>7, <2>1
<1> QED
  BY <1>10, <1>12 DEF e, xvl, xvxv

\* GORM's steps.
LEMMA AskedBuild == ScanInv /\ ArriveInv /\ AskedInv /\ Build => AskedInv'
<1> SUFFICES ASSUME ScanInv, ArriveInv, AskedInv, Build PROVE AskedInv'
  OBVIOUS
<1>1. /\ building /\ pc = "scan" /\ result = "running" /\ names \in Seq(Names) /\ parts \in Nat
      /\ nargs \in Nat /\ sql \in Seq(Chars)
  BY InterpolateAssumption
     DEF ScanInv, ArriveInv, AskedInv, TypeOK, Unread, Build, WriteName, WriteVar, Write,
         FullDataTypeOf, HasTable, HasColumn, Submit
<1>2. UNCHANGED <<pc, result>>
  BY DEF Build, WriteName, WriteVar, Write, FullDataTypeOf, HasTable, HasColumn, Submit, vars
<1>3. Kept'
  BY <1>1, <1>2 DEF Kept
<1>4. /\ names \in Seq(Seq(Letter))
      /\ Len(sql) > 0 => sql[Len(sql)] = "x"
      /\ NamesPlain => Built(sql, names, nargs)
  <2>1. Len(sql) > 0 => parts > 0
    BY <1>1 DEF AskedInv
  <2> QED
    BY <1>1, <2>1, NamesAreTexts DEF AskedInv
<1>5. ASSUME NEW n \in Names, WriteName(n) PROVE AskedInv'
  <2>1. /\ sql' = sql \o QuoteTo(n) \o <<"x">> /\ nargs' = nargs /\ parts' = parts + 1
        /\ names' = Append(names, n) /\ building'
    BY <1>5 DEF WriteName, Write
  <2>2. names' \in Seq(Names) /\ names' = names \o <<n>>
    BY <1>1, <2>1
  <2>3. NamesPlain' => NamesPlain /\ PlainName(n)
    <3> SUFFICES ASSUME NamesPlain' PROVE NamesPlain /\ PlainName(n)
      OBVIOUS
    <3>1. \A k \in 1..Len(names) + 1 : PlainName(names'[k])
      BY <1>1, <2>1, SMTT(40) DEF NamesPlain
    <3>2. names'[Len(names) + 1] = n /\ \A k \in 1..Len(names) : names'[k] = names[k]
      BY <1>1, <2>1
    <3>3. Len(names) \in Nat
      BY <1>1
    <3>4. Len(names) + 1 \in 1..Len(names) + 1 /\ 1..Len(names) \subseteq 1..Len(names) + 1
      BY <3>3
    <3>5. PlainName(n)
      BY <3>1, <3>2, <3>4
    <3>6. \A k \in 1..Len(names) : PlainName(names[k])
      BY <3>1, <3>2, <3>4
    <3> QED
      BY <1>1, <3>5, <3>6 DEF NamesPlain
  <2>4. sql' \in Seq(Letter) /\ Len(sql') > 0 /\ sql'[Len(sql')] = "x"
    <3> DEFINE u == sql \o QuoteTo(n)
    <3>1. sql \in Seq(Letter) /\ QuoteTo(n) \in Seq(Letter) /\ <<"x">> \in Seq(Letter)
      BY <1>1, QuoteToType, DialectorAssumption, StatementsAreTexts DEF Letter, Chars
    <3>2. u \in Seq(Letter)
      BY <3>1, JoinedLetters
    <3> HIDE DEF u
    <3>3. u \o <<"x">> \in Seq(Letter) /\ Len(u \o <<"x">>) = Len(u) + 1
          /\ (u \o <<"x">>)[Len(u) + 1] = "x"
      BY <3>1, <3>2
    <3>4. sql' = u \o <<"x">>
      BY <2>1 DEF u
    <3> QED
      BY <3>2, <3>3, <3>4
  <2>5. ASSUME NamesPlain' PROVE Built(sql', names', nargs')
    <3> DEFINE ns == names
               ms == <<n>>
               t == QuoteTo(n)
    <3>1. Built(sql, ns, nargs) /\ Built(t, ms, 0) /\ ms \in Seq(Seq(Letter))
      BY <1>4, <2>3, <2>5, QuotedBuilt, NamesAreTexts
    <3> HIDE DEF ns, ms, t
    <3>2. Built(sql \o t \o <<"x">>, ns \o ms, nargs + 0)
      BY <1>1, <1>4, <3>1, BuiltBehind DEF ns
    <3>3. nargs + 0 = nargs
      BY <1>1
    <3> QED
      BY <2>1, <2>2, <3>2, <3>3 DEF ns, ms, t
  <2> QED
    BY <1>1, <1>3, <2>1, <2>2, <2>4, <2>5 DEF AskedInv
<1>6. ASSUME WriteVar PROVE AskedInv'
  <2>1. /\ sql' = sql \o <<"?">> \o <<"x">> /\ nargs' = nargs + 1 /\ parts' = parts + 1
        /\ names' = names /\ building'
    BY <1>6 DEF WriteVar, Write, BindVarTo
  <2>2. NamesPlain' <=> NamesPlain
    BY <2>1 DEF NamesPlain
  <2>3. Len(sql') > 0 /\ sql'[Len(sql')] = "x"
    <3> DEFINE u == sql \o <<"?">>
    <3>1. u \in Seq(Chars) /\ <<"x">> \in Seq(Chars)
      BY <1>1 DEF Chars
    <3> HIDE DEF u
    <3>2. Len(u \o <<"x">>) = Len(u) + 1 /\ (u \o <<"x">>)[Len(u) + 1] = "x" /\ Len(u) \in Nat
      BY <3>1
    <3>3. sql' = u \o <<"x">>
      BY <2>1 DEF u
    <3> QED
      BY <3>2, <3>3
  <2>4. ASSUME NamesPlain PROVE Built(sql', names', nargs')
    <3> DEFINE t == <<"?">>
               e == <<>>
    <3>1. Built(sql, names, nargs) /\ Built(t, e, 1) /\ e \in Seq(Seq(Letter))
      BY <1>4, <2>4, BuiltOne
    <3>2. names \o e = names
      BY <1>4
    <3> HIDE DEF t, e
    <3>3. Built(sql \o t \o <<"x">>, names \o e, nargs + 1)
      BY <1>1, <1>4, <3>1, BuiltBehind
    <3> QED
      BY <2>1, <3>2, <3>3 DEF t
  <2> QED
    BY <1>1, <1>3, <2>1, <2>2, <2>3, <2>4 DEF AskedInv
<1>7. ASSUME NEW n \in Names, NEW f \in Fields, FullDataTypeOf(n, f) PROVE AskedInv'
  <2>1. /\ sql' = <<"x">> \o QuoteTo(n) \o <<"x">> /\ nargs' = 0 /\ parts' = 1
        /\ names' = <<n>> /\ ~building'
    BY <1>1, <1>7 DEF FullDataTypeOf, AskedInv
  <2>2. names' \in Seq(Names) /\ (NamesPlain' => PlainName(n))
    BY <2>1 DEF NamesPlain
  <2> QED
    BY <1>3, <2>1, <2>2, ColumnBuilt DEF AskedInv
<1>8. ASSUME HasTable \/ HasColumn PROVE AskedInv'
  <2>1. /\ names' = <<>> /\ parts' = 1 /\ ~building'
        /\ \/ sql' = <<"x", "?", "x", "q", "x", "q">> /\ nargs' = 1
           \/ sql' = <<"x", "?", "x", "?">> /\ nargs' = 2
    BY <1>1, <1>8 DEF HasTable, HasColumn, AskedInv
  <2>2. names' \in Seq(Names)
    BY <2>1
  <2>3. Built(sql', names', nargs')
    BY <2>1, QueriesBuilt
  <2> QED
    BY <1>3, <2>1, <2>2, <2>3 DEF AskedInv
<1>9. ASSUME Submit PROVE AskedInv'
  <2>1. UNCHANGED <<sql, names, nargs, parts>> /\ ~building' /\ parts > 0
    BY <1>9 DEF Submit, vars
  <2>2. NamesPlain' <=> NamesPlain
    BY <2>1 DEF NamesPlain
  <2> QED
    BY <1>1, <1>3, <1>4, <2>1, <2>2 DEF AskedInv
<1> QED
  BY <1>5, <1>6, <1>7, <1>8, <1>9 DEF Build

\* The driver's steps.
LEMMA AskedDriver == ScanInv /\ ArriveInv /\ AskedInv /\ Driver => AskedInv'
<1> SUFFICES ASSUME ScanInv, ArriveInv, AskedInv, Driver PROVE AskedInv'
  OBVIOUS
<1>1. /\ sql \in Seq(Letter) /\ i \in 1..Len(sql) + 1 /\ positions \in Seq(1..Len(sql))
      /\ args \in Seq(Values) /\ nargs \in Nat /\ Next /\ Len(sql) \in Nat
      /\ ~building /\ UNCHANGED <<building, names, parts>>
  BY InterpolateAssumption, StatementsAreTexts DEF ScanInv, TypeOK, Driver
<1>2. sql' = sql /\ nargs' = nargs
  BY <1>1 DEF Next, findBindPlaceholders, ScanNormal, ScanLiteral, ScanBlock, ScanLine, Go,
         Placeholder, WrongCount, NoPlaceholders, StartSplice, CopyRest, Splice, Unsupported, splice
<1>3. NamesPlain' <=> NamesPlain
  BY <1>1 DEF NamesPlain
<1>4. ASSUME parts > 0 /\ NamesPlain => Kept' PROVE AskedInv'
  BY <1>1, <1>2, <1>3, <1>4 DEF AskedInv
<1> SUFFICES ASSUME parts > 0, NamesPlain PROVE Kept'
  BY <1>4
<1>5. Built(sql, names, nargs) /\ Kept
  BY DEF AskedInv
<1>6. PlainNames(sql) /\ Spaced(sql) /\ Identifiers(sql) = names
  BY <1>5 DEF Built
<1>7. i > Len(sql) => Found(sql, positions, Len(sql) + 1)
  <2>1. i > Len(sql) => i = Len(sql) + 1
    BY <1>1
  <2> QED
    BY <1>6, <2>1 DEF ScanInv, Scanned
<1>8. CASE findBindPlaceholders
  <2>1. pc = "scan" /\ pc' = "scan" /\ result' = result /\ result = "running"
    BY <1>8 DEF findBindPlaceholders, ScanNormal, ScanLiteral, ScanBlock, ScanLine, Go,
                Placeholder, Scanning, ArriveInv
  <2> QED
    BY <2>1 DEF Kept
<1>9. ASSUME WrongCount \/ \E v \in Values : Unsupported(v) PROVE Kept'
  <2>1. pc' = "done" /\ result' = "err"
    BY <1>9 DEF WrongCount, Unsupported, Return
  <2> QED
    BY <2>1 DEF Kept
<1>10. CASE NoPlaceholders
  <2>1. pc' = "done" /\ sb' = sql
    BY <1>10 DEF NoPlaceholders, Return
  <2> QED
    BY <1>1, <1>6, <2>1 DEF Kept
<1>11. CASE StartSplice
  <2>1. pc = "scan" /\ result' = result /\ result = "running" /\ UNCHANGED <<prev, sb>>
    BY <1>11 DEF StartSplice, splice, ArriveInv
  <2>2. NamesKept
    BY <1>1, <1>6, <2>1, NothingKept DEF ArriveInv
  <2>3. NamesKept'
    BY <1>1, <1>2, <2>1, <2>2 DEF NamesKept
  <2> QED
    BY <2>1, <2>3 DEF Kept
<1>12. ASSUME NEW v \in Values, Splice(v) PROVE Kept'
  <2>1. /\ pc = "splice" /\ nargs = Len(positions) /\ i > Len(sql)
        /\ result' = result /\ result = "running" /\ Spliced /\ NamesKept
    BY <1>5, <1>6, <1>12 DEF Splice, ScanInv, Counted, ArriveInv, Kept
  <2>2. NamesKept'
    BY <1>1, <1>6, <1>7, <1>12, <2>1, SpliceKeepsNames
  <2> QED
    BY <2>1, <2>2 DEF Kept
<1>13. CASE CopyRest
  <2>1. /\ pc = "splice" /\ pc' = "done" /\ nargs = Len(positions) /\ i > Len(sql)
        /\ Spliced /\ NamesKept /\ nargs > 0
    BY <1>5, <1>6, <1>13 DEF CopyRest, Return, ScanInv, Counted, ArriveInv, Kept
  <2>2. Identifiers(sb') = names'
    BY <1>1, <1>6, <1>7, <1>13, <2>1, CopyRestKeepsNames
  <2> QED
    BY <2>1, <2>2 DEF Kept
<1> QED
  BY <1>1, <1>8, <1>9, <1>10, <1>11, <1>12, <1>13 DEF Next

\* Every step keeps what GORM asked for.
LEMMA AskedStep == ScanInv /\ ArriveInv /\ AskedInv /\ [DNext]_dvars => AskedInv'
<1> SUFFICES ASSUME ScanInv, ArriveInv, AskedInv, [DNext]_dvars PROVE AskedInv'
  OBVIOUS
<1>1. CASE UNCHANGED dvars
  <2>1. UNCHANGED <<sql, nargs, pc, prev, sb, result, building, names, parts>>
    BY <1>1 DEF dvars, vars
  <2> QED
    BY <2>1 DEF AskedInv, NamesPlain, Kept, NamesKept
<1> QED
  BY <1>1, AskedBuild, AskedDriver DEF DNext

\* When all placeholders are found, there are as many positions as placeholders.
LEMMA FoundCount ==
  ASSUME NEW s \in Seq(Letter), NEW ps \in Seq(1..Len(s)), Found(s, ps, Len(s) + 1)
  PROVE  Len(ps) = Cardinality(Placeholders(s))
<1> DEFINE S == 1..Len(ps)
           T == Placeholders(s)
<1>1. Len(ps) \in Nat /\ Len(s) \in Nat /\ T \subseteq 1..Len(s)
  BY PlaceholdersCount
<1>2. {p \in T : p < Len(s) + 1} = T
  BY <1>1
<1>3. Range(ps) = T
  BY <1>2 DEF Found
<1>4. DOMAIN ps = S /\ ps \in [S -> 1..Len(s)]
  OBVIOUS
<1>5. ps \in [S -> T] /\ \A t \in T : \E k \in S : ps[k] = t
  BY <1>3, <1>4 DEF Range
<1>6. \A a, b \in S : ps[a] = ps[b] => a = b
  <2> SUFFICES ASSUME NEW a \in S, NEW b \in S, ps[a] = ps[b], a /= b PROVE FALSE
    OBVIOUS
  <2>1. a < b \/ b < a
    BY <1>1
  <2>2. ps[a] \in Nat /\ ps[b] \in Nat
    BY <1>4
  <2>3. a < b => ps[a] < ps[b]
    BY <1>4 DEF Found
  <2>4. b < a => ps[b] < ps[a]
    BY <1>4 DEF Found
  <2> QED
    BY <2>1, <2>2, <2>3, <2>4
<1> HIDE DEF S, T
<1>7. ps \in Injection(S, T)
  BY <1>5, <1>6 DEF Injection, IsInjective
<1>8. ps \in Surjection(S, T)
  BY <1>5 DEF Surjection
<1>9. ExistsBijection(S, T)
  BY <1>7, <1>8 DEF ExistsBijection, Bijection
<1>10. IsFiniteSet(S) /\ Cardinality(S) = Len(ps)
  <2>1. 1 \in Int /\ Len(ps) \in Int
    BY <1>1
  <2>2. IsFiniteSet(1..Len(ps)) /\ Cardinality(1..Len(ps)) = IF 1 > Len(ps) THEN 0 ELSE Len(ps) - 1 + 1
    BY <2>1, FS_Interval
  <2> QED
    BY <1>1, <2>2 DEF S
<1>11. Cardinality(T) = Cardinality(S)
  BY <1>9, <1>10, FS_Bijection
<1> QED
  BY <1>10, <1>11 DEF T

\* A statement that GORM writes with plain names has as many placeholders as values were bound,
\* and its identifiers, and no others, are in the text the driver sends, in their order, whatever
\* the values are.
THEOREM StatementsArrive == DSpec => []GormStatementsArrive
<1>1. ScanInv /\ AskedInv => GormStatementsArrive
  <2> SUFFICES ASSUME ScanInv, AskedInv, parts > 0, NamesPlain
               PROVE  /\ i > Len(sql) => Len(positions) = nargs
                      /\ result = "ok" => Identifiers(sb) = names
    BY DEF GormStatementsArrive, ByGorm, NamesPlain
  <2>1. Built(sql, names, nargs) /\ Kept
    BY DEF AskedInv
  <2>2. sql \in Seq(Letter) /\ i \in 1..Len(sql) + 1 /\ positions \in Seq(1..Len(sql)) /\ Len(sql) \in Nat
    BY StatementsAreTexts DEF ScanInv, TypeOK
  <2>3. ASSUME i > Len(sql) PROVE Len(positions) = nargs
    <3>1. i = Len(sql) + 1
      BY <2>2, <2>3
    <3>2. Found(sql, positions, Len(sql) + 1)
      BY <2>1, <3>1 DEF ScanInv, Scanned, Built
    <3> QED
      BY <2>1, <2>2, <3>2, FoundCount DEF Built
  <2> QED
    BY <2>1, <2>3 DEF Kept
<1>2. DInit => ScanInv /\ ArriveInv /\ AskedInv
  BY ScanInit, ArriveInit, AskedInit
<1>3. ScanInv /\ ArriveInv /\ AskedInv /\ [DNext]_dvars => (ScanInv /\ ArriveInv /\ AskedInv)'
  BY ScanStep, ArriveStep, AskedStep
<1> QED
  BY <1>1, <1>2, <1>3, PTL DEF DSpec

-----------------------------------------------------------------------------
\* Columns: each was made by DataTypeOf for a field of the models.

ColumnsMade ==
  \A k \in DOMAIN columns : columns[k].field \in Fields
                           /\ columns[k].type = DataTypeOf(columns[k].field)

\* The type DataTypeOf gives a field has room for its values.
LEMMA TypeFits ==
  ASSUME NEW f \in Fields, ~Excepted(f)
  PROVE  Fits(f, DataTypeOf(f))
<1> DEFINE t == DataTypeOf(f)
<1>1. /\ f.kind \in {"Bool", "Int", "Uint", "Float", "String", "Time", "Bytes", "custom"}
      /\ f.size \in Nat /\ f.precision \in Nat /\ f.auto \in BOOLEAN
      /\ f.auto => f.kind \in {"Int", "Uint"}
      /\ f.kind \in {"Int", "Uint"} => f.size <= 64
  BY DialectorAssumption DEF Field
<1>0. /\ f.kind = "Uint" => f.size < 64 /\ (f.auto => f.size /= 32)
      /\ f.kind = "String" => f.size > 0
      /\ f.kind /= "custom"
  BY <1>1 DEF Excepted
<1>2. CASE f.auto
  <2>1. t = Type(IF f.size > 32 THEN "BIGINT" ELSE "INTEGER", 0)
    BY <1>1, <1>2 DEF DataTypeOf
  <2>2. Bits(t) = IF f.size > 32 THEN 64 ELSE 32
    BY <2>1 DEF Bits, Type
  <2> HIDE DEF t
  <2>3. CASE f.kind = "Int"
    BY <1>1, <1>2, <2>2, <2>3 DEF Fits, t
  <2>4. CASE f.kind = "Uint"
    BY <1>0, <1>1, <1>2, <2>2, <2>4 DEF Fits, t
  <2> QED
    BY <1>1, <1>2, <2>3, <2>4
<1>3. CASE ~f.auto /\ f.kind = "Bool"
  <2>1. Bits(t) = 16
    BY <1>1, <1>3 DEF DataTypeOf, Bits, Type
  <2> HIDE DEF t
  <2> QED
    BY <1>3, <2>1 DEF Fits, t
<1>4. CASE ~f.auto /\ f.kind = "Int"
  <2>1. Bits(t) = IF f.size <= 16 THEN 16 ELSE IF f.size <= 32 THEN 32 ELSE 64
    BY <1>1, <1>4 DEF DataTypeOf, Bits, Type
  <2> HIDE DEF t
  <2> QED
    BY <1>1, <1>4, <2>1 DEF Fits, t
<1>5. CASE ~f.auto /\ f.kind = "Uint"
  <2>1. Bits(t) = IF f.size <= 8 THEN 16 ELSE IF f.size <= 16 THEN 32 ELSE 64
    BY <1>1, <1>5 DEF DataTypeOf, Bits, Type
  <2> HIDE DEF t
  <2> QED
    BY <1>0, <1>1, <1>5, <2>1 DEF Fits, t
<1>6. CASE ~f.auto /\ f.kind = "Float"
  <2>1. t.base = IF f.size <= 32 THEN "FLOAT" ELSE "DOUBLE"
    BY <1>1, <1>6 DEF DataTypeOf, Type
  <2> HIDE DEF t
  <2> QED
    BY <1>1, <1>6, <2>1 DEF Fits, t
<1>7. CASE ~f.auto /\ f.kind = "String"
  <2>1. t = IF f.size >= 1073741823 THEN Type("STRING", 0) ELSE Type("VARCHAR", f.size)
    BY <1>0, <1>1, <1>7 DEF DataTypeOf
  <2>2. t.base = "STRING" \/ (t.base = "VARCHAR" /\ t.size = f.size)
    BY <2>1 DEF Type
  <2> HIDE DEF t
  <2> QED
    BY <1>0, <1>1, <1>7, <2>2 DEF Fits, t
<1>8. CASE ~f.auto /\ f.kind = "Time"
  <2>1. t.base = "DATETIME" /\ t.size = f.precision
    BY <1>8 DEF DataTypeOf, Type
  <2> HIDE DEF t
  <2> QED
    BY <1>1, <1>8, <2>1 DEF Fits, t
<1>9. CASE ~f.auto /\ f.kind = "Bytes"
  <2>1. t.base = "BLOB"
    BY <1>9 DEF DataTypeOf, Type
  <2> HIDE DEF t
  <2> QED
    BY <1>9, <2>1 DEF Fits, t
<1> QED
  BY <1>0, <1>1, <1>2, <1>3, <1>4, <1>5, <1>6, <1>7, <1>8, <1>9

\* Columns are made by DataTypeOf only.
LEMMA ColumnsStep == ColumnsMade /\ [DNext]_dvars => ColumnsMade'
<1> SUFFICES ASSUME ColumnsMade, [DNext]_dvars PROVE ColumnsMade'
  OBVIOUS
<1>1. CASE UNCHANGED columns
  BY <1>1 DEF ColumnsMade
<1>2. ASSUME NEW n \in Names, NEW f \in Fields, FullDataTypeOf(n, f) PROVE ColumnsMade'
  <2>1. columns' = <<[field |-> f, type |-> DataTypeOf(f)]>>
    BY <1>2 DEF FullDataTypeOf
  <2> QED
    BY <2>1 DEF ColumnsMade
<1> QED
  BY <1>1, <1>2 DEF DNext, Build, Driver, WriteName, WriteVar, HasTable, HasColumn, Submit, dvars

\* Each column has room for every value of its field (cubrid.go 122-179), whatever the fields and
\* their widths, but for the three kinds of fields that Excepted names.
THEOREM ColumnsAlwaysHold == DSpec => []ColumnsHoldFields
<1>1. DInit => ColumnsMade
  BY DEF DInit, ColumnsMade
<1>2. ColumnsMade => ColumnsHoldFields
  BY TypeFits DEF ColumnsMade, ColumnsHoldFields
<1> QED
  BY <1>1, <1>2, ColumnsStep, PTL DEF DSpec
=============================================================================
