---------------------------- MODULE Interpolate ----------------------------
(***************************************************************************)
(* InterpolateArgs (types.go): the text of a call with arguments is the    *)
(* statement with each `?` placeholder replaced by its argument, formatted *)
(* as an SQL literal.  Characters are kept only as far as the scanner and  *)
(* the literals tell them apart:                                           *)
(*   "q" the single quote   "d" the double quote   "/" "*" "-" "?"         *)
(*   "n" newline   "b" backslash   "x" any other character                 *)
(* Positions count from 1.                                                 *)
(***************************************************************************)
EXTENDS Naturals, SequencesExt

CONSTANTS
  Values,    \* the arguments callers pass
  MaxSql,    \* bound: length of the statement
  MaxArgs    \* bound: number of arguments

Chars == {"q", "d", "/", "*", "-", "n", "?", "x"}

\* An argument: its kind decides the format, a text or a number also has characters.  A number
\* has digits, points and letters, with a sign in front of some of them.
IsValue(v) ==
  /\ v.kind \in {"null", "number", "text", "bytes", "unsupported"}
  /\ v.chars \in Seq(Chars \cup {"b"})
  /\ v.kind = "number" =>
       /\ v.chars \in Seq({"-", "x"}) /\ v.chars /= <<>>
       /\ \A k \in 1..Len(v.chars) - 1 : ~(v.chars[k] = "-" /\ v.chars[k + 1] = "-")

ASSUME InterpolateAssumption ==
  /\ MaxSql \in Nat /\ MaxArgs \in Nat
  /\ \A v \in Values : IsValue(v)

VARIABLES
  sql,         \* the statement
  nargs,       \* len(args)
  args,        \* the arguments that were formatted so far
  pc,          \* "scan", "splice" or "done"
  i, state,    \* position and state of findBindPlaceholders
  positions,   \* placeholders found
  prev, sb,    \* start of the text not yet copied, and the text built
  result       \* "running", "ok" or "err"

vars == <<sql, nargs, args, pc, i, state, positions, prev, sb, result>>
splice == <<sql, nargs, args, prev, sb>>

Init ==
  /\ sql \in UNION {[1..n -> Chars] : n \in 0..MaxSql}
  /\ nargs \in 0..MaxArgs
  /\ args = <<>> /\ pc = "scan"
  /\ i = 1 /\ state = "normal" /\ positions = <<>>
  /\ prev = 1 /\ sb = <<>>
  /\ result = "running"

-----------------------------------------------------------------------------
\* findBindPlaceholders: one iteration of the loop.

At(c) == sql[i] = c
At2(c, d) == At(c) /\ i + 1 <= Len(sql) /\ sql[i + 1] = d

Go(n, s) ==
  /\ i' = i + n
  /\ state' = s
  /\ UNCHANGED <<pc, positions, result, splice>>

Placeholder ==
  /\ positions' = Append(positions, i)
  /\ i' = i + 1
  /\ UNCHANGED <<pc, state, result, splice>>

Scanning(s) == pc = "scan" /\ i <= Len(sql) /\ state = s

\* Fault: the star that opens a block comment is looked at again.
ScanNormalTwice ==
  /\ Scanning("normal")
  /\ \/ At("q") /\ Go(1, "literal")
     \/ At2("/", "*") /\ Go(1, "block")
     \/ At2("-", "-") /\ Go(2, "line")
     \/ At("?") /\ Placeholder
     \/ ~(At("q") \/ At2("/", "*") \/ At2("-", "-") \/ At("?")) /\ Go(1, "normal")

ScanNormal ==
  /\ Scanning("normal")
  /\ \/ At("q") /\ Go(1, "literal")
     \/ At2("/", "*") /\ Go(2, "block")
     \/ At2("-", "-") /\ Go(2, "line")
     \/ At("?") /\ Placeholder
     \/ ~(At("q") \/ At2("/", "*") \/ At2("-", "-") \/ At("?")) /\ Go(1, "normal")

\* A doubled quote is a character of the literal.
ScanLiteral ==
  /\ Scanning("literal")
  /\ \/ At2("q", "q") /\ Go(2, "literal")
     \/ At("q") /\ ~At2("q", "q") /\ Go(1, "normal")
     \/ ~At("q") /\ Go(1, "literal")

\* Fault: a star ends the comment whatever follows it.
ScanBlockAnyStar ==
  /\ Scanning("block")
  /\ \/ At("*") /\ Go(2, "normal")
     \/ ~At("*") /\ Go(1, "block")

ScanBlock ==
  /\ Scanning("block")
  /\ \/ At2("*", "/") /\ Go(2, "normal")
     \/ ~At2("*", "/") /\ Go(1, "block")

ScanLine ==
  /\ Scanning("line")
  /\ Go(1, IF At("n") THEN "normal" ELSE "line")

-----------------------------------------------------------------------------
\* InterpolateArgs

Return(r) == pc' = "done" /\ result' = r

WrongCount ==
  /\ pc = "scan" /\ i > Len(sql) /\ Len(positions) /= nargs
  /\ Return("err")
  /\ UNCHANGED <<i, state, positions, splice>>

NoPlaceholders ==
  /\ pc = "scan" /\ i > Len(sql) /\ Len(positions) = nargs /\ nargs = 0
  /\ sb' = sql
  /\ Return("ok")
  /\ UNCHANGED <<sql, nargs, args, i, state, positions, prev>>

StartSplice ==
  /\ pc = "scan" /\ i > Len(sql) /\ Len(positions) = nargs /\ nargs > 0
  /\ pc' = "splice"
  /\ UNCHANGED <<i, state, positions, result, splice>>

\* A text with each of the characters in D written twice.
Doubled(s, D) ==
  FlattenSeq([k \in 1..Len(s) |-> IF s[k] \in D THEN <<s[k], s[k]>> ELSE <<s[k]>>])

\* Fault: quotes are left as they are.
escapeStringSlashOnly(s) == Doubled(s, {"b"})

\* Backslashes are doubled, then quotes; neither replacement adds to what the other reads.
escapeString(s) == Doubled(s, {"b", "q"})

\* NULL, a number, a quoted text, or a text behind a type prefix (X'..', DATETIME'..').
FormatValue(v) ==
  CASE v.kind = "null"   -> <<"x">>
    [] v.kind = "number" -> v.chars
    [] v.kind = "text"   -> <<"q">> \o escapeString(v.chars) \o <<"q">>
    [] v.kind = "bytes"  -> <<"x", "q", "x", "q">>

\* One iteration of the loop over the placeholders; v is the argument of this one.
Splice(v) ==
  /\ pc = "splice" /\ Len(args) < nargs
  /\ v.kind /= "unsupported"
  /\ LET pos == positions[Len(args) + 1]
     IN /\ sb' = sb \o SubSeq(sql, prev, pos - 1) \o FormatValue(v)
        /\ prev' = pos + 1
  /\ args' = Append(args, v)
  /\ UNCHANGED <<sql, nargs, pc, i, state, positions, result>>

Unsupported(v) ==
  /\ pc = "splice" /\ Len(args) < nargs
  /\ v.kind = "unsupported"
  /\ Return("err")
  /\ UNCHANGED <<i, state, positions, splice>>

CopyRest ==
  /\ pc = "splice" /\ Len(args) = nargs
  /\ sb' = sb \o SubSeq(sql, prev, Len(sql))
  /\ Return("ok")
  /\ UNCHANGED <<sql, nargs, args, i, state, positions, prev>>

findBindPlaceholders == ScanNormal \/ ScanLiteral \/ ScanBlock \/ ScanLine

Next ==
  \/ findBindPlaceholders
  \/ WrongCount \/ NoPlaceholders \/ StartSplice \/ CopyRest
  \/ \E v \in Values : Splice(v) \/ Unsupported(v)

Spec == Init /\ [][Next]_vars

-----------------------------------------------------------------------------
\* What the scanner should find, stated without a scanner: a text is a row of
\* tokens (literals, quoted identifiers, comments, single characters), and a placeholder is
\* a `?` token.

FirstOr(S, default) == IF S = {} THEN default ELSE Min(S)

Quotes(s, j, k) == Cardinality({m \in j..k : s[m] = s[j]})

QuoteEnds(s, k) ==
  {j \in k + 1..Len(s) : /\ s[j] = s[k] /\ Quotes(s, k, j) % 2 = 0
                         /\ j < Len(s) => s[j + 1] /= s[k]}

BlockEnds(s, k) == {j \in k + 3..Len(s) : s[j - 1] = "*" /\ s[j] = "/"}

LineEnds(s, k) == {j \in k + 2..Len(s) : s[j] = "n"}

Opens(s, k, c, d) == s[k] = c /\ k < Len(s) /\ s[k + 1] = d

\* Where the token that starts at k ends; one that is not closed takes the rest.
TokenEnd(s, k) ==
  CASE s[k] \in {"q", "d"}   -> FirstOr(QuoteEnds(s, k), Len(s))
    [] Opens(s, k, "/", "*") -> FirstOr(BlockEnds(s, k), Len(s))
    [] Opens(s, k, "-", "-") -> FirstOr(LineEnds(s, k), Len(s))
    [] OTHER                 -> k

\* The first token starts at 1, each of the others behind one that starts before it; upTo[k] are
\* the starts that the tokens which start at 1..k tell.
TokenStarts(s) ==
  LET upTo[k \in 0..Len(s)] ==
        IF k = 0 THEN {1}
        ELSE LET S == upTo[k - 1] IN IF k \in S THEN S \cup {TokenEnd(s, k) + 1} ELSE S
  IN (1..Len(s)) \cap upTo[Len(s)]

Placeholders(s) == {k \in TokenStarts(s) : s[k] = "?"}

\* The text that was doubled: of two characters of D the second one is dropped.
Undoubled(s, D) ==
  LET read[k \in 0..Len(s)] ==
        IF k = 0 THEN [text |-> <<>>, half |-> FALSE]
        ELSE LET r == read[k - 1] IN
             IF r.half /\ s[k] = s[k - 1] THEN [text |-> r.text, half |-> FALSE]
             ELSE [text |-> Append(r.text, s[k]), half |-> s[k] \in D]
  IN read[Len(s)].text

\* The text a quoted literal stands for on a server that reads both escapes.
ReadBack(s) == Undoubled(s, {"b", "q"})

\* The scanner knows no quoted identifiers: it reads on inside them.  A name is plain when it
\* holds nothing the scanner reacts to.
PlainName(s) ==
  /\ \A k \in 1..Len(s) : s[k] \notin {"q", "?"}
  /\ \A k \in 1..Len(s) - 1 : <<s[k], s[k + 1]>> \notin {<<"-", "-">>, <<"/", "*">>}

PlainNames(s) ==
  \A k \in TokenStarts(s) : s[k] = "d" => PlainName(SubSeq(s, k, TokenEnd(s, k)))

\* Every placeholder stands between other characters, as it does when it is written as an
\* operand of its own; a `?` that touches a quote or a dash becomes part of what it touches.
Spaced(s) ==
  \A k \in Placeholders(s) : /\ k > 1 => s[k - 1] \in {"x", "n"}
                             /\ k < Len(s) => s[k + 1] \in {"x", "n"}

\* By how much the literals of the first k arguments are longer than their placeholders.
Growth(values, k) ==
  LET sum[m \in 0..Len(values)] ==
        IF m = 0 THEN 0 ELSE sum[m - 1] + Len(FormatValue(values[m])) - 1
  IN sum[k]

\* Where the k-th argument's literal is in the text built.
Offset(k) == positions[k] + Growth(args, k - 1)

\* The type invariant; the scanner never leaves the text and never looks behind it.
TypeOK ==
  /\ sql \in Seq(Chars) /\ nargs \in 0..MaxArgs
  /\ args \in Seq(Values) /\ Len(args) <= nargs
  /\ pc \in {"scan", "splice", "done"}
  /\ i \in 1..Len(sql) + 1 /\ state \in {"normal", "literal", "block", "line"}
  /\ positions \in Seq(1..Len(sql))
  /\ prev \in 1..Len(sql) + 1
  /\ result \in {"running", "ok", "err"}

\* When it has read the statement, findBindPlaceholders (types.go 41-93) has found exactly the `?`
\* that are tokens of their own, in order, whatever literals and comments are open, nested in
\* each other or never closed, in a statement whose quoted identifiers are plain.
ScanFindsPlaceholders ==
  pc = "scan" /\ i > Len(sql) /\ PlainNames(sql) =>
    /\ Range(positions) = Placeholders(sql)
    /\ \A m, n \in DOMAIN positions : m < n => positions[m] < positions[n]

\* Each argument arrives as one value (types.go 23-38): in the text built, the literal of the
\* k-th argument starts a token where the k-th placeholder was, a quoted one is one token that
\* reads back as the argument, and no `?` inside an argument has become a placeholder.
ArgsArriveWhole ==
  result = "ok" /\ PlainNames(sql) /\ Spaced(sql) =>
    /\ Placeholders(sb) = {}
    /\ \A k \in 1..nargs :
         LET at == Offset(k)
             end == at + Len(FormatValue(args[k])) - 1
         IN /\ at \in TokenStarts(sb)
            /\ args[k].kind = "text" => /\ TokenEnd(sb, at) = end
                                        /\ ReadBack(SubSeq(sb, at + 1, end - 1)) = args[k].chars
=============================================================================
