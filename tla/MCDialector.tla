---------------------------- MODULE MCDialector ----------------------------
EXTENDS Dialector

Text(s) == [kind |-> "text", chars |-> s]

\* One argument of each kind, and the texts a literal could be confused by.
SomeValues ==
  {[kind |-> k, chars |-> <<>>] : k \in {"null", "bytes", "unsupported"}}
    \cup {[kind |-> "number", chars |-> <<"-", "x">>]}
    \cup {Text(<<>>), Text(<<"q">>), Text(<<"?">>), Text(<<"q", "?">>), Text(<<"b", "q", "q">>),
          Text(<<"d">>)}

\* Plain names, with quotes at either end and doubled, and names the scanner stumbles over.
SomeNames == {<<"x">>, <<"d">>, <<"x", "d">>, <<"d", "d", "x">>, <<"-", "/">>, <<"q">>, <<"?">>}

\* The widths of Go's types and their neighbours.
SomeFields ==
  {[kind |-> k, size |-> n, precision |-> p, auto |-> a, default |-> d] :
     k \in {"Bool", "Int", "Uint", "Float", "String", "Time", "Bytes", "custom"},
     n \in {0, 8, 9, 16, 17, 32, 33, 64, 1073741822, 1073741823},
     p \in {0, 3}, a \in BOOLEAN, d \in BOOLEAN}
    \cap {f \in Field : /\ f.auto => f.kind \in {"Int", "Uint"}
                        /\ f.kind /= "String" => f.size <= 64
                        /\ f.precision > 0 => f.kind = "Time"
                        /\ f.default => f.kind = "custom"}
=============================================================================
