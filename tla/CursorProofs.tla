---------------------------- MODULE CursorProofs ----------------------------
(***************************************************************************)
(* For any number of result sets, any fetch size and any number of tuples: *)
(* the types, the positions that every result set returns, and that those  *)
(* with a handle of their own implement RowStream beside the others.       *)
(***************************************************************************)
EXTENDS Cursor, SequenceTheorems, TLAPS

\* FC=8 on the handle of r reads the execution of r.
HoldsOwn ==
  /\ DOMAIN holds = {HandleOf(r) : r \in Reader}
  /\ \A r \in OwnReader : state[r] # "new" => holds[HandleOf(r)] = <<r>>

\* The inductive invariant.
IInv ==
  /\ TypeOK /\ BufferMatches /\ HoldsOwn /\ PositionsInOrder
  /\ \A r \in Reader : state[r] = "new" => out[r] = <<>> /\ fetchedCount[r] = 0

LEMMA BatchProperties ==
  ASSUME NEW e \in Reader, NEW first \in Nat \ {0}, NEW n \in Nat
  PROVE  /\ Batch(e, first, n) \in Seq(Tuple)
         /\ Len(Batch(e, first, n)) = n
         /\ \A i \in 1..n : Batch(e, first, n)[i] = <<e, first + i - 1>>
<1>1. \A i \in 1..n : <<e, first + i - 1>> \in Tuple
  BY DEF Tuple
<1>2. Batch(e, first, n) \in [1..n -> Tuple]
  BY <1>1 DEF Batch
<1>3. Batch(e, first, n) \in Seq(Tuple)
  BY <1>2, SeqDef
<1>4. Len(Batch(e, first, n)) = n
  BY <1>2, <1>3, LenProperties
<1> QED BY <1>3, <1>4 DEF Batch

LEMMA HandleOfInjective ==
  ASSUME NEW r, NEW q, q \notin SharedReader, HandleOf(r) = HandleOf(q)
  PROVE  r = q
BY DEF HandleOf

LEMMA OwnIsReader == OwnReader \subseteq Reader /\ OwnReader \cap SharedReader = {}
BY DEF OwnReader

LEMMA InitInv == Init => IInv
<1> SUFFICES ASSUME Init PROVE IInv
  OBVIOUS
<1>0. <<>> \in Seq(Tuple) /\ Len(<<>>) = 0 /\ 1..0 = {}
  BY EmptySeq
<1>1. TypeOK
  <2>1. /\ totalCount \in [Reader -> Nat] /\ fetchedCount \in [Reader -> Nat]
        /\ bufferedRows \in [Reader -> Seq(Tuple)] /\ out \in [Reader -> Seq(Tuple)]
        /\ bufferOffset \in [Reader -> Nat] /\ avail \in [Reader -> Nat]
    BY <1>0 DEF Init
  <2>2. exhausted \in [Reader -> BOOLEAN] /\ state \in [Reader -> {"new", "open", "eof", "closed"}]
    BY DEF Init
  <2>3. ASSUME NEW r \in Reader
        PROVE  bufferOffset[r] <= Len(bufferedRows[r]) /\ state[r] = "new"
    <3>1. bufferOffset[r] = 0 /\ bufferedRows[r] = <<>> /\ state[r] = "new"
      BY DEF Init
    <3> QED BY <1>0, <3>1
  <2> QED BY <2>1, <2>2, <2>3 DEF TypeOK
<1>2. BufferMatches /\ PositionsInOrder
  <2> SUFFICES ASSUME NEW r \in Reader
               PROVE  Window(r) /\ Content(r) /\ \A i \in 1..Len(out[r]) : out[r][i][2] = i
    BY OwnIsReader DEF BufferMatches, PositionsInOrder
  <2>1. /\ fetchedCount[r] = 0 /\ avail[r] = 0 /\ bufferOffset[r] = 0 /\ exhausted[r] = TRUE
        /\ bufferedRows[r] = <<>> /\ out[r] = <<>>
    BY DEF Init
  <2> QED BY <1>0, <2>1 DEF Window, Content
<1>3. HoldsOwn
  BY OwnIsReader DEF Init, HoldsOwn
<1> QED BY <1>1, <1>2, <1>3 DEF Init, IInv

\* A step that leaves a result set alone leaves its window and its content alone.
LEMMA SameWindow ==
  ASSUME NEW q \in Reader,
         UNCHANGED <<fetchedCount[q], avail[q], bufferedRows[q], out[q], bufferOffset[q],
                     exhausted[q], totalCount[q]>>
  PROVE  Window(q)' = Window(q) /\ Content(q)' = Content(q)
BY DEF Window, Content

\* So a step of r keeps BufferMatches if it keeps the window and the content of r.
LEMMA OthersMatch ==
  ASSUME BufferMatches, NEW r \in Reader, Window(r)', r \in OwnReader => Content(r)',
         \A q \in Reader \ {r} :
           UNCHANGED <<fetchedCount[q], avail[q], bufferedRows[q], out[q], bufferOffset[q],
                       exhausted[q], totalCount[q]>>
  PROVE  BufferMatches'
<1>1. \A q \in Reader \ {r} : Window(q)'
  BY SameWindow DEF BufferMatches
<1>2. \A q \in OwnReader \ {r} : Content(q)'
  BY SameWindow, OwnIsReader DEF BufferMatches
<1>3. OwnReader' = OwnReader
  BY DEF OwnReader
<1> QED BY <1>1, <1>2, <1>3 DEF BufferMatches

\* The view RowStream has of a step of r: that of r alone, if any.
LEMMA OthersStutter ==
  ASSUME NEW r \in Reader, r \notin OwnReader,
         \A q \in Reader \ {r} : UNCHANGED <<avail[q], state[q], out[q]>>
  PROVE  UNCHANGED RS!svars
<1>1. \A q \in OwnReader : UNCHANGED <<avail[q], state[q], out[q]>>
  BY OwnIsReader
<1>2. UNCHANGED <<[q \in OwnReader |-> avail[q]], [q \in OwnReader |-> state[q]],
                  [q \in OwnReader |-> out[q]]>>
  BY <1>1
<1> QED BY <1>2 DEF RS!svars

\* What a step of r means to RowStream.
Maps(r, step) == IF r \in OwnReader THEN step ELSE UNCHANGED RS!svars

LEMMA QueryInv ==
  ASSUME IInv, NEW r \in Reader, NEW type \in StmtTypes[r], NEW total \in 0..MaxTotal,
         Query(r, type, total)
  PROVE  IInv' /\ Maps(r, RS!SOpen(r))
<1> USE CursorAssumption
<1>1. type \in {"select", "call", "dml"} /\ total \in Nat /\ (r \in OwnReader => type # "call")
  BY DEF OwnReader
<1>2. PICK n \in Inline(type, total) :
        /\ fetchedCount' = [fetchedCount EXCEPT ![r] = n]
        /\ bufferedRows' = [bufferedRows EXCEPT ![r] = Batch(r, 1, n)]
        /\ exhausted' = [exhausted EXCEPT ![r] = ExhaustedAtOpen(n, total)]
  BY DEF Query
<1>3. n \in 0..total /\ (n = 0 => type # "select" \/ total = 0) /\ (n # 0 => type = "select")
  BY <1>1, <1>2 DEF Inline
<1>4. /\ Batch(r, 1, n) \in Seq(Tuple) /\ Len(Batch(r, 1, n)) = n
      /\ \A i \in 1..n : Batch(r, 1, n)[i] = <<r, i>>
  <2>1. n \in Nat /\ 1 \in Nat \ {0}
    BY <1>1, <1>3
  <2>2. \A i \in 1..n : 1 + i - 1 = i
    BY <2>1
  <2>3. \A i \in 1..n : Batch(r, 1, n)[i] = <<r, 1 + i - 1>>
    BY <2>1, BatchProperties
  <2>4. Batch(r, 1, n) \in Seq(Tuple) /\ Len(Batch(r, 1, n)) = n
    BY <2>1, BatchProperties
  <2> QED BY <2>2, <2>3, <2>4
<1>5. ExhaustedAtOpen(n, total) = (n = 0 \/ n >= total)
  BY DEF ExhaustedAtOpen
<1>6. out[r] = <<>> /\ fetchedCount[r] = 0 /\ Len(out[r]) = 0
  BY EmptySeq DEF IInv, Query
<1>7. HoldsOwn' /\ \A q \in Reader : state'[q] # "new" => holds'[HandleOf(q)] \in {<<p>> : p \in Reader}
  <2>1. holds' = [holds EXCEPT ![HandleOf(r)] = <<r>>] /\ HandleOf(r) \in DOMAIN holds
        /\ state' = [state EXCEPT ![r] = "open"]
    BY DEF Query, IInv, HoldsOwn
  <2>2. \A q \in Reader : HandleOf(q)' = HandleOf(q)
    BY DEF HandleOf
  <2>3. ASSUME NEW q \in Reader, state'[q] # "new"
        PROVE  /\ holds'[HandleOf(q)] \in {<<p>> : p \in Reader}
               /\ q \in OwnReader => holds'[HandleOf(q)] = <<q>>
    <3>1. HandleOf(q) \in DOMAIN holds
      BY DEF IInv, HoldsOwn
    <3>2. CASE HandleOf(q) = HandleOf(r)
      <4>1. holds'[HandleOf(q)] = <<r>>
        BY <2>1, <3>1, <3>2
      <4>2. q \in OwnReader => q = r
        BY <3>2, HandleOfInjective, OwnIsReader
      <4> QED BY <4>1, <4>2
    <3>3. CASE HandleOf(q) # HandleOf(r)
      <4>1. holds'[HandleOf(q)] = holds[HandleOf(q)] /\ q # r
        BY <2>1, <3>1, <3>3
      <4>2. state[q] # "new"
        BY <2>1, <2>3, <4>1 DEF IInv, TypeOK
      <4> QED BY <4>1, <4>2 DEF IInv, TypeOK, HoldsOwn
    <3> QED BY <3>2, <3>3
  <2>4. DOMAIN holds' = {HandleOf(q) : q \in Reader}
    BY <2>1 DEF IInv, HoldsOwn
  <2>5. OwnReader' = OwnReader
    BY DEF OwnReader
  <2> QED BY <2>2, <2>3, <2>4, <2>5, OwnIsReader DEF HoldsOwn
<1>8. TypeOK'
  <2>1. /\ totalCount' \in [Reader -> Nat] /\ fetchedCount' \in [Reader -> Nat]
        /\ bufferedRows' \in [Reader -> Seq(Tuple)]
        /\ bufferOffset' \in [Reader -> Nat]
    BY <1>1, <1>2, <1>3, <1>4 DEF Query, IInv, TypeOK
  <2>2. exhausted' \in [Reader -> BOOLEAN] /\ avail' \in [Reader -> Nat]
    BY <1>1, <1>2, <1>5 DEF Query, IInv, TypeOK
  <2>3. state' \in [Reader -> {"new", "open", "eof", "closed"}] /\ out' \in [Reader -> Seq(Tuple)]
    BY DEF Query, IInv, TypeOK
  <2>4. \A q \in Reader : bufferOffset'[q] <= Len(bufferedRows'[q])
    BY <1>1, <1>2, <1>3, <1>4 DEF Query, IInv, TypeOK
  <2> QED BY <1>7, <2>1, <2>2, <2>3, <2>4 DEF TypeOK, HandleOf
<1>9. BufferMatches'
  <2>1. \A q \in Reader \ {r} :
          UNCHANGED <<fetchedCount[q], avail[q], bufferedRows[q], out[q], bufferOffset[q],
                      exhausted[q], totalCount[q]>>
    BY <1>2 DEF Query, IInv, TypeOK
  <2>2. /\ fetchedCount'[r] = n /\ bufferedRows'[r] = Batch(r, 1, n)
        /\ bufferOffset'[r] = 0 /\ out'[r] = <<>> /\ totalCount'[r] = total
        /\ avail'[r] = (IF type = "dml" THEN 0 ELSE total)
        /\ exhausted'[r] = (n = 0 \/ n >= total)
    BY <1>2, <1>5, <1>6 DEF Query, IInv, TypeOK
  <2>3. \A i \in 1..n : (n + i) - n = i
    BY <1>1, <1>3
  <2>4. Len(bufferedRows'[r]) = n /\ Len(out'[r]) = 0 /\ n \in Nat
    BY <1>1, <1>3, <1>4, <1>6, <2>2
  <2>5. Window(r)'
    <3>1. Len(out'[r]) + Len(bufferedRows'[r]) = fetchedCount'[r] + bufferOffset'[r]
          /\ Len(bufferedRows'[r]) <= fetchedCount'[r]
      BY <2>2, <2>4
    <3>2. \A i \in 1..Len(bufferedRows'[r]) :
            bufferedRows'[r][i][2] = (fetchedCount'[r] + i) - Len(bufferedRows'[r])
      BY <1>4, <2>2, <2>3, <2>4
    <3> QED BY <3>1, <3>2 DEF Window
  <2>6. ASSUME r \in OwnReader
        PROVE  Content(r)'
    <3>1. fetchedCount'[r] <= avail'[r]
      BY <1>1, <1>3, <2>2
    <3>2. \A i \in 1..Len(bufferedRows'[r]) : bufferedRows'[r][i][1] = r
      BY <1>4, <2>2, <2>4
    <3>3. (exhausted'[r] => fetchedCount'[r] = avail'[r]) /\ (~exhausted'[r] => totalCount'[r] = avail'[r])
      <4>1. CASE n = 0 \/ n >= total
        <5>1. n = (IF type = "dml" THEN 0 ELSE total)
          BY <1>1, <1>3, <2>6, <4>1
        <5> QED BY <2>2, <4>1, <5>1
      <4>2. CASE ~(n = 0 \/ n >= total)
        <5>1. type # "dml"
          BY <1>1, <1>3, <4>2
        <5> QED BY <2>2, <4>2, <5>1
      <4> QED BY <4>1, <4>2
    <3> QED BY <3>1, <3>2, <3>3 DEF Content
  <2> QED BY <2>1, <2>5, <2>6, OthersMatch DEF IInv
<1>10. PositionsInOrder' /\ \A q \in Reader : state'[q] = "new" => out'[q] = <<>> /\ fetchedCount'[q] = 0
  BY <1>2 DEF Query, IInv, TypeOK, PositionsInOrder
<1>11. Maps(r, RS!SOpen(r))
  <2>1. /\ avail' = [avail EXCEPT ![r] = IF type = "dml" THEN 0 ELSE total]
        /\ state' = [state EXCEPT ![r] = "open"] /\ state[r] = "new" /\ out' = out
    BY DEF Query
  <2>2. CASE r \in OwnReader
    <3>1. [q \in OwnReader |-> avail'[q]] \in [OwnReader -> Nat]
          /\ \A q \in OwnReader \ {r} : avail'[q] = avail[q]
      BY <1>8, <2>1, OwnIsReader DEF IInv, TypeOK
    <3>2. [q \in OwnReader |-> state'[q]] = [[q \in OwnReader |-> state[q]] EXCEPT ![r] = "open"]
      BY <2>1, OwnIsReader DEF IInv, TypeOK
    <3>3. [q \in OwnReader |-> out'[q]] = [q \in OwnReader |-> out[q]]
      BY <2>1
    <3>4. [q \in OwnReader |-> state[q]][r] = "new"
      BY <2>1, <2>2
    <3> QED BY <2>2, <3>1, <3>2, <3>3, <3>4 DEF Maps, RS!SOpen
  <2>3. CASE r \notin OwnReader
    <3>1. \A q \in Reader \ {r} : UNCHANGED <<avail[q], state[q], out[q]>>
      BY <2>1 DEF IInv, TypeOK
    <3> QED BY <2>3, <3>1, OthersStutter DEF Maps
  <2> QED BY <2>2, <2>3
<1> QED BY <1>7, <1>8, <1>9, <1>10, <1>11 DEF IInv

LEMMA OutStep ==
  ASSUME IInv, NEW r \in Reader, NEW t \in Tuple, Deliver(r, t), t[2] = Len(out[r]) + 1
  PROVE  /\ out' \in [Reader -> Seq(Tuple)] /\ Len(out[r]) \in Nat
         /\ out'[r] = Append(out[r], t) /\ Len(out'[r]) = Len(out[r]) + 1
         /\ \A q \in Reader \ {r} : out'[q] = out[q]
         /\ PositionsInOrder'
<1>1. out \in [Reader -> Seq(Tuple)] /\ out[r] \in Seq(Tuple)
  BY DEF IInv, TypeOK
<1>2. Append(out[r], t) \in Seq(Tuple) /\ Len(Append(out[r], t)) = Len(out[r]) + 1
      /\ Len(out[r]) \in Nat
  BY <1>1
<1>3. /\ out' \in [Reader -> Seq(Tuple)] /\ out'[r] = Append(out[r], t)
      /\ \A q \in Reader \ {r} : out'[q] = out[q]
  BY <1>1, <1>2 DEF Deliver
<1>4. \A i \in 1..Len(out'[r]) : out'[r][i][2] = i
  <2> SUFFICES ASSUME NEW i \in 1..Len(out'[r]) PROVE out'[r][i][2] = i
    OBVIOUS
  <2>1. CASE i = Len(out[r]) + 1
    BY <1>1, <1>2, <1>3, <2>1
  <2>2. CASE i # Len(out[r]) + 1
    <3>1. i \in 1..Len(out[r])
      BY <1>2, <1>3, <2>2
    <3>2. out'[r][i] = out[r][i]
      BY <1>1, <1>3, <3>1
    <3> QED BY <3>1, <3>2 DEF IInv, PositionsInOrder
  <2> QED BY <2>1, <2>2
<1>5. PositionsInOrder'
  BY <1>3, <1>4 DEF IInv, PositionsInOrder
<1> QED BY <1>2, <1>3, <1>5

\* For RowStream, returning the right tuple of r is SDeliver.
LEMMA DeliverMaps ==
  ASSUME IInv, NEW r \in Reader, NEW t \in Tuple, Deliver(r, t), UNCHANGED <<avail, state>>,
         state[r] = "open",
         r \in OwnReader => t = <<r, Len(out[r]) + 1>> /\ Len(out[r]) < avail[r]
  PROVE  Maps(r, RS!SDeliver(r))
<1>1. out' = [out EXCEPT ![r] = Append(out[r], t)]
  BY DEF Deliver
<1>2. CASE r \in OwnReader
  <2> DEFINE o == [q \in OwnReader |-> out[q]]
  <2>1. o[r] = out[r] /\ [q \in OwnReader |-> state[q]][r] = "open"
        /\ [q \in OwnReader |-> avail[q]][r] = avail[r]
    BY <1>2
  <2>2. [q \in OwnReader |-> out'[q]] = [o EXCEPT ![r] = Append(o[r], <<r, Len(o[r]) + 1>>)]
    BY <1>1, <1>2, <2>1, OwnIsReader DEF IInv, TypeOK
  <2>3. UNCHANGED <<[q \in OwnReader |-> avail[q]], [q \in OwnReader |-> state[q]]>>
    OBVIOUS
  <2> QED BY <1>2, <2>1, <2>2, <2>3 DEF Maps, RS!SDeliver
<1>3. CASE r \notin OwnReader
  <2>1. \A q \in Reader \ {r} : UNCHANGED <<avail[q], state[q], out[q]>>
    BY <1>1 DEF IInv, TypeOK
  <2> QED BY <1>3, <2>1, OthersStutter DEF Maps
<1> QED BY <1>2, <1>3

LEMMA BufferedInv ==
  ASSUME IInv, NEW r \in Reader, NextBuffered(r)
  PROVE  IInv' /\ Maps(r, RS!SDeliver(r))
<1> DEFINE b == bufferedRows[r]
           k == bufferOffset[r]
<1>1. b \in Seq(Tuple) /\ Len(b) \in Nat /\ k \in Nat /\ k < Len(b) /\ k + 1 \in 1..Len(b)
      /\ fetchedCount[r] \in Nat /\ avail[r] \in Nat /\ Len(out[r]) \in Nat
  <2>1. b \in Seq(Tuple) /\ k \in Nat /\ k < Len(b) /\ fetchedCount[r] \in Nat /\ avail[r] \in Nat
        /\ out[r] \in Seq(Tuple)
    BY DEF IInv, TypeOK, NextBuffered
  <2>2. Len(b) \in Nat /\ Len(out[r]) \in Nat
    BY <2>1, LenProperties
  <2> QED BY <2>1, <2>2
<1>2. Window(r) /\ (r \in OwnReader => Content(r))
  BY DEF IInv, BufferMatches
<1>3. b[k + 1] \in Tuple /\ Deliver(r, b[k + 1])
  BY <1>1, ElementOfSeq DEF NextBuffered
<1>4. Len(out[r]) + Len(b) = fetchedCount[r] + k /\ Len(b) <= fetchedCount[r]
  BY <1>2 DEF Window
<1>5. /\ (fetchedCount[r] + (k + 1)) - Len(b) = Len(out[r]) + 1
      /\ (Len(out[r]) + 1) + Len(b) = fetchedCount[r] + (k + 1)
      /\ Len(out[r]) < fetchedCount[r] /\ k + 1 <= Len(b)
  <2> DEFINE o == Len(out[r])
             l == Len(b)
             f == fetchedCount[r]
  <2>1. o \in Nat /\ l \in Nat /\ f \in Nat /\ k \in Nat /\ o + l = f + k /\ k < l
    BY <1>1, <1>4
  <2> HIDE DEF o, l, f, k
  <2>2. (f + (k + 1)) - l = o + 1 /\ (o + 1) + l = f + (k + 1) /\ o < f /\ k + 1 <= l
    BY <2>1
  <2> QED BY <2>2 DEF o, l, f
<1>6. b[k + 1][2] = Len(out[r]) + 1
  <2>1. b[k + 1][2] = (fetchedCount[r] + (k + 1)) - Len(b)
    BY <1>1, <1>2 DEF Window
  <2> QED BY <1>5, <2>1
<1>7. /\ out' \in [Reader -> Seq(Tuple)]
      /\ out'[r] = Append(out[r], b[k + 1]) /\ Len(out'[r]) = Len(out[r]) + 1
      /\ \A q \in Reader \ {r} : out'[q] = out[q]
      /\ PositionsInOrder'
  BY <1>3, <1>6, OutStep
<1>8. /\ bufferOffset' \in [Reader -> Nat] /\ bufferOffset'[r] = k + 1
      /\ \A q \in Reader \ {r} : bufferOffset'[q] = bufferOffset[q]
      /\ UNCHANGED <<totalCount, fetchedCount, bufferedRows, exhausted, holds, avail, state>>
  BY <1>1 DEF NextBuffered, IInv, TypeOK
<1>9. TypeOK'
  <2>1. \A q \in Reader : bufferOffset'[q] <= Len(bufferedRows'[q])
    <3>1. bufferOffset'[r] <= Len(bufferedRows'[r])
      BY <1>5, <1>8
    <3>2. \A q \in Reader \ {r} : bufferOffset'[q] <= Len(bufferedRows'[q])
      BY <1>8 DEF IInv, TypeOK
    <3> QED BY <3>1, <3>2
  <2> QED BY <1>7, <1>8, <2>1 DEF IInv, TypeOK, HandleOf
<1>10. BufferMatches'
  <2>1. Window(r)'
    <3>1. Len(out'[r]) + Len(b) = fetchedCount[r] + bufferOffset'[r]
      BY <1>5, <1>7, <1>8
    <3> QED BY <1>2, <1>8, <3>1 DEF Window
  <2>2. r \in OwnReader => Content(r)'
    BY <1>2, <1>8 DEF Content
  <2>3. \A q \in Reader \ {r} :
          UNCHANGED <<fetchedCount[q], avail[q], bufferedRows[q], out[q], bufferOffset[q],
                      exhausted[q], totalCount[q]>>
    BY <1>7, <1>8
  <2> QED BY <2>1, <2>2, <2>3, OthersMatch DEF IInv
<1>11. HoldsOwn' /\ (\A q \in Reader : state'[q] = "new" => out'[q] = <<>> /\ fetchedCount'[q] = 0)
  <2>1. state[r] # "new"
    BY DEF NextBuffered
  <2> QED BY <1>7, <1>8, <2>1 DEF IInv, HoldsOwn, HandleOf, OwnReader
<1>12. Maps(r, RS!SDeliver(r))
  <2>1. state[r] = "open"
    BY DEF NextBuffered
  <2>2. r \in OwnReader => b[k + 1] = <<r, Len(out[r]) + 1>> /\ Len(out[r]) < avail[r]
    <3> SUFFICES ASSUME r \in OwnReader
                 PROVE  b[k + 1] = <<r, Len(out[r]) + 1>> /\ Len(out[r]) < avail[r]
      OBVIOUS
    <3>1. b[k + 1][1] = r /\ fetchedCount[r] <= avail[r]
      BY <1>1, <1>2 DEF Content
    <3>2. b[k + 1] = <<b[k + 1][1], b[k + 1][2]>>
      BY <1>3 DEF Tuple
    <3>3. Len(out[r]) < avail[r]
      BY <1>1, <1>5, <3>1
    <3> QED BY <1>6, <3>1, <3>2, <3>3
  <2> QED BY <1>3, <1>8, <2>1, <2>2, DeliverMaps
<1> QED BY <1>7, <1>9, <1>10, <1>11, <1>12 DEF IInv

\* With its buffer used up, a result set has returned all it fetched.
LEMMA UsedUp ==
  ASSUME IInv, NEW r \in Reader, BufferUsedUp(r)
  PROVE  Len(out[r]) = fetchedCount[r] /\ fetchedCount[r] \in Nat /\ avail[r] \in Nat
<1> DEFINE o == Len(out[r])
           l == Len(bufferedRows[r])
           f == fetchedCount[r]
           k == bufferOffset[r]
<1>1. out[r] \in Seq(Tuple) /\ bufferedRows[r] \in Seq(Tuple) /\ f \in Nat /\ k \in Nat
      /\ k <= l /\ k >= l /\ avail[r] \in Nat
  BY DEF IInv, TypeOK, BufferUsedUp
<1>2. o \in Nat /\ l \in Nat
  BY <1>1, LenProperties
<1>3. o + l = f + k
  BY DEF IInv, BufferMatches, Window
<1>4. f \in Nat /\ k \in Nat /\ k <= l /\ k >= l /\ avail[r] \in Nat
  BY <1>1
<1> HIDE DEF o, l, f, k
<1>5. o = f
  BY <1>2, <1>3, <1>4
<1> QED BY <1>4, <1>5 DEF o, f

\* Steps that only move a result set to another state, and may set exhausted.
LEMMA StateOnly ==
  ASSUME IInv,
         UNCHANGED <<totalCount, fetchedCount, bufferedRows, bufferOffset, holds, avail, out>>,
         NEW r \in Reader, NEW st \in {"eof", "closed"}, state[r] # "new",
         state' = [state EXCEPT ![r] = st],
         \/ exhausted' = exhausted
         \/ /\ exhausted' = [exhausted EXCEPT ![r] = TRUE]
            /\ r \in OwnReader => fetchedCount[r] = avail[r]
  PROVE  IInv'
<1>1. /\ state' \in [Reader -> {"new", "open", "eof", "closed"}]
      /\ \A q \in Reader : state'[q] = "new" <=> state[q] = "new"
      /\ exhausted' \in [Reader -> BOOLEAN]
      /\ \A q \in Reader \ {r} : exhausted'[q] = exhausted[q]
  BY DEF IInv, TypeOK
<1>2. TypeOK'
  BY <1>1 DEF IInv, TypeOK, HandleOf
<1>3. BufferMatches'
  <2>1. Window(r)'
    BY DEF IInv, BufferMatches, Window
  <2>2. r \in OwnReader => Content(r)'
    BY <1>1 DEF IInv, TypeOK, BufferMatches, Content
  <2>3. \A q \in Reader \ {r} :
          UNCHANGED <<fetchedCount[q], avail[q], bufferedRows[q], out[q], bufferOffset[q],
                      exhausted[q], totalCount[q]>>
    BY <1>1
  <2> QED BY <2>1, <2>2, <2>3, OthersMatch DEF IInv
<1>4. HoldsOwn' /\ PositionsInOrder'
  BY <1>1, OwnIsReader DEF IInv, HoldsOwn, HandleOf, OwnReader, PositionsInOrder
<1> QED BY <1>1, <1>2, <1>3, <1>4 DEF IInv

\* For RowStream, such a step is SEof or SClose.
LEMMA StateMaps ==
  ASSUME IInv, UNCHANGED <<avail, out>>, NEW r \in Reader, NEW st \in {"eof", "closed"},
         state' = [state EXCEPT ![r] = st]
  PROVE  IF r \in OwnReader
         THEN [q \in OwnReader |-> state'[q]] = [[q \in OwnReader |-> state[q]] EXCEPT ![r] = st]
              /\ UNCHANGED <<[q \in OwnReader |-> avail[q]], [q \in OwnReader |-> out[q]]>>
         ELSE UNCHANGED RS!svars
<1>1. CASE r \in OwnReader
  BY <1>1, OwnIsReader DEF IInv, TypeOK
<1>2. CASE r \notin OwnReader
  <2>1. \A q \in Reader \ {r} : UNCHANGED <<avail[q], state[q], out[q]>>
    BY DEF IInv, TypeOK
  <2> QED BY <1>2, <2>1, OthersStutter
<1> QED BY <1>1, <1>2

LEMMA EofInv ==
  ASSUME IInv, NEW r \in Reader, NextEOF(r)
  PROVE  IInv' /\ Maps(r, RS!SEof(r))
<1>1. /\ UNCHANGED <<totalCount, fetchedCount, bufferedRows, bufferOffset, exhausted, holds, avail, out>>
      /\ state' = [state EXCEPT ![r] = "eof"] /\ state[r] = "open" /\ exhausted[r]
  BY DEF NextEOF, BufferUsedUp
<1>2. r \in OwnReader => Len(out[r]) = avail[r]
  BY <1>1, UsedUp DEF NextEOF, IInv, BufferMatches, Content
<1>3. Maps(r, RS!SEof(r))
  BY <1>1, <1>2, StateMaps DEF Maps, RS!SEof
<1>4. IInv'
  BY <1>1, StateOnly
<1> QED BY <1>3, <1>4

LEMMA CloseInv ==
  ASSUME IInv, NEW r \in Reader, Close(r)
  PROVE  IInv' /\ Maps(r, RS!SClose(r))
<1>1. /\ UNCHANGED <<totalCount, fetchedCount, bufferedRows, bufferOffset, exhausted, holds, avail, out>>
      /\ state' = [state EXCEPT ![r] = "closed"] /\ state[r] \in {"open", "eof"}
  BY DEF Close
<1>2. IInv'
  BY <1>1, StateOnly
<1>3. Maps(r, RS!SClose(r))
  BY <1>1, StateMaps DEF Maps, RS!SClose
<1> QED BY <1>2, <1>3

\* FC=8 reads some execution, with a handle of its own the right one.
LEMMA SourceIsOwn ==
  ASSUME IInv, NEW r \in Reader, state[r] # "new"
  PROVE  Source(r) \in Reader /\ (r \in OwnReader => Source(r) = r)
<1>1. holds[HandleOf(r)] \in {<<q>> : q \in Reader}
  BY DEF IInv, TypeOK
<1>2. r \in OwnReader => holds[HandleOf(r)] = <<r>>
  BY DEF IInv, HoldsOwn
<1> QED BY <1>1, <1>2 DEF Source

LEMMA NoneInv ==
  ASSUME IInv, NEW r \in Reader, FetchNone(r)
  PROVE  IInv' /\ Maps(r, RS!SEof(r))
<1>1. /\ UNCHANGED <<totalCount, fetchedCount, bufferedRows, bufferOffset, holds, avail, out>>
      /\ state' = [state EXCEPT ![r] = "eof"] /\ state[r] = "open"
      /\ exhausted' = [exhausted EXCEPT ![r] = TRUE]
      /\ avail[Source(r)] < fetchedCount[r] + 1
  BY DEF FetchNone, BufferUsedUp, FetchFrom
<1>2. Len(out[r]) = fetchedCount[r] /\ fetchedCount[r] \in Nat /\ avail[r] \in Nat
  BY UsedUp DEF FetchNone
<1>3. r \in OwnReader => fetchedCount[r] = avail[r]
  BY <1>1, <1>2, SourceIsOwn DEF IInv, BufferMatches, Content
<1>4. Maps(r, RS!SEof(r))
  BY <1>1, <1>2, <1>3, StateMaps DEF Maps, RS!SEof
<1>5. IInv'
  BY <1>1, <1>3, StateOnly
<1> QED BY <1>4, <1>5

LEMMA FetchInv ==
  ASSUME IInv, NEW r \in Reader, FetchRows(r)
  PROVE  IInv' /\ Maps(r, RS!SDeliver(r))
<1> USE CursorAssumption
<1> DEFINE f == fetchedCount[r]
           e == Source(r)
<1>0. /\ state[r] = "open" /\ ~exhausted[r] /\ FetchFrom(r) = f + 1
      /\ e \in Reader /\ (r \in OwnReader => e = r)
  BY SourceIsOwn DEF FetchRows, BufferUsedUp, FetchFrom
<1>1. PICK n \in 1..FetchSize :
        /\ (f + 1) + n - 1 <= avail[e]
        /\ bufferedRows' = [bufferedRows EXCEPT ![r] = Batch(e, f + 1, n)]
        /\ fetchedCount' = [fetchedCount EXCEPT ![r] = @ + n]
        /\ exhausted' = [exhausted EXCEPT ![r] = @ \/ fetchedCount[r] + n >= totalCount[r]]
  BY <1>0 DEF FetchRows
<1>2. Len(out[r]) = f /\ f \in Nat /\ avail[e] \in Nat
  BY <1>0, UsedUp DEF FetchRows, IInv, TypeOK
<1>3. n \in Nat /\ n >= 1 /\ f + n <= avail[e] /\ f + 1 \in Nat \ {0} /\ f < avail[e] /\ f + n \in Nat
  <2> DEFINE m == avail[e]
  <2>1. n \in Nat /\ n >= 1
    OBVIOUS
  <2>2. f \in Nat /\ m \in Nat /\ (f + 1) + n - 1 <= m
    BY <1>1, <1>2
  <2> HIDE DEF f, m
  <2>3. f + n <= m /\ f + 1 \in Nat \ {0} /\ f < m /\ f + n \in Nat
    BY <2>1, <2>2
  <2> QED BY <2>1, <2>3 DEF m
<1>4. /\ Batch(e, f + 1, n) \in Seq(Tuple) /\ Len(Batch(e, f + 1, n)) = n
      /\ \A i \in 1..n : Batch(e, f + 1, n)[i] = <<e, (f + 1) + i - 1>>
  <2> DEFINE first == f + 1
  <2>1. e \in Reader /\ first \in Nat \ {0} /\ n \in Nat
    BY <1>0, <1>3
  <2> HIDE DEF first, e
  <2>2. /\ Batch(e, first, n) \in Seq(Tuple) /\ Len(Batch(e, first, n)) = n
        /\ \A i \in 1..n : Batch(e, first, n)[i] = <<e, first + i - 1>>
    BY <2>1, BatchProperties
  <2> QED BY <2>2 DEF first
<1>5. Deliver(r, <<e, f + 1>>) /\ <<e, f + 1>> \in Tuple
  BY <1>0, <1>3 DEF FetchRows, Tuple
<1>6. /\ out' \in [Reader -> Seq(Tuple)]
      /\ Len(out'[r]) = f + 1
      /\ \A q \in Reader \ {r} : out'[q] = out[q]
      /\ PositionsInOrder'
  <2>1. <<e, f + 1>>[2] = Len(out[r]) + 1
    BY <1>2
  <2> QED BY <1>2, <1>5, <2>1, OutStep
<1>7. /\ UNCHANGED <<totalCount, holds, avail, state>>
      /\ bufferOffset' = [bufferOffset EXCEPT ![r] = 1]
  BY DEF FetchRows
<1>8. /\ bufferOffset' \in [Reader -> Nat] /\ bufferOffset'[r] = 1
      /\ bufferedRows' \in [Reader -> Seq(Tuple)] /\ bufferedRows'[r] = Batch(e, f + 1, n)
      /\ fetchedCount' \in [Reader -> Nat] /\ fetchedCount'[r] = f + n
      /\ \A q \in Reader \ {r} : UNCHANGED <<bufferOffset[q], bufferedRows[q], fetchedCount[q]>>
  BY <1>1, <1>3, <1>4, <1>7 DEF IInv, TypeOK
<1>9. /\ exhausted' \in [Reader -> BOOLEAN]
      /\ exhausted'[r] = (f + n >= totalCount[r])
      /\ \A q \in Reader \ {r} : UNCHANGED exhausted[q]
  BY <1>0, <1>1 DEF IInv, TypeOK
<1>10. TypeOK'
  <2>1. \A q \in Reader : bufferOffset'[q] <= Len(bufferedRows'[q])
    BY <1>3, <1>4, <1>8, ZenonT(40) DEF IInv, TypeOK
  <2> QED BY <1>6, <1>7, <1>8, <1>9, <2>1 DEF IInv, TypeOK, HandleOf
<1>11. Window(r)'
  <2>1. \A i \in 1..n : (f + 1) + i - 1 = ((f + n) + i) - n
    BY <1>2, <1>3
  <2>2. \A i \in 1..n : bufferedRows'[r][i][2] = ((f + n) + i) - n
    BY <1>4, <1>8, <2>1
  <2>3. (f + 1) + n = (f + n) + 1 /\ n <= f + n
    BY <1>2, <1>3
  <2> HIDE DEF f
  <2> QED BY <1>4, <1>6, <1>8, <2>2, <2>3 DEF Window
<1>12. ASSUME r \in OwnReader
       PROVE  Content(r)'
  <2>0. e = r
    BY <1>0, <1>12
  <2>1. totalCount[r] = avail[r]
    BY <1>0, <1>12 DEF IInv, BufferMatches, Content
  <2>2. (exhausted'[r] => f + n = avail[r]) /\ (~exhausted'[r] => totalCount[r] = avail[r])
    BY <1>2, <1>3, <1>9, <2>0, <2>1
  <2>3. \A i \in 1..n : bufferedRows'[r][i][1] = r
    BY <1>4, <1>8, <2>0
  <2>4. f + n <= avail[r]
    BY <1>3, <2>0
  <2> HIDE DEF f, e
  <2> QED BY <1>4, <1>7, <1>8, <2>2, <2>3, <2>4 DEF Content
<1>13. BufferMatches'
  <2>1. \A q \in Reader \ {r} :
          UNCHANGED <<fetchedCount[q], avail[q], bufferedRows[q], out[q], bufferOffset[q],
                      exhausted[q], totalCount[q]>>
    BY <1>6, <1>7, <1>8, <1>9
  <2> QED BY <1>11, <1>12, <2>1, OthersMatch DEF IInv
<1>14. HoldsOwn' /\ (\A q \in Reader : state'[q] = "new" => out'[q] = <<>> /\ fetchedCount'[q] = 0)
  BY <1>0, <1>6, <1>7, <1>8 DEF IInv, HoldsOwn, HandleOf, OwnReader
<1>15. Maps(r, RS!SDeliver(r))
  <2>1. r \in OwnReader => <<e, f + 1>> = <<r, Len(out[r]) + 1>> /\ Len(out[r]) < avail[r]
    BY <1>0, <1>2, <1>3
  <2> HIDE DEF e, f
  <2> QED BY <1>0, <1>5, <1>7, <2>1, DeliverMaps
<1> QED BY <1>6, <1>10, <1>13, <1>14, <1>15 DEF IInv

\* Every step keeps the invariant and is a step, or a stutter, of RowStream.
LEMMA NextInv ==
  ASSUME IInv, [Next]_vars
  PROVE  IInv' /\ [RS!SNext]_(RS!svars)
<1>1. CASE UNCHANGED vars
  <2>1. IInv'
    BY <1>1 DEF vars, IInv, TypeOK, BufferMatches, Window, Content, HoldsOwn, HandleOf, OwnReader,
                PositionsInOrder
  <2>2. UNCHANGED RS!svars
    BY <1>1 DEF vars, RS!svars
  <2> QED BY <2>1, <2>2
<1>2. ASSUME NEW r \in Reader,
             \/ \E type \in StmtTypes[r], total \in 0..MaxTotal : Query(r, type, total)
             \/ NextBuffered(r) \/ NextEOF(r) \/ FetchRows(r) \/ FetchNone(r) \/ Close(r)
      PROVE  IInv' /\ [RS!SNext]_(RS!svars)
  <2>1. /\ IInv'
        /\ \/ Maps(r, RS!SOpen(r)) \/ Maps(r, RS!SDeliver(r))
           \/ Maps(r, RS!SEof(r)) \/ Maps(r, RS!SClose(r))
    BY <1>2, QueryInv, BufferedInv, EofInv, FetchInv, NoneInv, CloseInv
  <2> QED BY <2>1 DEF Maps, RS!SNext
<1> QED BY <1>1, <1>2 DEF Next

LEMMA SpecInv == Spec => []IInv
<1>1. IInv /\ [Next]_vars => IInv'
  BY NextInv
<1> QED BY <1>1, InitInv, PTL DEF Spec

\* rows keeps its types and never indexes its buffer out of range, whichever result sets
\* share a handle.
THEOREM RowsTypeCorrect == Spec => []TypeOK
<1>1. IInv => TypeOK
  BY DEF IInv
<1> QED BY <1>1, SpecInv, PTL

\* rows.Next keeps fetchedCount, bufferedRows, bufferOffset and exhausted consistent with each
\* other, and for a handle of its own with what the server has.
THEOREM BufferAlwaysMatches == Spec => []BufferMatches
<1>1. IInv => BufferMatches
  BY DEF IInv
<1> QED BY <1>1, SpecInv, PTL

\* rows.Next returns positions 1, 2, 3, ... without repeating or skipping one, also through a
\* handle on which other executions run.
THEOREM NeverRepeatsOrSkips == Spec => []PositionsInOrder
<1>1. IInv => PositionsInOrder
  BY DEF IInv
<1> QED BY <1>1, SpecInv, PTL

\* A result set with a handle of its own implements RowStream: rows.Next returns the tuples of
\* its execution, each once and in order, and io.EOF only after the last.
THEOREM CursorImplementsRowStream == Spec => ImplementsRowStream
<1>1. Init => RS!SInit
  BY OwnIsReader DEF Init, RS!SInit
<1>2. IInv /\ [Next]_vars => IInv' /\ [RS!SNext]_(RS!svars)
  BY NextInv
<1> QED BY <1>1, <1>2, InitInv, PTL DEF Spec, ImplementsRowStream, RS!SSpec
=============================================================================
