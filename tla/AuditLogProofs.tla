---------------------------- MODULE AuditLogProofs ----------------------------
(***************************************************************************)
(* Theorems about AuditLog, for every number of writers and of events.     *)
(***************************************************************************)
EXTENDS AuditLog, SequenceTheorems, TLAPS

-----------------------------------------------------------------------------
(* Rows and the text of the file.                                          *)

\* what append makes and read_all returns
IsRow(r) ==
  /\ r = [seq |-> r.seq, body |-> r.body, prev |-> r.prev, hash |-> r.hash]
  /\ r.body \in Event

IsText(ls) ==
  /\ Len(ls) \in Nat /\ ls = [i \in 1..Len(ls) |-> ls[i]]
  /\ \A i \in 1..Len(ls) : ls[i] = Bad \/ IsRow(ls[i])

LEMMA RowIsNotBad == \A r : IsRow(r) => r # Bad
<1>1. ASSUME NEW r, IsRow(r) PROVE r # Bad
  <2>1. DOMAIN r = {"seq", "body", "prev", "hash"}
    <3>1. DOMAIN [seq |-> r.seq, body |-> r.body, prev |-> r.prev, hash |-> r.hash]
            = {"seq", "body", "prev", "hash"}
      OBVIOUS
    <3> QED
      BY <1>1, <3>1, Zenon DEF IsRow
  <2>2. DOMAIN Bad = {"parses"}
    BY DEF Bad
  <2> QED
    BY <2>1, <2>2
<1> QED
  BY <1>1

LEMMA NextRowIsRow ==
  ASSUME NEW ls, NEW e \in Event
  PROVE  /\ IsRow(NextRow(ls, e)) /\ NextRow(ls, e).body = e
         /\ NextRow(ls, e).seq = Len(ls) + 1 /\ NextRow(ls, e).prev = LastHash(ls)
         /\ NextRow(ls, e).hash = EventHash(NextRow(ls, e))
  BY DEF NextRow, IsRow, EventHash

LEMMA TextOfSeq ==
  ASSUME NEW S, NEW ls \in Seq(S), \A s \in S : s = Bad \/ IsRow(s)
  PROVE  IsText(ls)
<1>1. Len(ls) \in Nat /\ ls \in [1..Len(ls) -> S]
  BY LenProperties
<1>2. ls = [i \in 1..Len(ls) |-> ls[i]] /\ \A i \in 1..Len(ls) : ls[i] \in S
  BY <1>1
<1> QED
  BY <1>1, <1>2 DEF IsText

\* The two ways a text grows.
LEMMA TextAppended ==
  ASSUME NEW ls, IsText(ls), NEW x, x = Bad \/ IsRow(x)
  PROVE  /\ IsText(Append(ls, x)) /\ Len(Append(ls, x)) = Len(ls) + 1
         /\ Append(ls, x)[Len(ls) + 1] = x
         /\ \A i \in 1..Len(ls) : Append(ls, x)[i] = ls[i]
<1> DEFINE S == {ls[i] : i \in 1..Len(ls)} \cup {x}
<1>1. ls \in Seq(S) /\ x \in S
  BY DEF IsText
<1>3. \A s \in S : s = Bad \/ IsRow(s)
  BY DEF IsText
<1> HIDE DEF S
<1>2. /\ Append(ls, x) \in Seq(S) /\ Len(Append(ls, x)) = Len(ls) + 1
      /\ Append(ls, x)[Len(ls) + 1] = x
      /\ \A i \in 1..Len(ls) : Append(ls, x)[i] = ls[i]
  BY <1>1, AppendProperties
<1> QED
  BY <1>2, <1>3, TextOfSeq

Replaced(ls, i, x) == [ls EXCEPT ![i] = x]

LEMMA TextMerged ==
  ASSUME NEW ls, IsText(ls), NEW i \in 1..Len(ls), NEW x, x = Bad \/ IsRow(x)
  PROVE  /\ IsText(Replaced(ls, i, x)) /\ Len(Replaced(ls, i, x)) = Len(ls)
         /\ \A j \in 1..Len(ls) : Replaced(ls, i, x)[j] = IF j = i THEN x ELSE ls[j]
<1> DEFINE S == {ls[j] : j \in 1..Len(ls)} \cup {x}
<1>1. ls \in Seq(S) /\ x \in S
  BY DEF IsText
<1>2. \A s \in S : s = Bad \/ IsRow(s)
  BY DEF IsText
<1> HIDE DEF S
<1>3. /\ [ls EXCEPT ![i] = x] \in Seq(S) /\ Len([ls EXCEPT ![i] = x]) = Len(ls)
      /\ \A j \in 1..Len(ls) : [ls EXCEPT ![i] = x][j] = IF j = i THEN x ELSE ls[j]
  BY <1>1, ExceptSeq
<1> QED
  BY <1>2, <1>3, TextOfSeq DEF Replaced

LEMMA TextCut ==
  ASSUME NEW ls, IsText(ls), NEW i \in 1..(Len(ls) - 1)
  PROVE  LET rest == SubSeq(ls, 1, i - 1) \o SubSeq(ls, i + 1, Len(ls)) IN
         /\ IsText(rest) /\ Len(rest) = Len(ls) - 1 /\ rest[i] = ls[i + 1]
<1> DEFINE S == {ls[j] : j \in 1..Len(ls)}
           front == SubSeq(ls, 1, i - 1)
           back == SubSeq(ls, i + 1, Len(ls))
<1>1. ls \in Seq(S) /\ Len(ls) \in Nat
  BY DEF IsText
<1>2. \A s \in S : s = Bad \/ IsRow(s)
  BY DEF IsText
<1> HIDE DEF S
<1>3. front \in Seq(S) /\ Len(front) = i - 1
  <2>1. i - 1 \in Nat /\ \A j \in 1..(i - 1) : ls[j] \in S
    BY <1>1, ElementOfSeq
  <2> QED
    BY <2>1, SubSeqProperties
<1>4. back \in Seq(S) /\ Len(back) = Len(ls) - i /\ back[1] = ls[i + 1]
  <2>1. i + 1 \in Nat /\ i + 1 <= Len(ls) /\ \A j \in (i + 1)..Len(ls) : ls[j] \in S
    BY <1>1, ElementOfSeq
  <2> QED
    BY <1>1, <2>1, SubSeqProperties
<1> HIDE DEF front, back
<1>5. /\ front \o back \in Seq(S) /\ Len(front \o back) = Len(front) + Len(back)
      /\ \A j \in 1..Len(front) + Len(back) :
           (front \o back)[j] = IF j <= Len(front) THEN front[j] ELSE back[j - Len(front)]
  BY <1>3, <1>4, ConcatProperties
<1>6. Len(front \o back) = Len(ls) - 1 /\ (front \o back)[i] = ls[i + 1]
  BY <1>1, <1>3, <1>4, <1>5
<1>7. IsText(front \o back)
  BY <1>2, <1>5, TextOfSeq
<1> QED
  BY <1>6, <1>7 DEF front, back

-----------------------------------------------------------------------------
(* Types, who holds the lock, and that a file not ended by a newline has a *)
(* last line.                                                              *)

Appending(w) == pc[w] \in {"newline", "sync"}

\* the file once the row that is being written is whole
Completed(w) == Replaced(lines, Len(lines), draft[w])

LogInv ==
  /\ AuditTypeOK
  /\ IsText(lines) /\ (~closed => lines # <<>>)
  /\ \A w \in Writer : pc[w] = "rest" => ~closed /\ lines[Len(lines)] = Bad
  /\ draft = [w \in Writer |-> draft[w]]
  /\ \A w \in Writer : pc[w] # "idle" => IsRow(draft[w])
  /\ acked \in Seq(Event)

LEMMA EmptyText == \A ls : IsText(ls) => (ls = <<>> <=> Len(ls) = 0)
<1>1. ASSUME NEW ls, IsText(ls), Len(ls) = 0 PROVE ls = <<>>
  BY <1>1 DEF IsText
<1> QED
  BY <1>1

LEMMA WrittenEffect ==
  ASSUME LogInv, NEW x, x = Bad \/ IsRow(x)
  PROVE  /\ IsText(Written(x)) /\ Len(Written(x)) >= Len(lines) /\ Len(Written(x)) > 0
         /\ IF closed
            THEN /\ Len(Written(x)) = Len(lines) + 1 /\ Written(x)[Len(lines) + 1] = x
                 /\ \A i \in 1..Len(lines) : Written(x)[i] = lines[i]
            ELSE /\ Len(Written(x)) = Len(lines) /\ Written(x)[Len(lines)] = Bad
                 /\ \A i \in 1..(Len(lines) - 1) : Written(x)[i] = lines[i]
<1>1. CASE closed
  <2>1. Len(lines) \in Nat
    BY DEF LogInv, IsText
  <2> QED
    BY <1>1, <2>1, TextAppended DEF Written, LogInv
<1>2. CASE ~closed
  <2>1. Len(lines) \in Nat /\ Len(lines) # 0
    BY <1>2, EmptyText DEF LogInv, IsText
  <2>2. Len(lines) \in 1..Len(lines) /\ IsText(lines)
    BY <2>1 DEF LogInv
  <2>4. Written(x) = Replaced(lines, Len(lines), Bad)
    BY <1>2 DEF Written, Replaced
  <2>5. /\ IsText(Written(x)) /\ Len(Written(x)) = Len(lines)
        /\ \A j \in 1..Len(lines) : Written(x)[j] = IF j = Len(lines) THEN Bad ELSE lines[j]
    BY <2>2, <2>4, TextMerged
  <2>6. /\ Written(x)[Len(lines)] = Bad
        /\ \A j \in 1..(Len(lines) - 1) : Written(x)[j] = lines[j]
    BY <2>1, <2>2, <2>5
  <2> QED
    BY <1>2, <2>1, <2>5, <2>6
<1> QED
  BY <1>1, <1>2

LEMMA RowEdited ==
  ASSUME NEW r, IsRow(r), NEW e \in Event
  PROVE  LET x == [r EXCEPT !.body = e] IN
         /\ IsRow(x) /\ x.body = e
         /\ x.seq = r.seq /\ x.prev = r.prev /\ x.hash = r.hash
<1>1. PICK s, b, p, h : r = [seq |-> s, body |-> b, prev |-> p, hash |-> h]
  BY DEF IsRow
<1>2. [r EXCEPT !.body = e] = [seq |-> s, body |-> e, prev |-> p, hash |-> h]
  BY <1>1
<1> QED
  BY <1>1, <1>2 DEF IsRow

\* The first piece of a row on a line of its own, and the rest of it, are the row.
LEMMA PiecesMakeRow ==
  ASSUME NEW ls, IsText(ls), NEW x, IsRow(x)
  PROVE  Replaced(Append(ls, Bad), Len(ls) + 1, x) = Append(ls, x)
<1> DEFINE half == Append(ls, Bad)
           n == Len(ls) + 1
           one == Replaced(half, n, x)
           other == Append(ls, x)
<1>1. /\ IsText(half) /\ Len(half) = n /\ \A i \in 1..Len(ls) : half[i] = ls[i]
      /\ Len(ls) \in Nat
  BY TextAppended DEF IsText
<1>2. /\ IsText(other) /\ Len(other) = n /\ other[n] = x
      /\ \A i \in 1..Len(ls) : other[i] = ls[i]
  BY TextAppended
<1> HIDE DEF half, other
<1>3. n \in 1..Len(half)
  BY <1>1
<1>4. /\ IsText(one) /\ Len(one) = n
      /\ \A i \in 1..n : one[i] = IF i = n THEN x ELSE half[i]
  BY <1>1, <1>3, TextMerged
<1> HIDE DEF one
<1>5. \A i \in 1..n : one[i] = other[i]
  <2>1. \A i \in 1..n : i = n \/ (i \in 1..Len(ls) /\ i # n)
    BY <1>1
  <2> QED
    BY <1>1, <1>2, <1>4, <2>1
<1> HIDE DEF n
<1>6. one = [i \in 1..n |-> one[i]] /\ other = [i \in 1..n |-> other[i]]
  BY <1>2, <1>4 DEF IsText
<1>7. one = other
  BY <1>5, <1>6
<1> QED
  BY <1>7 DEF one, half, other, n

\* A row half written stands at the end of the file, and the rest of it goes there.
LEMMA RestEffect ==
  ASSUME LogInv, NEW w \in Writer, pc[w] = "rest"
  PROVE  /\ Len(lines) \in 1..Len(lines) /\ Len(lines) - 1 \in Nat /\ ~Readable(lines)
         /\ IsText(Completed(w)) /\ Len(Completed(w)) = Len(lines)
         /\ Completed(w)[Len(lines)] = draft[w]
         /\ \A i \in 1..(Len(lines) - 1) : Completed(w)[i] = lines[i]
<1>1. /\ IsText(lines) /\ Len(lines) \in Nat /\ Len(lines) # 0
      /\ lines[Len(lines)] = Bad /\ IsRow(draft[w])
  BY EmptyText DEF LogInv, IsText
<1>2. Len(lines) \in 1..Len(lines) /\ Len(lines) - 1 \in Nat
  BY <1>1
<1>3. /\ IsText(Completed(w)) /\ Len(Completed(w)) = Len(lines)
      /\ \A i \in 1..Len(lines) : Completed(w)[i] = IF i = Len(lines) THEN draft[w] ELSE lines[i]
  BY <1>1, <1>2, TextMerged DEF Completed
<1>4. /\ Completed(w)[Len(lines)] = draft[w]
      /\ \A i \in 1..(Len(lines) - 1) : i \in 1..Len(lines) /\ i # Len(lines)
  BY <1>1, <1>2, <1>3
<1>5. ~Readable(lines)
  BY <1>1, <1>2 DEF Readable
<1> QED
  BY <1>2, <1>3, <1>4, <1>5

\* Only the holder of the lock is in the middle of an append.
LEMMA OneAppends ==
  ASSUME LogInv
  PROVE  \A v, w \in Writer : pc[v] # "idle" /\ pc[w] # "idle" => v = w
  BY DEF LogInv, AuditTypeOK

\* Whatever is done to a log that verify accepts, it no longer does.
LEMMA TamperEffect ==
  ASSUME LogInv, Tamper
  PROVE  /\ IsText(lines')
         /\ VerifyOk(lines) => \E i \in 1..Len(lines') : ~RowOk(lines', i)
<1>a. /\ IsText(lines) /\ Len(lines) \in Nat
      /\ \A i \in 1..Len(lines) : IsRow(lines[i])
  BY DEF Tamper, Readable, LogInv, IsText
<1>b. VerifyOk(lines) => \A i \in 1..Len(lines) : lines[i].seq = i /\ lines[i].hash = EventHash(lines[i])
  BY DEF VerifyOk, RowOk
<1>1. ASSUME NEW i \in 1..Len(lines), NEW e \in Event, e # lines[i].body,
             lines' = [lines EXCEPT ![i].body = e]
      PROVE  IsText(lines') /\ (VerifyOk(lines) => ~RowOk(lines', i)) /\ Len(lines') = Len(lines)
  <2> DEFINE x == [lines[i] EXCEPT !.body = e]
  <2>1. /\ IsRow(x) /\ x.body = e /\ x.seq = lines[i].seq /\ x.prev = lines[i].prev
        /\ x.hash = lines[i].hash
    BY <1>a, RowEdited
  <2>2. lines' = Replaced(lines, i, x)
    BY <1>1 DEF Replaced
  <2> HIDE DEF x
  <2>3. IsText(lines') /\ Len(lines') = Len(lines) /\ lines'[i] = x
    BY <1>a, <2>1, <2>2, TextMerged
  <2>4. ASSUME VerifyOk(lines) PROVE x.hash # EventHash(x)
    BY <1>1, <1>b, <2>1, <2>4 DEF EventHash
  <2> QED
    BY <2>3, <2>4 DEF RowOk
<1>2. ASSUME NEW i \in 1..(Len(lines) - 1),
             lines' = SubSeq(lines, 1, i - 1) \o SubSeq(lines, i + 1, Len(lines))
      PROVE  IsText(lines') /\ \E j \in 1..Len(lines') : VerifyOk(lines) => ~RowOk(lines', j)
  <2>1. IsText(lines') /\ Len(lines') = Len(lines) - 1 /\ lines'[i] = lines[i + 1]
    BY <1>2, <1>a, TextCut
  <2>2. i \in 1..Len(lines') /\ i + 1 \in 1..Len(lines) /\ i + 1 # i
    BY <1>a, <2>1
  <2> QED
    BY <1>b, <2>1, <2>2 DEF RowOk
<1>3. ASSUME NEW i \in 1..(Len(lines) - 1),
             lines' = [lines EXCEPT ![i] = lines[i + 1], ![i + 1] = lines[i]]
      PROVE  IsText(lines') /\ \E j \in 1..Len(lines') : VerifyOk(lines) => ~RowOk(lines', j)
  <2> DEFINE one == Replaced(lines, i, lines[i + 1])
             x == lines[i]
             y == lines[i + 1]
  <2>1. i \in 1..Len(lines) /\ i + 1 \in 1..Len(lines) /\ i + 1 # i /\ IsRow(x) /\ IsRow(y)
    BY <1>a
  <2>2. IsText(one) /\ Len(one) = Len(lines) /\ one[i] = y
    BY <1>a, <2>1, TextMerged
  <2>3. lines' = Replaced(one, i + 1, x)
    BY <1>3 DEF Replaced
  <2> HIDE DEF one, x
  <2>4. i \in 1..Len(one) /\ i + 1 \in 1..Len(one) /\ IsRow(x)
    BY <2>1, <2>2 DEF x
  <2>5. IsText(lines') /\ Len(lines') = Len(lines) /\ lines'[i] = y
    BY <2>1, <2>2, <2>3, <2>4, TextMerged
  <2> QED
    BY <1>b, <2>1, <2>5 DEF RowOk
<1> QED
  BY <1>1, <1>2, <1>3 DEF Tamper

LEMMA LogStep ==
  ASSUME LogInv, [AuditNext]_auditVars
  PROVE  LogInv'
<1> USE AuditAssumption
<1>a. IsText(lines) /\ Len(lines) \in Nat
  BY DEF LogInv, IsText
<1>b. \A ls : IsText(ls) => \A i \in 1..Len(ls) : ls[i] = Bad \/ ls[i].body \in Event
  BY DEF IsText, IsRow
<1>1. ASSUME NEW w \in Writer, NEW e \in Event, Open(w, e) PROVE LogInv'
  <2>1. IsRow(NextRow(lines, e))
    BY NextRowIsRow
  <2>2. UNCHANGED <<lines, closed, acked, cut, tampered>>
    BY <1>1 DEF Open
  <2>3. CASE Readable(lines)
    <3>1. /\ lock' = w /\ draft' = [draft EXCEPT ![w] = NextRow(lines, e)]
          /\ pc' = [pc EXCEPT ![w] = "row"] /\ used' = used \cup {e} /\ lock = Free
      BY <1>1, <2>3 DEF Open, CanLock
    <3>2. AuditTypeOK'
      BY <2>2, <3>1 DEF LogInv, AuditTypeOK
    <3>3. /\ draft' = [v \in Writer |-> draft'[v]]
          /\ draft'[w] = NextRow(lines, e) /\ pc'[w] = "row"
          /\ \A v \in Writer \ {w} : draft'[v] = draft[v] /\ pc'[v] = pc[v]
      BY <3>1 DEF LogInv, AuditTypeOK
    <3>4. ASSUME NEW v \in Writer, pc'[v] = "rest" PROVE pc[v] = "rest"
      <4>1. v \in Writer \ {w}
        BY <3>3, <3>4
      <4> QED
        BY <3>3, <3>4, <4>1
    <3> QED
      BY <2>1, <2>2, <3>2, <3>3, <3>4 DEF LogInv
  <2>4. CASE ~Readable(lines)
    <3>1. UNCHANGED <<lock, draft, pc>> /\ used' = used \cup {e}
      BY <1>1, <2>4 DEF Open
    <3> QED
      BY <2>2, <3>1 DEF LogInv, AuditTypeOK
  <2> QED
    BY <2>3, <2>4
<1>2. ASSUME NEW x, x = Bad \/ IsRow(x), lines' = Written(x)
      PROVE  /\ IsText(lines') /\ lines' # <<>>
             /\ \A i \in 1..Len(lines') : lines'[i] = Bad \/ lines'[i].body \in Event
  <2>1. IsText(Written(x)) /\ Len(Written(x)) > 0
    BY <1>2, WrittenEffect
  <2> QED
    BY <1>2, <1>b, <2>1
<1>3. ASSUME NEW w \in Writer, WriteRow(w) PROVE LogInv'
  <2>1. /\ pc[w] = "row" /\ lines' = Written(Bad) /\ closed' = FALSE
        /\ pc' = [pc EXCEPT ![w] = IF closed THEN "rest" ELSE "newline"]
        /\ UNCHANGED <<lock, draft, used, acked, cut, tampered>>
    BY <1>3 DEF WriteRow
  <2>2. AuditTypeOK'
    BY <1>2, <2>1 DEF LogInv, AuditTypeOK
  <2>3. \A v \in Writer : pc'[v] # "idle" => pc[v] # "idle"
    BY <2>1 DEF LogInv, AuditTypeOK
  <2>4. ASSUME NEW v \in Writer, pc'[v] = "rest" PROVE lines'[Len(lines')] = Bad
    <3>1. v = w
      BY <2>1, <2>3, <2>4, OneAppends
    <3>2. closed
      BY <2>1, <2>4, <3>1 DEF LogInv, AuditTypeOK
    <3> QED
      BY <2>1, <3>2, WrittenEffect
  <2> QED
    BY <1>2, <2>1, <2>2, <2>3, <2>4 DEF LogInv
<1>4. ASSUME NEW w \in Writer, WriteRest(w) PROVE LogInv'
  <2>1. /\ pc[w] = "rest" /\ IsRow(draft[w]) /\ lines' = Completed(w)
        /\ pc' = [pc EXCEPT ![w] = "newline"]
        /\ UNCHANGED <<closed, lock, draft, used, acked, cut, tampered>>
    BY <1>4 DEF WriteRest, LogInv, Completed, Replaced
  <2>2. IsText(lines') /\ Len(lines') # 0
    BY <1>a, <2>1, RestEffect
  <2>3. \A i \in 1..Len(lines') : lines'[i] = Bad \/ lines'[i].body \in Event
    BY <1>b, <2>2
  <2>4. AuditTypeOK'
    BY <2>1, <2>3 DEF LogInv, AuditTypeOK
  <2>5. \A v \in Writer : (pc'[v] # "idle" => pc[v] # "idle") /\ pc'[v] # "rest"
    BY <2>1, OneAppends DEF LogInv, AuditTypeOK
  <2>6. lines' # <<>>
    BY <2>2, EmptyText
  <2> QED
    BY <2>1, <2>2, <2>4, <2>5, <2>6 DEF LogInv
<1>5. ASSUME NEW w \in Writer, WriteNewline(w) PROVE LogInv'
  <2>1. /\ pc[w] = "newline" /\ closed' = TRUE
        /\ pc' = [pc EXCEPT ![w] = "sync"]
        /\ UNCHANGED <<lines, lock, draft, used, acked, cut, tampered>>
    BY <1>5 DEF WriteNewline
  <2>2. AuditTypeOK'
    BY <2>1 DEF LogInv, AuditTypeOK
  <2>3. \A v \in Writer : (pc'[v] # "idle" => pc[v] # "idle") /\ pc'[v] # "rest"
    BY <2>1, OneAppends DEF LogInv, AuditTypeOK
  <2> QED
    BY <2>1, <2>2, <2>3 DEF LogInv
<1>10. ASSUME NEW w \in Writer, pc[w] # "idle", Release(w), cut' \in BOOLEAN,
              acked' \in Seq(Event), UNCHANGED <<lines, closed, used, tampered>>
       PROVE  LogInv'
  <2>1. /\ lock' = Free /\ pc' = [pc EXCEPT ![w] = "idle"] /\ draft' = [draft EXCEPT ![w] = Bad]
        /\ lock = w
    BY <1>10 DEF Release, LogInv, AuditTypeOK
  <2>2. AuditTypeOK'
    BY <1>10, <2>1 DEF LogInv, AuditTypeOK
  <2>3. /\ draft' = [v \in Writer |-> draft'[v]]
        /\ \A v \in Writer : pc'[v] # "idle" => pc'[v] = pc[v] /\ draft'[v] = draft[v]
    BY <2>1 DEF LogInv, AuditTypeOK
  <2> QED
    BY <1>10, <2>2, <2>3 DEF LogInv
<1>6. ASSUME NEW w \in Writer, Sync(w) PROVE LogInv'
  <2>1. draft[w].body \in Event
    BY <1>6 DEF Sync, LogInv, IsRow
  <2>2. acked' \in Seq(Event)
    BY <1>6, <2>1, AppendProperties DEF Sync, LogInv
  <2> QED
    BY <1>6, <1>10, <2>2 DEF Sync, LogInv, AuditTypeOK
<1>7. ASSUME NEW w \in Writer, CutShort(w) PROVE LogInv'
  BY <1>7, <1>10 DEF CutShort, LogInv
<1>8. CASE Tamper
  <2>1. IsText(lines') /\ closed' = TRUE /\ tampered' = TRUE
        /\ UNCHANGED <<lock, pc, draft, used, acked, cut>>
    BY <1>8, TamperEffect DEF Tamper
  <2>2. \A i \in 1..Len(lines') : lines'[i] = Bad \/ lines'[i].body \in Event
    BY <1>b, <2>1
  <2>3. \A w \in Writer : pc[w] # "rest"
    BY <1>8, RestEffect DEF Tamper
  <2> QED
    BY <2>1, <2>2, <2>3 DEF LogInv, AuditTypeOK
<1>9. CASE UNCHANGED auditVars
  BY <1>9 DEF auditVars, LogInv, AuditTypeOK
<1> QED
  BY <1>1, <1>3, <1>4, <1>5, <1>6, <1>7, <1>8, <1>9 DEF AuditNext

LEMMA LogInvariant == AuditSpec => []LogInv
<1>1. AuditInit => LogInv
  <2>1. SUFFICES ASSUME AuditInit PROVE LogInv
    OBVIOUS
  <2>2. IsText(lines) /\ closed
    BY <2>1 DEF AuditInit, IsText
  <2>3. \A w \in Writer : pc[w] = "idle" /\ lock # w
    BY <2>1, AuditAssumption DEF AuditInit
  <2>4. \A i \in 1..Len(lines) : lines[i] = Bad \/ lines[i].body \in Event
    BY <2>1 DEF AuditInit
  <2>5. AuditTypeOK
    BY <2>1, <2>3, <2>4 DEF AuditInit, AuditTypeOK
  <2>6. draft = [w \in Writer |-> draft[w]] /\ acked \in Seq(Event)
    BY <2>1 DEF AuditInit
  <2> QED
    BY <2>2, <2>3, <2>5, <2>6 DEF LogInv
<1> QED
  BY <1>1, LogStep, PTL DEF AuditSpec

\* Types, and that the lock of the log is held by whoever is in the middle of an append.
THEOREM AuditTypeCorrect == AuditSpec => []AuditTypeOK
<1>1. LogInv => AuditTypeOK
  BY DEF LogInv
<1> QED
  BY <1>1, LogInvariant, PTL

-----------------------------------------------------------------------------
(* The chain.  A log that nobody edited verifies as soon as it can be      *)
(* read; whoever is about to write a row has the one that continues it.    *)

ChainInv ==
  /\ ~tampered /\ Readable(lines) => VerifyOk(lines)
  /\ ~tampered => \A w \in Writer : pc[w] = "row" =>
       Readable(lines) /\ \E e \in Event : draft[w] = NextRow(lines, e)
  /\ \A w \in Writer : pc[w] = "rest" => (tampered <=> ~VerifyOk(Completed(w)))
  /\ ~cut /\ ~tampered => Readable(lines) \/ HalfWritten
  /\ ~cut => closed \/ \E w \in Writer : pc[w] \in {"rest", "newline"}
  /\ TamperingDetected

LEMMA ChainAppended ==
  ASSUME LogInv, closed, VerifyOk(lines), NEW e \in Event
  PROVE  VerifyOk(Written(NextRow(lines, e)))
<1> DEFINE x == NextRow(lines, e)
           ls == Written(x)
<1>1. /\ IsRow(x) /\ x.seq = Len(lines) + 1 /\ x.prev = LastHash(lines)
      /\ x.hash = EventHash(x)
  BY NextRowIsRow
<1> HIDE DEF x
<1>2. /\ Len(ls) = Len(lines) + 1 /\ ls[Len(lines) + 1] = x
      /\ \A i \in 1..Len(lines) : ls[i] = lines[i]
  BY <1>1, WrittenEffect
<1>3. Len(lines) \in Nat /\ (lines = <<>> <=> Len(lines) = 0)
  BY EmptyText DEF LogInv, IsText
<1> HIDE DEF ls
<1>4. ASSUME NEW i \in 1..Len(lines) PROVE ls[i] # Bad /\ RowOk(ls, i)
  <2>1. ls[i] = lines[i] /\ (i # 1 => ls[i - 1] = lines[i - 1])
    BY <1>2, <1>3
  <2> QED
    BY <2>1 DEF VerifyOk, Readable, RowOk
<1>5. x # Bad /\ RowOk(ls, Len(lines) + 1)
  <2>1. x # Bad
    BY <1>1, RowIsNotBad
  <2>2. x.prev = IF Len(lines) + 1 = 1 THEN Genesis ELSE ls[Len(lines) + 1 - 1].hash
    BY <1>1, <1>2, <1>3 DEF LastHash
  <2> QED
    BY <1>1, <1>2, <2>1, <2>2 DEF RowOk
<1>6. \A i \in 1..Len(ls) : i \in 1..Len(lines) \/ i = Len(lines) + 1
  BY <1>2, <1>3
<1>7. VerifyOk(ls)
  BY <1>2, <1>4, <1>5, <1>6 DEF VerifyOk, Readable
<1> QED
  BY <1>7 DEF ls, x

\* Text written into a line that was not ended makes the log unreadable; a log that is
\* unreadable or does not verify stays so.
LEMMA BrokenStays ==
  ASSUME LogInv, NEW x, x = Bad \/ IsRow(x)
  PROVE  /\ ~closed => ~Readable(Written(x))
         /\ ~Readable(lines) => ~Readable(Written(x))
         /\ ~VerifyOk(lines) => ~VerifyOk(Written(x))
<1> DEFINE ls == Written(x)
<1>1. /\ Len(ls) >= Len(lines) /\ Len(ls) > 0 /\ Len(ls) \in Nat /\ Len(lines) \in Nat
      /\ closed => \A i \in 1..Len(lines) : ls[i] = lines[i]
      /\ ~closed => /\ Len(ls) = Len(lines) /\ ls[Len(lines)] = Bad
                    /\ \A i \in 1..(Len(lines) - 1) : ls[i] = lines[i]
  BY WrittenEffect DEF LogInv, IsText
<1> HIDE DEF ls
<1>2. ~closed => ~Readable(ls)
  BY <1>1 DEF Readable
<1>3. ASSUME ~Readable(lines) PROVE ~Readable(ls)
  <2>1. PICK i \in 1..Len(lines) : lines[i] = Bad
    BY <1>3 DEF Readable
  <2>2. i \in 1..Len(ls) /\ (closed => ls[i] = Bad)
    BY <1>1, <2>1
  <2> QED
    BY <1>2, <2>2 DEF Readable
<1>4. ASSUME ~VerifyOk(lines), VerifyOk(ls) PROVE FALSE
  <2>1. closed /\ Readable(lines)
    BY <1>2, <1>3, <1>4 DEF VerifyOk
  <2>2. PICK i \in 1..Len(lines) : ~RowOk(lines, i)
    BY <1>4, <2>1 DEF VerifyOk
  <2>3. i \in 1..Len(ls) /\ ls[i] = lines[i] /\ (i # 1 => ls[i - 1] = lines[i - 1])
    BY <1>1, <2>1
  <2> QED
    BY <1>4, <2>2, <2>3 DEF VerifyOk, RowOk
<1> QED
  BY <1>2, <1>3, <1>4 DEF ls

LEMMA ChainStep ==
  ASSUME LogInv, ChainInv, [AuditNext]_auditVars
  PROVE  ChainInv'
<1> USE AuditAssumption
<1>a. pc \in [Writer -> {"idle", "row", "rest", "newline", "sync"}]
  BY DEF LogInv, AuditTypeOK
<1>b. \A w \in Writer : lock = Free => pc[w] = "idle"
  BY DEF LogInv, AuditTypeOK
<1>1. ASSUME NEW w \in Writer, NEW e \in Event, Open(w, e) PROVE ChainInv'
  <2>1. UNCHANGED <<lines, closed, cut, tampered>> /\ \A v \in Writer : pc[v] = "idle"
    BY <1>1, <1>b DEF Open, CanLock
  <2>2. CASE Readable(lines)
    <3>1. draft' = [draft EXCEPT ![w] = NextRow(lines, e)] /\ pc' = [pc EXCEPT ![w] = "row"]
      BY <1>1, <2>2 DEF Open
    <3>2. /\ draft'[w] = NextRow(lines, e)
          /\ \A v \in Writer : (pc'[v] = "row" => v = w) /\ pc'[v] # "rest"
      BY <1>a, <2>1, <3>1 DEF LogInv
    <3>3. ~cut => closed
      BY <2>1 DEF ChainInv
    <3> QED
      BY <2>1, <2>2, <3>2, <3>3 DEF ChainInv, TamperingDetected
  <2>3. CASE ~Readable(lines)
    <3>1. UNCHANGED <<pc, draft>>
      BY <1>1, <2>3 DEF Open
    <3> QED
      BY <2>1, <3>1 DEF ChainInv, TamperingDetected, HalfWritten
  <2> QED
    BY <2>2, <2>3
<1>2. ASSUME NEW w \in Writer, WriteRow(w) PROVE ChainInv'
  <2>1. /\ pc[w] = "row" /\ IsRow(draft[w]) /\ lines' = Written(Bad) /\ closed' = FALSE
        /\ pc' = [pc EXCEPT ![w] = IF closed THEN "rest" ELSE "newline"]
        /\ UNCHANGED <<draft, cut, tampered>>
    BY <1>2 DEF WriteRow, LogInv
  <2>2. /\ pc'[w] = IF closed THEN "rest" ELSE "newline"
        /\ \A v \in Writer : pc'[v] # "row" /\ (pc'[v] = "rest" => v = w /\ closed)
    BY <1>a, <2>1, OneAppends
  <2>3. ~Readable(lines')
    <3>1. /\ Len(lines') \in Nat /\ Len(lines') > 0
          /\ lines'[Len(lines')] = Bad
      BY <2>1, WrittenEffect DEF IsText
    <3>2. Len(lines') \in 1..Len(lines')
      BY <3>1
    <3> QED
      BY <3>1, <3>2 DEF Readable
  <2>4. ~VerifyOk(lines')
    BY <2>3 DEF VerifyOk
  <2>5. ASSUME closed PROVE tampered <=> ~VerifyOk(Completed(w)')
    <3>1. Completed(w)' = Written(draft[w])
      <4>1. lines' = Append(lines, Bad) /\ Len(lines') = Len(lines) + 1 /\ IsText(lines)
        BY <2>1, <2>5, TextAppended DEF Written, LogInv
      <4> QED
        BY <2>1, <2>5, <4>1, PiecesMakeRow DEF Completed, Written
    <3>2. CASE tampered
      <4>1. ~VerifyOk(lines)
        BY <3>2 DEF ChainInv, TamperingDetected
      <4> QED
        BY <2>1, <3>1, <3>2, <4>1, BrokenStays
    <3>3. CASE ~tampered
      <4>1. VerifyOk(lines) /\ \E e \in Event : draft[w] = NextRow(lines, e)
        BY <2>1, <3>3 DEF ChainInv
      <4> QED
        BY <2>5, <3>1, <3>3, <4>1, ChainAppended
    <3> QED
      BY <3>2, <3>3
  <2>6. ~cut => closed
    BY <2>1, OneAppends DEF ChainInv
  <2>7. closed => HalfWritten'
    BY <2>2 DEF HalfWritten
  <2>8. \A v \in Writer : pc'[v] = "rest" => (tampered' <=> ~VerifyOk(Completed(v)'))
    BY <2>1, <2>2, <2>5
  <2>9. \E v \in Writer : pc'[v] \in {"rest", "newline"}
    BY <2>2
  <2> QED
    BY <2>1, <2>2, <2>3, <2>4, <2>6, <2>7, <2>8, <2>9 DEF ChainInv, TamperingDetected
<1>3. ASSUME NEW w \in Writer, WriteRest(w) PROVE ChainInv'
  <2>1. /\ pc[w] = "rest" /\ lines' = Completed(w) /\ pc' = [pc EXCEPT ![w] = "newline"]
        /\ UNCHANGED <<closed, draft, cut, tampered>>
    BY <1>3 DEF WriteRest, Completed, Replaced
  <2>2. pc'[w] = "newline" /\ \A v \in Writer : pc'[v] \notin {"row", "rest"}
    BY <1>a, <2>1, OneAppends
  <2>3. tampered' <=> ~VerifyOk(lines')
    BY <2>1 DEF ChainInv
  <2> QED
    BY <2>2, <2>3 DEF ChainInv, TamperingDetected, VerifyOk
<1>4. ASSUME NEW w \in Writer, WriteNewline(w) PROVE ChainInv'
  <2>1. /\ pc[w] = "newline" /\ closed' = TRUE /\ pc' = [pc EXCEPT ![w] = "sync"]
        /\ UNCHANGED <<lines, draft, cut, tampered>>
    BY <1>4 DEF WriteNewline
  <2>2. \A v \in Writer : pc[v] # "rest" /\ pc'[v] \notin {"row", "rest"}
    BY <1>a, <2>1, OneAppends
  <2>3. ~HalfWritten
    BY <2>2 DEF HalfWritten
  <2> QED
    BY <2>1, <2>2, <2>3 DEF ChainInv, TamperingDetected
<1>5. ASSUME NEW w \in Writer, Sync(w) \/ CutShort(w) PROVE ChainInv'
  <2>1. /\ pc[w] # "idle" /\ pc' = [pc EXCEPT ![w] = "idle"]
        /\ UNCHANGED <<lines, closed, tampered>>
        /\ cut' \/ (pc[w] = "sync" /\ UNCHANGED cut)
    BY <1>5 DEF Sync, CutShort, Release
  <2>2. \A v \in Writer : pc'[v] = "idle"
    BY <1>a, <2>1, OneAppends
  <2>3. ASSUME ~cut' PROVE closed /\ (~tampered => Readable(lines))
    <3>1. \A v \in Writer : pc[v] \notin {"rest", "newline"}
      BY <2>1, <2>3, OneAppends
    <3> QED
      BY <2>1, <2>3, <3>1 DEF ChainInv, HalfWritten
  <2> QED
    BY <2>1, <2>2, <2>3 DEF ChainInv, TamperingDetected
<1>6. CASE Tamper
  <2>1. /\ ~tampered /\ Readable(lines) /\ tampered' = TRUE /\ closed' = TRUE
    BY <1>6 DEF Tamper
  <2>2. VerifyOk(lines)
    BY <2>1 DEF ChainInv
  <2>3. ~VerifyOk(lines')
    BY <1>6, <2>2, TamperEffect DEF VerifyOk
  <2>4. UNCHANGED pc /\ \A w \in Writer : pc[w] # "rest"
    BY <1>6, <2>1, RestEffect DEF Tamper
  <2> QED
    BY <2>1, <2>3, <2>4 DEF ChainInv, TamperingDetected
<1>7. CASE UNCHANGED auditVars
  BY <1>7 DEF auditVars, ChainInv, TamperingDetected, HalfWritten, Completed
<1> QED
  BY <1>1, <1>2, <1>3, <1>4, <1>5, <1>6, <1>7 DEF AuditNext

LEMMA ChainInvariant == AuditSpec => []ChainInv
<1>1. AuditInit => ChainInv
  BY DEF AuditInit, ChainInv, TamperingDetected, VerifyOk, Readable
<1> QED
  BY <1>1, ChainStep, LogInvariant, PTL DEF AuditSpec

\* `audit verify`, which takes no lock, accepts at every instant of every append a log
\* that nobody edited and whose writers were not cut short; while a row is half written
\* it cannot read that last line, and what stands before it verifies.
THEOREM HonestLogVerifies == AuditSpec => []VerifyAcceptsHonestLog
<1>1. ASSUME LogInv, ChainInv, ~cut, ~tampered, HalfWritten
      PROVE  VerifyOk(SubSeq(lines, 1, Len(lines) - 1))
  <2> DEFINE n == Len(lines) - 1
             front == SubSeq(lines, 1, n)
  <2>1. PICK w \in Writer : pc[w] = "rest"
    BY <1>1 DEF HalfWritten
  <2>2. /\ n \in Nat /\ Len(Completed(w)) = n + 1
        /\ \A i \in 1..n : Completed(w)[i] = lines[i]
    BY <1>1, <2>1, RestEffect
  <2>3. Len(front) = n /\ \A i \in 1..n : front[i] = lines[i]
    <3> DEFINE S == {lines[i] : i \in 1..n}
    <3>1. \A i \in 1..n : lines[i] \in S
      OBVIOUS
    <3> HIDE DEF S, n
    <3> QED
      BY <2>2, <3>1, SubSeqProperties
  <2>4. VerifyOk(Completed(w))
    BY <1>1, <2>1 DEF ChainInv
  <2> HIDE DEF front, n
  <2>5. ASSUME NEW i \in 1..n PROVE front[i] # Bad /\ RowOk(front, i)
    <3>1. i \in 1..(n + 1) /\ (i # 1 => i - 1 \in 1..n)
      BY <2>2
    <3>2. /\ front[i] = Completed(w)[i]
          /\ i # 1 => front[i - 1] = Completed(w)[i - 1]
      BY <2>2, <2>3, <3>1
    <3>3. Completed(w)[i] # Bad /\ RowOk(Completed(w), i)
      BY <2>2, <2>4, <3>1 DEF VerifyOk, Readable
    <3> QED
      BY <3>2, <3>3 DEF RowOk
  <2> QED
    BY <2>3, <2>5 DEF VerifyOk, Readable, front, n
<1>2. LogInv /\ ChainInv => VerifyAcceptsHonestLog
  BY <1>1 DEF ChainInv, VerifyAcceptsHonestLog
<1> QED
  BY <1>2, LogInvariant, ChainInvariant, PTL

\* A row that is changed, removed before the last or exchanged makes verify fail, at once
\* and after every later append.
THEOREM TamperingShows == AuditSpec => []TamperingDetected
<1>1. ChainInv => TamperingDetected
  BY DEF ChainInv
<1> QED
  BY <1>1, ChainInvariant, PTL

-----------------------------------------------------------------------------
(* What an append may do to the file.                                      *)

LEMMA SamePrefix ==
  ASSUME NEW s, NEW t, NEW k \in Nat, \A i \in 1..k : s[i] = t[i]
  PROVE  SubSeq(s, 1, k) = SubSeq(t, 1, k)
<1> DEFINE S == {s[i] : i \in 1..k}
<1>1. \A i \in 1..k : s[i] \in S /\ t[i] \in S
  OBVIOUS
<1> HIDE DEF S
<1>2. /\ SubSeq(s, 1, k) \in Seq(S) /\ SubSeq(t, 1, k) \in Seq(S)
      /\ Len(SubSeq(s, 1, k)) = k /\ Len(SubSeq(t, 1, k)) = k
      /\ \A i \in 1..k : SubSeq(s, 1, k)[i] = s[i] /\ SubSeq(t, 1, k)[i] = t[i]
  BY <1>1, SubSeqProperties
<1> QED
  BY <1>2, SeqEqual

\* Lines that were ended are never altered, and a log that cannot be read is shut.
THEOREM AppendsOnlyOrShut == AuditSpec => AppendOnlyOrShut
<1> DEFINE kept == IF closed THEN Len(lines) ELSE Len(lines) - 1
           Kept == SubSeq(lines', 1, kept) = SubSeq(lines, 1, kept)
           Shut == ~Readable(lines) =>
                     /\ ~Readable(lines') \/ HalfWritten
                     /\ \A w \in Writer : pc[w] = "idle" => pc'[w] = "idle"
<1>1. ASSUME LogInv, AuditNext PROVE tampered' \/ (Kept /\ Shut)
  <2>a. kept \in Nat
    BY <1>1, EmptyText DEF LogInv, IsText, AuditTypeOK
  <2>b. pc \in [Writer -> {"idle", "row", "rest", "newline", "sync"}]
    BY <1>1 DEF LogInv, AuditTypeOK
  <2>1. ASSUME NEW x, x = Bad \/ IsRow(x), lines' = Written(x),
               \A w \in Writer : pc[w] = "idle" => pc'[w] = "idle"
        PROVE  Kept /\ Shut
    <3>1. \A i \in 1..kept : lines'[i] = lines[i]
      BY <1>1, <2>1, WrittenEffect
    <3>2. ~Readable(lines) => ~Readable(lines')
      BY <1>1, <2>1, BrokenStays
    <3> HIDE DEF kept
    <3> QED
      BY <2>a, <2>1, <3>1, <3>2, SamePrefix
  <2>2. ASSUME UNCHANGED lines,
               ~Readable(lines) => \A w \in Writer : pc[w] = "idle" => pc'[w] = "idle"
        PROVE  Kept /\ Shut
    BY <2>2
  <2>3. ASSUME NEW w \in Writer, NEW e \in Event, Open(w, e) PROVE Kept /\ Shut
    BY <2>2, <2>3 DEF Open
  <2>4. ASSUME NEW w \in Writer, WriteRow(w) PROVE Kept /\ Shut
    <3>1. /\ lines' = Written(Bad) /\ pc[w] = "row"
          /\ pc' = [pc EXCEPT ![w] = IF closed THEN "rest" ELSE "newline"]
      BY <2>4 DEF WriteRow
    <3>2. \A v \in Writer : pc[v] = "idle" => pc'[v] = "idle"
      BY <2>b, <3>1
    <3> HIDE DEF Kept, Shut
    <3> QED
      BY <2>1, <3>1, <3>2
  <2>5. ASSUME NEW w \in Writer, WriteRest(w) PROVE Kept /\ Shut
    <3>1. /\ pc[w] = "rest" /\ lines' = Completed(w) /\ pc' = [pc EXCEPT ![w] = "newline"]
      BY <2>5 DEF WriteRest, Completed, Replaced
    <3>2. ~closed /\ HalfWritten
      BY <1>1, <3>1 DEF LogInv, HalfWritten
    <3>3. \A i \in 1..kept : lines'[i] = lines[i]
      BY <1>1, <3>1, <3>2, RestEffect
    <3>4. \A v \in Writer : pc[v] = "idle" => pc'[v] = "idle"
      BY <2>b, <3>1
    <3> HIDE DEF kept
    <3> QED
      BY <2>a, <3>2, <3>3, <3>4, SamePrefix
  <2>6. ASSUME NEW w \in Writer, WriteNewline(w) PROVE Kept /\ Shut
    <3>1. UNCHANGED lines /\ pc[w] = "newline" /\ pc' = [pc EXCEPT ![w] = "sync"]
      BY <2>6 DEF WriteNewline
    <3> QED
      BY <2>b, <2>2, <3>1
  <2>7. ASSUME NEW w \in Writer, Sync(w) \/ CutShort(w) PROVE Kept /\ Shut
    <3>1. UNCHANGED lines /\ pc' = [pc EXCEPT ![w] = "idle"]
      BY <2>7 DEF Sync, CutShort, Release
    <3> QED
      BY <2>b, <2>2, <3>1
  <2>8. CASE Tamper
    BY <2>8 DEF Tamper
  <2> HIDE DEF Kept, Shut
  <2> QED
    BY <1>1, <2>3, <2>4, <2>5, <2>6, <2>7, <2>8 DEF AuditNext
<1>2. LogInv /\ [AuditNext]_auditVars => [tampered' \/ (Kept /\ Shut)]_auditVars
  BY <1>1
<1> QED
  BY <1>2, LogInvariant, PTL DEF AuditSpec, AppendOnlyOrShut

-----------------------------------------------------------------------------
(* Acknowledged events are found in the file in their order; the row that  *)
(* is being acknowledged is its last.                                      *)

StandIn(ls, ack, n) ==
  \E f \in [1..Len(ack) -> 1..n] :
    /\ \A i \in 1..Len(ack) : ls[f[i]].body = ack[i]
    /\ \A i, j \in 1..Len(ack) : i < j => f[i] < f[j]

Placed(n) == StandIn(lines, acked, n)

AckInv ==
  Readable(lines) /\ ~tampered =>
    /\ Placed(Len(lines))
    /\ \A w \in Writer : Appending(w) =>
         lines # <<>> /\ lines[Len(lines)] = draft[w] /\ Placed(Len(lines) - 1)

\* and so it will be when the row that is being written is whole
HalfAckInv ==
  \A w \in Writer : pc[w] = "rest" /\ Readable(Completed(w)) /\ ~tampered =>
    Placed(Len(lines) - 1)

LEMMA StandInMore ==
  ASSUME NEW ls, NEW ack, NEW more, NEW m \in Nat, NEW n \in Nat, m <= n,
         StandIn(ls, ack, m), \A i \in 1..m : more[i] = ls[i]
  PROVE  StandIn(more, ack, n)
<1>1. PICK f \in [1..Len(ack) -> 1..m] :
        /\ \A i \in 1..Len(ack) : ls[f[i]].body = ack[i]
        /\ \A i, j \in 1..Len(ack) : i < j => f[i] < f[j]
  BY DEF StandIn
<1>2. f \in [1..Len(ack) -> 1..n]
  BY <1>1
<1>3. \A i \in 1..Len(ack) : more[f[i]].body = ack[i]
  BY <1>1
<1> QED
  BY <1>1, <1>2, <1>3 DEF StandIn

\* The step of a writer that is not an acknowledgement.
LEMMA AckStays ==
  ASSUME LogInv, AckInv, HalfAckInv, UNCHANGED <<lines, acked, tampered>>,
         \A w \in Writer : Appending(w)' => Appending(w) /\ draft'[w] = draft[w],
         \A w \in Writer : pc'[w] = "rest" => pc[w] = "rest" /\ draft'[w] = draft[w]
  PROVE  AckInv' /\ HalfAckInv'
<1>1. AckInv'
  BY DEF AckInv, Placed
<1>2. \A w \in Writer : pc'[w] = "rest" => Completed(w)' = Completed(w)
  BY DEF Completed
<1>3. HalfAckInv'
  BY <1>2 DEF HalfAckInv, Placed
<1> QED
  BY <1>1, <1>3

LEMMA AckStep ==
  ASSUME LogInv, LogInv', AckInv, HalfAckInv, [AuditNext]_auditVars
  PROVE  AckInv' /\ HalfAckInv'
<1> USE AuditAssumption
<1>a. pc \in [Writer -> {"idle", "row", "rest", "newline", "sync"}] /\ Len(lines) \in Nat
  BY DEF LogInv, AuditTypeOK, IsText
<1>b. draft = [v \in Writer |-> draft[v]]
  BY DEF LogInv
<1>1. ASSUME NEW w \in Writer, NEW e \in Event, Open(w, e) PROVE AckInv' /\ HalfAckInv'
  <2>1. UNCHANGED <<lines, acked, tampered>>
    BY <1>1 DEF Open
  <2>2. \A v \in Writer : Appending(v)' \/ pc'[v] = "rest" =>
          pc[v] = pc'[v] /\ draft'[v] = draft[v]
    BY <1>1, <1>a, <1>b DEF Open, Appending
  <2> QED
    BY <2>1, <2>2, AckStays DEF Appending
<1>2. ASSUME NEW w \in Writer, WriteRow(w) PROVE AckInv' /\ HalfAckInv'
  <2>1. /\ pc[w] = "row" /\ IsRow(draft[w]) /\ lines' = Written(Bad)
        /\ pc' = [pc EXCEPT ![w] = IF closed THEN "rest" ELSE "newline"]
        /\ UNCHANGED <<draft, acked, tampered>>
    BY <1>2 DEF WriteRow, LogInv
  <2>2. ~Readable(lines')
    <3>1. Len(lines') \in Nat /\ Len(lines') > 0 /\ lines'[Len(lines')] = Bad
      BY <2>1, WrittenEffect DEF IsText
    <3>2. Len(lines') \in 1..Len(lines')
      BY <3>1
    <3> QED
      BY <3>1, <3>2 DEF Readable
  <2>3. ASSUME NEW v \in Writer, pc'[v] = "rest", Readable(Completed(v)'), ~tampered
        PROVE  Placed(Len(lines) - 1)'
    <3>1. v = w /\ closed
      BY <1>a, <2>1, <2>3, OneAppends
    <3>2. lines' = Append(lines, Bad) /\ Len(lines') = Len(lines) + 1 /\ IsText(lines)
          /\ \A i \in 1..Len(lines) : lines'[i] = lines[i]
      BY <2>1, <3>1, TextAppended DEF Written, LogInv
    <3>3. Completed(v)' = Written(draft[w])
      BY <2>1, <3>1, <3>2, PiecesMakeRow DEF Completed, Written
    <3>4. Readable(lines)
      BY <2>1, <2>3, <3>3, BrokenStays
    <3>5. Placed(Len(lines))
      BY <2>3, <3>4 DEF AckInv
    <3>6. StandIn(lines', acked, Len(lines))
      <4>1. Len(lines) \in Nat /\ Len(lines) <= Len(lines) /\ StandIn(lines, acked, Len(lines))
        BY <1>a, <3>5 DEF Placed
      <4>2. \A i \in 1..Len(lines) : lines'[i] = lines[i]
        BY <3>2
      <4> QED
        BY <4>1, <4>2, StandInMore
    <3>7. Len(lines') - 1 = Len(lines)
      BY <1>a, <3>2
    <3> QED
      BY <2>1, <3>6, <3>7 DEF Placed
  <2> QED
    BY <2>1, <2>2, <2>3 DEF AckInv, HalfAckInv
<1>3. ASSUME NEW w \in Writer, WriteRest(w) PROVE AckInv' /\ HalfAckInv'
  <2>1. /\ pc[w] = "rest" /\ lines' = Completed(w) /\ pc' = [pc EXCEPT ![w] = "newline"]
        /\ UNCHANGED <<draft, acked, tampered>>
    BY <1>3 DEF WriteRest, Completed, Replaced
  <2>2. \A v \in Writer : (Appending(v)' => v = w) /\ pc'[v] # "rest"
    BY <1>a, <2>1, OneAppends DEF Appending
  <2>3. SUFFICES ASSUME Readable(lines'), ~tampered PROVE AckInv'
    BY <2>1, <2>2 DEF AckInv, HalfAckInv
  <2>4. /\ Len(lines) - 1 \in Nat /\ Len(lines') = Len(lines) /\ lines'[Len(lines)] = draft[w]
        /\ \A i \in 1..(Len(lines) - 1) : lines'[i] = lines[i]
    BY <2>1, RestEffect
  <2>5. Placed(Len(lines) - 1)
    BY <2>1, <2>3 DEF HalfAckInv
  <2>6. Len(lines) - 1 <= Len(lines)
    BY <1>a
  <2>7. /\ StandIn(lines', acked, Len(lines) - 1)
        /\ StandIn(lines', acked, Len(lines))
    <3> DEFINE m == Len(lines) - 1
    <3>1. m \in Nat /\ m <= m /\ StandIn(lines, acked, m)
      BY <2>4, <2>5 DEF Placed
    <3>2. \A i \in 1..m : lines'[i] = lines[i]
      BY <2>4
    <3>3. m <= Len(lines)
      BY <2>6
    <3> HIDE DEF m
    <3>4. StandIn(lines', acked, m) /\ StandIn(lines', acked, Len(lines))
      BY <1>a, <3>1, <3>2, <3>3, StandInMore
    <3> QED
      BY <3>4 DEF m
  <2>8. lines' # <<>>
    BY <1>a, <2>4
  <2> QED
    BY <2>1, <2>2, <2>4, <2>7, <2>8 DEF AckInv, Placed
<1>8. ASSUME NEW w \in Writer, WriteNewline(w) PROVE AckInv' /\ HalfAckInv'
  <2>1. /\ pc[w] = "newline" /\ pc' = [pc EXCEPT ![w] = "sync"]
        /\ UNCHANGED <<lines, draft, acked, tampered>>
    BY <1>8 DEF WriteNewline
  <2>2. \A v \in Writer : (Appending(v)' => Appending(v)) /\ (pc'[v] = "rest" => pc[v] = "rest")
    BY <1>a, <2>1 DEF Appending
  <2> QED
    BY <2>1, <2>2, AckStays
<1>4. ASSUME NEW w \in Writer, Sync(w) PROVE AckInv' /\ HalfAckInv'
  <2>1. /\ pc[w] = "sync" /\ pc' = [pc EXCEPT ![w] = "idle"]
        /\ acked' = Append(acked, draft[w].body) /\ UNCHANGED <<lines, tampered>>
    BY <1>4 DEF Sync, Release
  <2>2. \A v \in Writer : ~Appending(v)' /\ pc'[v] # "rest"
    BY <1>a, <2>1, OneAppends DEF Appending
  <2>3. SUFFICES ASSUME Readable(lines), ~tampered PROVE Placed(Len(lines))'
    BY <2>1, <2>2 DEF AckInv, HalfAckInv
  <2>4. lines # <<>> /\ lines[Len(lines)] = draft[w] /\ Placed(Len(lines) - 1)
    BY <2>1, <2>3 DEF AckInv, Appending
  <2> DEFINE n == Len(lines)
             k == Len(acked)
  <2>5. n \in Nat /\ n # 0 /\ k \in Nat
    BY <1>a, <2>4, EmptyText, LenProperties DEF LogInv
  <2>6. /\ Len(acked') = k + 1 /\ acked'[k + 1] = lines[n].body
        /\ \A i \in 1..k : acked'[i] = acked[i]
    <3>1. draft[w].body \in Event
      BY <2>1 DEF LogInv, IsRow
    <3> QED
      BY <2>1, <2>4, <3>1, AppendProperties DEF LogInv
  <2>7. PICK f \in [1..k -> 1..(n - 1)] :
          /\ \A i \in 1..k : lines[f[i]].body = acked[i]
          /\ \A i, j \in 1..k : i < j => f[i] < f[j]
    BY <2>4 DEF Placed, StandIn
  <2> HIDE DEF n, k
  <2> DEFINE g == [i \in 1..(k + 1) |-> IF i = k + 1 THEN n ELSE f[i]]
  <2>8. \A i \in 1..(k + 1) : i = k + 1 \/ (i \in 1..k /\ i # k + 1)
    BY <2>5
  <2>9. \A i \in 1..k : g[i] = f[i] /\ f[i] \in 1..n /\ f[i] < n
    BY <2>5, <2>7, <2>8
  <2>10. g \in [1..(k + 1) -> 1..n] /\ g[k + 1] = n
    BY <2>5, <2>8, <2>9
  <2> HIDE DEF g
  <2>11. \A i \in 1..(k + 1) : lines[g[i]].body = acked'[i]
    BY <2>6, <2>7, <2>8, <2>9, <2>10
  <2>12. \A i, j \in 1..(k + 1) : i < j => g[i] < g[j]
    <3>1. TAKE i, j \in 1..(k + 1)
    <3>2. HAVE i < j
    <3>3. i \in 1..k
      BY <2>5, <3>2
    <3> QED
      BY <2>7, <2>8, <2>9, <2>10, <3>2, <3>3
  <2> QED
    BY <2>1, <2>6, <2>10, <2>11, <2>12 DEF Placed, StandIn, n
<1>5. ASSUME NEW w \in Writer, CutShort(w) PROVE AckInv' /\ HalfAckInv'
  <2>1. /\ pc[w] # "idle" /\ pc' = [pc EXCEPT ![w] = "idle"]
        /\ UNCHANGED <<lines, acked, tampered>>
    BY <1>5 DEF CutShort, Release
  <2>2. \A v \in Writer : ~Appending(v)' /\ pc'[v] # "rest"
    BY <1>a, <2>1, OneAppends DEF Appending
  <2> QED
    BY <2>1, <2>2, AckStays
<1>6. CASE Tamper
  BY <1>6 DEF Tamper, AckInv, HalfAckInv
<1>7. CASE UNCHANGED auditVars
  BY <1>7, AckStays DEF auditVars, Appending
<1> QED
  BY <1>1, <1>2, <1>3, <1>4, <1>5, <1>6, <1>7, <1>8 DEF AuditNext

\* In a log that can be read and that nobody edited, what was acknowledged stands in the
\* order in which it was.
THEOREM AckedStandInOrder == AuditSpec => []AckedInOrder
<1>1. ASSUME AuditInit PROVE AckInv /\ HalfAckInv
  <2>1. /\ lines = <<>> /\ acked = <<>> /\ Len(lines) = 0 /\ Len(acked) = 0
        /\ \A w \in Writer : ~Appending(w) /\ pc[w] # "rest"
    BY <1>1 DEF AuditInit, Appending
  <2>2. StandIn(<<>>, <<>>, 0)
    <3> DEFINE f == [i \in 1..0 |-> 0]
    <3>1. f \in [1..0 -> 1..0] /\ \A i : i \notin 1..0
      OBVIOUS
    <3>2. 1..Len(<<>>) = 1..0
      OBVIOUS
    <3> HIDE DEF f
    <3>3. /\ f \in [1..Len(<<>>) -> 1..0]
          /\ \A i \in 1..Len(<<>>) : <<>>[f[i]].body = <<>>[i]
          /\ \A i, j \in 1..Len(<<>>) : i < j => f[i] < f[j]
      BY <3>1, <3>2, Zenon
    <3> QED
      BY <3>3, Zenon DEF StandIn
  <2>3. StandIn(lines, acked, 0)
    BY <2>1, <2>2
  <2> QED
    BY <2>1, <2>3 DEF AckInv, HalfAckInv, Placed
<1>2. LogInv /\ AckInv => AckedInOrder
  BY DEF LogInv, IsText, AckInv, Placed, StandIn, AckedInOrder, Bodies
<1> QED
  BY <1>1, <1>2, AckStep, LogInvariant, PTL DEF AuditSpec
=============================================================================
