------------------------------ MODULE SealProofs ------------------------------
(***************************************************************************)
(* Theorems about Seal and EnvFile, for every set of texts, of options and *)
(* of secrets.  First seal_text: what the scanners find is in the text,    *)
(* what normalize_findings keeps of it does not overlap, and what          *)
(* replace_with_handles puts out is all of the text.  Then the readers of  *)
(* a .env file: what was exported is imported again, and a file of plain   *)
(* lines means to `env run` the same sealed as it did before.              *)
(***************************************************************************)
EXTENDS EnvFile, SequenceTheorems, FiniteSetTheorems, WellFoundedInduction, TLAPS

Scanner == {"prefixed", "bearer", "jwt", "block", "url", "assignment", "entropy"}

-----------------------------------------------------------------------------
(* Least and greatest numbers, and the ends of runs.                       *)

\* The initial segments of a set of naturals are finite, and strict inclusion of finite
\* sets is well-founded.
LEMMA LeastExists ==
  ASSUME NEW S \in SUBSET Nat, S # {}
  PROVE  \E a \in S : \A b \in S : a <= b
<1> DEFINE Upto(k) == {m \in S : m <= k}
           T == {Upto(k) : k \in S}
           R == StrictSubsetOrdering(Nat)
<1>1. \A k \in S : IsFiniteSet(Upto(k))
  <2> TAKE k \in S
  <2> HIDE DEF Upto
  <2>1. Upto(k) \in SUBSET Nat /\ \A m \in Upto(k) : m <= k
    BY DEF Upto
  <2> QED
    BY <2>1, FS_BoundedSetOfNaturals
<1>2. T \subseteq FiniteSubsetsOf(Nat) /\ T # {}
  BY <1>1 DEF FiniteSubsetsOf
<1>3. IsWellFoundedOn(R, FiniteSubsetsOf(Nat))
  BY FS_StrictSubsetOrderingWellFounded
<1>4. \E X \in T : \A Y \in T : ~(<<Y, X>> \in R)
  <2> HIDE DEF T, R
  <2> QED
    BY <1>2, <1>3, WFMin
<1>5. PICK a \in S : \A b \in S : ~(<<Upto(b), Upto(a)>> \in R)
  BY <1>4
<1>6. ASSUME NEW b \in S, ~(a <= b) PROVE FALSE
  <2>1. a \in Nat /\ b \in Nat /\ b < a /\ \A m \in S : m <= b => m <= a
    BY <1>6
  <2>2. Upto(b) \subseteq Upto(a) /\ a \in Upto(a) /\ a \notin Upto(b)
    <3>1. Upto(b) \subseteq Upto(a)
      BY <2>1
    <3>2. a <= a /\ ~(a <= b)
      BY <2>1
    <3> QED
      BY <3>1, <3>2
  <2>3. <<Upto(b), Upto(a)>> \in R
    BY <2>2 DEF StrictSubsetOrdering
  <2> QED
    BY <1>5, <2>3
<1> QED
  BY <1>6

LEMMA GreatestExists ==
  ASSUME NEW n \in Nat, NEW S \in SUBSET (1..n), S # {}
  PROVE  \E a \in S : \A b \in S : b <= a
<1> DEFINE T == {n - k : k \in S}
<1>1. T \in SUBSET Nat /\ T # {}
  <2>1. \A k \in S : n - k \in Nat
    OBVIOUS
  <2>2. T # {}
    OBVIOUS
  <2> QED
    BY <2>1, <2>2
<1>2. PICK t \in T : \A u \in T : t <= u
  BY <1>1, LeastExists
<1>3. PICK a \in S : t = n - a
  OBVIOUS
<1>4. \A b \in S : n - a <= n - b
  BY <1>2, <1>3
<1> QED
  BY <1>3, <1>4

LEMMA RunEndIs ==
  ASSUME NEW t \in Seq(Lexeme), NEW i \in Nat, i <= Len(t) + 1, NEW class
  PROVE  RunEnd(t, i, class) \in i..(Len(t) + 1)
<1> DEFINE S == {e \in i..(Len(t) + 1) : e <= Len(t) => t[e] \notin class}
<1>1. Len(t) \in Nat
  BY LenProperties
<1>2. Len(t) + 1 \in S /\ S \in SUBSET Nat
  BY <1>1
<1>3. PICK e \in S : \A d \in S : e <= d
  <2> HIDE DEF S
  <2> QED
    BY <1>2, LeastExists
<1>4. \A j \in i..(e - 1) : t[j] \in class
  <2> SUFFICES ASSUME NEW j \in i..(e - 1), t[j] \notin class PROVE FALSE
    OBVIOUS
  <2>1. j \in S /\ j < e
    BY <1>1, <1>2
  <2> QED
    BY <1>2, <1>3, <2>1
<1>5. \E d \in i..(Len(t) + 1) :
        /\ \A j \in i..(d - 1) : t[j] \in class
        /\ d <= Len(t) => t[d] \notin class
  BY <1>4
<1> QED
  BY <1>5, Zenon DEF RunEnd

LEMMA HitsAre ==
  ASSUME NEW matches, NEW resume, NEW len
  PROVE  Hits(matches, resume, len) \subseteq matches
BY DEF Hits

LEMMA LongIs ==
  ASSUME NEW t, NEW from \in Nat, NEW to \in Nat, Long(t, from, to)
  PROVE  from < to
BY DEF Long

-----------------------------------------------------------------------------
(* What the scanners find.                                                 *)

\* A stretch of a text that is not empty.
Stretch(f, t) ==
  /\ f.from \in Nat /\ f.to \in Nat /\ 1 <= f.from /\ f.from < f.to /\ f.to <= Len(t) + 1
  /\ f.by \in Scanner

LEMMA FindingIs ==
  ASSUME NEW t \in Seq(Lexeme), NEW by \in Scanner, NEW from \in Nat, NEW to \in Nat,
         NEW confidence, 1 <= from, from < to, to <= Len(t) + 1
  PROVE  Stretch(Finding(by, from, to, confidence), t)
BY DEF Finding, Stretch

LEMMA PrefixedIs ==
  ASSUME NEW t \in Seq(Lexeme), NEW f \in Prefixed(t)
  PROVE  Stretch(f, t)
<1> DEFINE to == [i \in 1..Len(t) |-> RunEnd(t, i, TokenChars)]
<1>1. PICK h \in Hits(Positions(t, "prefix"), to, Len(t)) :
        Long(t, h, to[h]) /\ f = Finding("prefixed", h, to[h], "high")
  BY DEF Prefixed
<1>2. h \in 1..Len(t) /\ Len(t) \in Nat
  BY HitsAre, LenProperties DEF Positions
<1>3. to[h] \in h..(Len(t) + 1)
  BY <1>2, RunEndIs
<1>4. h < to[h]
  BY <1>1, <1>2, <1>3, LongIs
<1> QED
  BY <1>1, <1>2, <1>3, <1>4, FindingIs DEF Scanner

LEMMA BearerIs ==
  ASSUME NEW t \in Seq(Lexeme), NEW f \in Bearer(t)
  PROVE  Stretch(f, t)
<1>1. PICK h \in BearerHits(t) : /\ Long(t, h + 2, BearerEnd(t, h))
                                 /\ f = Finding("bearer", h + 2, BearerEnd(t, h), "high")
  BY DEF Bearer
<1>2. h \in Followed(t, "bearer", Blank)
  BY HitsAre DEF BearerHits
<1>3. h \in 1..Len(t) /\ h < Len(t) /\ Len(t) \in Nat
  BY <1>2, LenProperties DEF Followed, Positions
<1>4. BearerEnd(t, h) \in (h + 2)..(Len(t) + 1)
  BY <1>3, RunEndIs DEF BearerEnd
<1>5. h + 2 < BearerEnd(t, h)
  BY <1>1, <1>3, <1>4, LongIs
<1> QED
  BY <1>1, <1>3, <1>4, <1>5, FindingIs DEF Scanner

LEMMA JwtIs ==
  ASSUME NEW t \in Seq(Lexeme), NEW f \in Jwt(t)
  PROVE  Stretch(f, t)
<1> DEFINE to == [i \in 1..Len(t) |-> RunEnd(t, i, TokenChars \ {"=", ":"})]
<1>1. PICK h \in Hits(Positions(t, "jwt"), to, Len(t)) :
        /\ Cardinality(Positions(t, "jwt") \cap h..(to[h] - 1)) = 1
        /\ f = Finding("jwt", h, to[h], "medium")
  BY DEF Jwt
<1>2. h \in 1..Len(t) /\ Len(t) \in Nat
  BY HitsAre, LenProperties DEF Positions
<1>3. to[h] \in h..(Len(t) + 1)
  BY <1>2, RunEndIs
<1>4. h < to[h]
  <2> DEFINE S == Positions(t, "jwt") \cap h..(to[h] - 1)
  <2> HIDE DEF to
  <2>1. Cardinality(S) = 1
    BY <1>1 DEF to
  <2> HIDE DEF S
  <2>2. S # {}
    BY <2>1, FS_EmptySet
  <2>3. PICK i \in h..(to[h] - 1) : TRUE
    BY <2>2 DEF S
  <2> QED
    BY <1>2, <1>3, <2>3
<1> QED
  BY <1>1, <1>2, <1>3, <1>4, FindingIs DEF Scanner

LEMMA BlockIs ==
  ASSUME NEW t \in Seq(Lexeme), NEW f \in Block(t)
  PROVE  Stretch(f, t)
<1> DEFINE close == [i \in 1..Len(t) |-> FirstFrom(t, i, {"end"}) + 1]
           resume == [i \in 1..Len(t) |-> IF close[i] <= Len(t) + 1 THEN close[i] ELSE i + 1]
<1>1. PICK h \in Hits(Followed(t, "begin", Blank), resume, Len(t)) :
        close[h] <= Len(t) + 1 /\ f = Finding("block", h, close[h], "high")
  BY DEF Block
<1>2. h \in 1..Len(t) /\ Len(t) \in Nat
  BY HitsAre, LenProperties DEF Followed, Positions
<1>3. close[h] = FirstFrom(t, h, {"end"}) + 1 /\ FirstFrom(t, h, {"end"}) \in h..(Len(t) + 1)
  BY <1>2, RunEndIs DEF FirstFrom
<1> QED
  BY <1>1, <1>2, <1>3, FindingIs DEF Scanner

LEMMA UrlIs ==
  ASSUME NEW t \in Seq(Lexeme), NEW f \in Url(t)
  PROVE  Stretch(f, t)
<1> DEFINE to == [i \in 1..Len(t) |-> FirstFrom(t, i, {Blank, "nl"} \cup Quotes)]
<1>1. PICK h \in Hits(Followed(t, "scheme", ":"), to, Len(t)) :
        Long(t, h, to[h]) /\ f = Finding("url", h, to[h], "high")
  BY DEF Url
<1>2. h \in 1..Len(t) /\ Len(t) \in Nat
  BY HitsAre, LenProperties DEF Followed, Positions
<1>3. to[h] \in h..(Len(t) + 1)
  BY <1>2, RunEndIs DEF FirstFrom
<1>4. h < to[h]
  BY <1>1, <1>2, <1>3, LongIs
<1> QED
  BY <1>1, <1>2, <1>3, <1>4, FindingIs DEF Scanner

LEMMA AssignmentIs ==
  ASSUME NEW t \in Seq(Lexeme), NEW f \in Assignment(t)
  PROVE  Stretch(f, t)
<1> DEFINE from(i) == RunEnd(t, FirstFrom(t, i, Separators), Separators \cup Quotes)
           to(i) == RunEnd(t, from(i), TokenChars)
<1>1. PICK k \in Positions(t, "key") :
        /\ FirstFrom(t, k, Separators) <= Len(t) /\ Long(t, from(k), to(k))
        /\ f = Finding("assignment", from(k), to(k), "high")
  BY DEF Assignment
<1>2. k \in 1..Len(t) /\ Len(t) \in Nat
  BY LenProperties DEF Positions
<1>3. FirstFrom(t, k, Separators) \in k..(Len(t) + 1)
  BY <1>2, RunEndIs DEF FirstFrom
<1>4. from(k) \in FirstFrom(t, k, Separators)..(Len(t) + 1)
  BY <1>2, <1>3, RunEndIs
<1>5. from(k) \in Nat /\ 1 <= from(k) /\ from(k) <= Len(t) + 1
  BY <1>2, <1>3, <1>4
<1> HIDE DEF from
<1>6. to(k) \in from(k)..(Len(t) + 1)
  BY <1>5, RunEndIs
<1>7. to(k) \in Nat /\ to(k) <= Len(t) + 1
  BY <1>2, <1>5, <1>6
<1> HIDE DEF to
<1>8. from(k) < to(k)
  BY <1>1, <1>5, <1>7, LongIs
<1> QED
  BY <1>1, <1>5, <1>7, <1>8, FindingIs DEF Scanner

LEMMA EntropyIs ==
  ASSUME NEW t \in Seq(Lexeme), NEW f \in Entropy(t)
  PROVE  Stretch(f, t)
<1>1. PICK j \in 1..Len(t) : /\ Long(t, j, RunEnd(t, j, TokenChars))
                             /\ f = Finding("entropy", j, RunEnd(t, j, TokenChars), "low")
  BY DEF Entropy
<1>2. Len(t) \in Nat
  BY LenProperties
<1>3. RunEnd(t, j, TokenChars) \in j..(Len(t) + 1)
  BY <1>2, RunEndIs
<1>4. j < RunEnd(t, j, TokenChars)
  BY <1>1, <1>2, <1>3, LongIs
<1> QED
  BY <1>1, <1>2, <1>3, <1>4, FindingIs DEF Scanner

LEMMA FindingsAre ==
  ASSUME NEW t \in Seq(Lexeme), NEW f \in Findings(t)
  PROVE  Stretch(f, t)
BY PrefixedIs, BearerIs, JwtIs, BlockIs, UrlIs, AssignmentIs, EntropyIs DEF Findings

LEMMA RankIs ==
  ASSUME NEW by \in Scanner
  PROVE  Rank(by) \in 1..7
BY DEF Rank, Scanner

\* In the order of normalize_findings there is a first and a last finding.
LEMMA FirstOfIs ==
  ASSUME NEW t \in Seq(Lexeme), NEW S \in SUBSET Findings(t), S # {}
  PROVE  FirstOf(S) \in S /\ \A g \in S : FirstOf(S).from <= g.from
<1>1. \A f \in S : Stretch(f, t) /\ Rank(f.by) \in Nat
  BY FindingsAre, RankIs DEF Stretch
<1> DEFINE A == {f.from : f \in S}
<1>2. A \in SUBSET Nat /\ A # {}
  BY <1>1 DEF Stretch
<1>3. PICK a \in A : \A b \in A : a <= b
  <2> HIDE DEF A
  <2> QED
    BY <1>2, LeastExists
<1> DEFINE S1 == {f \in S : f.from = a}
           B == {f.to : f \in S1}
<1>4. B \in SUBSET Nat /\ B # {}
  BY <1>1, <1>3 DEF Stretch
<1>5. PICK b \in B : \A c \in B : b <= c
  <2> HIDE DEF B
  <2> QED
    BY <1>4, LeastExists
<1> DEFINE S2 == {f \in S1 : f.to = b}
           C == {Rank(f.by) : f \in S2}
<1>6. C \in SUBSET Nat /\ C # {}
  BY <1>1, <1>5
<1>7. PICK c \in C : \A d \in C : c <= d
  <2> HIDE DEF C
  <2> QED
    BY <1>6, LeastExists
<1>8. PICK f \in S2 : Rank(f.by) = c
  BY <1>7
<1>9. \A g \in S : Before(f, g)
  <2> TAKE g \in S
  <2>1. f.from = a /\ f.to = b /\ a \in Nat /\ b \in Nat /\ g.from \in Nat /\ g.to \in Nat
    BY <1>1, <1>2, <1>3, <1>4, <1>5, <1>8 DEF Stretch
  <2>2. a <= g.from
    BY <1>3
  <2>3. g.from = a => b <= g.to
    BY <1>5
  <2>4. g.from = a /\ g.to = b => Rank(f.by) <= Rank(g.by)
    BY <1>7, <1>8
  <2> QED
    BY <2>1, <2>2, <2>3, <2>4 DEF Before
<1>10. FirstOf(S) \in S /\ \A g \in S : Before(FirstOf(S), g)
  <2>1. \E h \in S : \A g \in S : Before(h, g)
    BY <1>8, <1>9
  <2> QED
    BY <2>1, Zenon DEF FirstOf
<1> QED
  BY <1>1, <1>10 DEF Before, Stretch

LEMMA LastOfIs ==
  ASSUME NEW t \in Seq(Lexeme), NEW S \in SUBSET Findings(t), S # {}
  PROVE  LastOf(S) \in S /\ \A g \in S : g.from <= LastOf(S).from
<1> DEFINE n == Len(t) + 1
<1>0. n \in Nat
  BY LenProperties
<1>1. \A f \in S : Stretch(f, t) /\ Rank(f.by) \in 1..7
  BY FindingsAre, RankIs DEF Stretch
<1>2. \A f \in S : f.from \in 1..n /\ f.to \in 1..n
  BY <1>0, <1>1 DEF Stretch
<1> HIDE DEF n
<1> DEFINE A == {f.from : f \in S}
<1>3. PICK a \in A : \A b \in A : b <= a
  <2>1. A \in SUBSET (1..n) /\ A # {}
    BY <1>2
  <2> HIDE DEF A
  <2> QED
    BY <1>0, <2>1, GreatestExists
<1> DEFINE S1 == {f \in S : f.from = a}
           B == {f.to : f \in S1}
<1>4. PICK b \in B : \A c \in B : c <= b
  <2>1. B \in SUBSET (1..n) /\ B # {}
    BY <1>2, <1>3
  <2> HIDE DEF B
  <2> QED
    BY <1>0, <2>1, GreatestExists
<1> DEFINE S2 == {f \in S1 : f.to = b}
           C == {Rank(f.by) : f \in S2}
<1>5. PICK c \in C : \A d \in C : d <= c
  <2>1. C \in SUBSET (1..7) /\ C # {}
    BY <1>1, <1>4
  <2> HIDE DEF C
  <2> QED
    BY <2>1, GreatestExists
<1>6. PICK f \in S2 : Rank(f.by) = c
  BY <1>5
<1>7. \A g \in S : Before(g, f)
  <2> TAKE g \in S
  <2>1. f.from = a /\ f.to = b /\ a \in 1..n /\ b \in 1..n /\ g.from \in 1..n /\ g.to \in 1..n
    BY <1>2, <1>3, <1>4, <1>6
  <2>2. g.from <= a
    BY <1>3
  <2>3. g.from = a => g.to <= b
    BY <1>4
  <2>4. g.from = a /\ g.to = b => Rank(g.by) <= Rank(f.by)
    BY <1>5, <1>6
  <2> QED
    BY <1>0, <2>1, <2>2, <2>3, <2>4 DEF Before
<1>8. LastOf(S) \in S /\ \A g \in S : Before(g, LastOf(S))
  <2>1. \E h \in S : \A g \in S : Before(g, h)
    BY <1>6, <1>7
  <2> QED
    BY <2>1, Zenon DEF LastOf
<1> QED
  BY <1>0, <1>2, <1>8 DEF Before

-----------------------------------------------------------------------------
(* normalize_findings.                                                     *)

Disjoint(S) == \A f, g \in S : f # g => f.to <= g.from \/ g.to <= f.from

Nested(S) == \A f, g \in S : Overlap(f, g) => Within(f, g) \/ Within(g, f)

\* A finding that is not before those kept leaves them disjoint, and where findings only
\* nest each is within one that is kept.
LEMMA KeptIs ==
  ASSUME NEW t \in Seq(Lexeme), NEW S \in SUBSET Findings(t), NEW f \in Findings(t),
         Disjoint(S), \A g \in S : g.from <= f.from
  PROVE  /\ Kept(f, S) \subseteq S \cup {f} /\ Disjoint(Kept(f, S))
         /\ Nested(Findings(t)) => \A g \in S \cup {f} : \E h \in Kept(f, S) : Within(g, h)
<1> DEFINE last == LastOf(S)
<1>1. \A g \in Findings(t) : Stretch(g, t)
  BY FindingsAre
<1>2. S # {} => last \in S /\ \A g \in S : g.from <= last.from
  BY LastOfIs
<1> HIDE DEF last
<1>3. \A g \in S : g # last => g.to <= last.from
  BY <1>1, <1>2 DEF Disjoint, Stretch
<1>4. \A g \in Findings(t) : Within(g, g)
  BY <1>1 DEF Within, Stretch
<1>5. CASE S = {} \/ f.from >= last.to
  <2>1. Kept(f, S) = S \cup {f}
    BY <1>5 DEF Kept, last
  <2>2. \A g \in S : g.to <= f.from
    BY <1>1, <1>2, <1>3, <1>5 DEF Stretch
  <2>3. Disjoint(S \cup {f})
    BY <2>2 DEF Disjoint
  <2> QED
    BY <1>4, <2>1, <2>3
<1>6. CASE S # {} /\ f.from < last.to
  <2>0. last \in S /\ last \in Findings(t) /\ Stretch(last, t) /\ Stretch(f, t)
    BY <1>1, <1>2, <1>6
  <2>1. last.from <= f.from /\ Overlap(f, last)
    BY <1>6, <2>0 DEF Overlap, Stretch
  <2>2. Nested(Findings(t)) => Within(f, last) \/ Within(last, f)
    BY <2>0, <2>1 DEF Nested
  <2>3. CASE Size(f) > Size(last)
    <3>1. Kept(f, S) = (S \ {last}) \cup {f}
      BY <1>6, <2>0, <2>3 DEF Kept, last, Stretch
    <3>2. \A g \in S : g # last => g.to <= f.from
      BY <1>1, <1>3, <2>0, <2>1 DEF Stretch
    <3>3. Disjoint((S \ {last}) \cup {f})
      BY <3>2 DEF Disjoint
    <3>4. Nested(Findings(t)) => Within(last, f)
      BY <2>0, <2>2, <2>3 DEF Within, Size, Stretch
    <3> QED
      BY <1>4, <3>1, <3>3, <3>4
  <2>4. CASE ~(Size(f) > Size(last))
    <3>1. Kept(f, S) = S
      BY <1>6, <2>0, <2>4 DEF Kept, last, Stretch
    <3>2. Nested(Findings(t)) => Within(f, last)
      BY <2>0, <2>1, <2>2, <2>4 DEF Within, Size, Stretch
    <3> QED
      BY <1>4, <2>0, <3>1, <3>2
  <2> QED
    BY <2>3, <2>4
<1>7. S = {} \/ f.from >= last.to \/ f.from < last.to
  BY <1>1, <1>2 DEF Stretch
<1> QED
  BY <1>5, <1>6, <1>7

-----------------------------------------------------------------------------
(* replace_with_handles.                                                   *)

Stretches == [from : Nat, to : Nat, sealed : BOOLEAN]

CursorOf(ps) == IF ps = <<>> THEN 1 ELSE ps[Len(ps)].to

Joined(ps) ==
  /\ ps \in Seq(Stretches)
  /\ \A i \in 1..Len(ps) :
       ps[i].from <= ps[i].to /\ ps[i].from = IF i = 1 THEN 1 ELSE ps[i - 1].to

LEMMA CursorIs ==
  ASSUME NEW ps, Joined(ps)
  PROVE  CursorOf(ps) \in Nat
<1>1. ps \in Seq(Stretches) /\ Len(ps) \in Nat
  BY LenProperties DEF Joined
<1>2. CASE ps # <<>>
  <2>1. Len(ps) \in 1..Len(ps)
    BY <1>1, <1>2, EmptySeq
  <2>2. ps[Len(ps)] \in Stretches
    BY <1>1, <2>1, ElementOfSeq
  <2> QED
    BY <1>2, <2>2 DEF CursorOf, Stretches
<1> QED
  BY <1>2 DEF CursorOf

LEMMA JoinedGrows ==
  ASSUME NEW ps, Joined(ps), NEW to \in Nat, CursorOf(ps) <= to, NEW sealed \in BOOLEAN
  PROVE  LET qs == Append(ps, Piece(CursorOf(ps), to, sealed)) IN
         /\ Joined(qs) /\ CursorOf(qs) = to /\ Len(qs) = Len(ps) + 1
         /\ qs[Len(qs)] = Piece(CursorOf(ps), to, sealed)
         /\ \A i \in 1..Len(ps) : qs[i] = ps[i]
<1> DEFINE p == Piece(CursorOf(ps), to, sealed)
           qs == Append(ps, p)
<1>1. CursorOf(ps) \in Nat
  BY CursorIs
<1>2. p \in Stretches /\ p.from = CursorOf(ps) /\ p.to = to
  BY <1>1 DEF Piece, Stretches
<1>3. ps \in Seq(Stretches) /\ Len(ps) \in Nat
  BY LenProperties DEF Joined
<1> HIDE DEF p
<1>4. /\ qs \in Seq(Stretches) /\ Len(qs) = Len(ps) + 1 /\ qs[Len(qs)] = p
      /\ \A i \in 1..Len(ps) : qs[i] = ps[i]
  BY <1>2, <1>3, AppendProperties
<1>5. qs # <<>>
  BY <1>3, <1>4, EmptySeq
<1> HIDE DEF qs
<1>6. ASSUME NEW i \in 1..Len(qs)
      PROVE  qs[i].from <= qs[i].to /\ qs[i].from = IF i = 1 THEN 1 ELSE qs[i - 1].to
  <2>1. CASE i \in 1..Len(ps)
    <3>1. qs[i] = ps[i] /\ (i # 1 => i - 1 \in 1..Len(ps) /\ qs[i - 1] = ps[i - 1])
      BY <1>3, <1>4, <2>1
    <3> QED
      BY <2>1, <3>1 DEF Joined
  <2>2. CASE i = Len(ps) + 1
    <3>1. qs[i] = p
      BY <1>4, <2>2
    <3>2. CASE i = 1
      <4>1. ps = <<>>
        BY <1>3, <2>2, <3>2, EmptySeq
      <4> QED
        BY <1>2, <3>1, <3>2, <4>1 DEF CursorOf
    <3>3. CASE i # 1
      <4>1. ps # <<>> /\ i - 1 = Len(ps) /\ i - 1 \in 1..Len(ps)
        BY <1>3, <2>2, <3>3, EmptySeq
      <4>2. qs[i - 1] = ps[Len(ps)]
        BY <1>4, <4>1
      <4> QED
        BY <1>2, <3>1, <3>3, <4>1, <4>2 DEF CursorOf
    <3> QED
      BY <3>2, <3>3
  <2> QED
    BY <1>3, <1>4, <2>1, <2>2
<1>7. Joined(qs)
  BY <1>4, <1>6 DEF Joined
<1>8. CursorOf(qs) = to
  BY <1>2, <1>4, <1>5 DEF CursorOf
<1> QED
  BY <1>4, <1>7, <1>8 DEF p, qs

-----------------------------------------------------------------------------
(* The invariant.                                                          *)

PiecesInv ==
  /\ Joined(pieces) /\ Cursor <= Len(text) + 1
  /\ \A f \in clean : Cursor <= f.from
  /\ pc \in {"scan", "normalize"} => pieces = <<>>
  /\ pc = "done" => clean = {} /\ pieces # <<>> /\ Cursor = Len(text) + 1

AllNested ==
  /\ Nested(Findings(text))
  /\ \A f \in Findings(text) : ShouldSeal(f.confidence, mode)

Replacing(f) == \E j \in 1..Len(pieces) : pieces[j].sealed /\ Within(f, pieces[j])

\* Where findings only nest, each that was looked at is within one that is kept or replaced.
CoverInv ==
  pc \in {"normalize", "replace", "done"} /\ AllNested =>
    \A f \in Findings(text) : f \in rest \/ (\E g \in clean : Within(f, g)) \/ Replacing(f)

SealInv ==
  /\ text \in Seq(Lexeme)
  /\ rest \subseteq Findings(text) /\ clean \subseteq Findings(text) /\ Disjoint(clean)
  /\ \A f \in clean, g \in rest : f.from <= g.from
  /\ pc = "scan" => clean = {}
  /\ pc \in {"replace", "done"} => rest = {}
  /\ PiecesInv /\ CoverInv

LEMMA TextIs ==
  ASSUME SealInv
  PROVE  /\ Len(text) \in Nat /\ Cursor = CursorOf(pieces) /\ Cursor \in Nat
         /\ \A f \in Findings(text) : Stretch(f, text)
<1>1. Joined(pieces) /\ text \in Seq(Lexeme)
  BY DEF SealInv, PiecesInv
<1>2. Cursor = CursorOf(pieces)
  BY DEF Cursor, CursorOf
<1> QED
  BY <1>1, <1>2, CursorIs, LenProperties, FindingsAre

LEMMA SealBegins ==
  SealInit => SealInv
<1> SUFFICES ASSUME SealInit PROVE SealInv
  OBVIOUS
<1>1. text \in Seq(Lexeme) /\ Len(text) \in Nat
  BY SealAssumption, LenProperties DEF SealInit
<1>2. pc = "scan" /\ rest = {} /\ clean = {} /\ pieces = <<>>
  BY DEF SealInit
<1>3. Joined(<<>>)
  BY EmptySeq DEF Joined
<1>4. PiecesInv
  BY <1>1, <1>2, <1>3 DEF PiecesInv, Cursor
<1>5. CoverInv
  BY <1>2 DEF CoverInv
<1> QED
  BY <1>1, <1>2, <1>4, <1>5 DEF SealInv, Disjoint

LEMMA ScanKeeps ==
  ASSUME SealInv, Scan
  PROVE  SealInv'
<1>1. pc = "scan" /\ UNCHANGED <<text, mode, clean, pieces>> /\ clean = {} /\ pieces = <<>>
  BY DEF Scan, SealInv, PiecesInv
<1>2. \/ pc' = "panicked" /\ rest' = rest
      \/ pc' = "normalize" /\ rest' = Findings(text)
  BY DEF Scan
<1>3. Cursor' = Cursor
  BY <1>1 DEF Cursor
<1>4. PiecesInv'
  BY <1>1, <1>2, <1>3 DEF SealInv, PiecesInv
<1>5. CoverInv'
  BY <1>1, <1>2 DEF CoverInv
<1> QED
  BY <1>1, <1>2, <1>4, <1>5 DEF SealInv, Disjoint

LEMMA NormalizeKeeps ==
  ASSUME SealInv, Normalize
  PROVE  SealInv'
<1> DEFINE f == FirstOf(rest)
<1>1. /\ pc = "normalize" /\ rest # {} /\ rest' = rest \ {f} /\ clean' = Kept(f, clean)
      /\ UNCHANGED <<text, mode, pc, pieces>>
  BY DEF Normalize
<1>2. f \in rest /\ f \in Findings(text) /\ \A g \in rest : f.from <= g.from
  BY <1>1, FirstOfIs DEF SealInv
<1> HIDE DEF f
<1>3. \A g \in clean : g.from <= f.from
  BY <1>2 DEF SealInv
<1>4. /\ clean' \subseteq clean \cup {f} /\ Disjoint(clean')
      /\ Nested(Findings(text)) => \A g \in clean \cup {f} : \E h \in clean' : Within(g, h)
  BY <1>1, <1>2, <1>3, KeptIs DEF SealInv
<1>5. \A g \in clean', h \in rest' : g.from <= h.from
  BY <1>1, <1>2, <1>4 DEF SealInv
<1>6. Cursor' = Cursor /\ Cursor = 1 /\ pieces = <<>>
  BY <1>1 DEF Cursor, SealInv, PiecesInv
<1>7. \A g \in clean' : 1 <= g.from
  BY <1>2, <1>4, TextIs DEF SealInv, Stretch
<1>8. PiecesInv'
  BY <1>1, <1>6, <1>7 DEF SealInv, PiecesInv
<1>9. CoverInv'
  <2> SUFFICES ASSUME AllNested', NEW g \in Findings(text), g \notin rest'
               PROVE  \E h \in clean' : Within(g, h)
    BY <1>1 DEF CoverInv
  <2>1. AllNested
    BY <1>1 DEF AllNested
  <2>2. ~Replacing(g)
    <3>1. Len(pieces) = 0
      BY <1>6, EmptySeq
    <3> QED
      BY <3>1 DEF Replacing
  <2>3. CASE g = f
    BY <1>4, <2>1, <2>3 DEF AllNested
  <2>4. CASE g # f
    <3>1. PICK h \in clean : Within(g, h)
      BY <1>1, <2>1, <2>2, <2>4 DEF SealInv, CoverInv
    <3>2. PICK k \in clean' : Within(h, k)
      BY <1>4, <2>1 DEF AllNested
    <3>3. Stretch(g, text) /\ Stretch(h, text) /\ Stretch(k, text)
      BY <1>2, <1>4, TextIs DEF SealInv
    <3> QED
      BY <3>1, <3>2, <3>3 DEF Within, Stretch
  <2> QED
    BY <2>3, <2>4
<1> QED
  BY <1>1, <1>2, <1>4, <1>5, <1>8, <1>9 DEF SealInv

LEMMA FilterKeeps ==
  ASSUME SealInv, Filter
  PROVE  SealInv'
<1>1. /\ pc = "normalize" /\ rest = {} /\ clean' = {f \in clean : ShouldSeal(f.confidence, mode)}
      /\ pc' = "replace" /\ UNCHANGED <<text, mode, rest, pieces>>
  BY DEF Filter
<1>2. clean' \subseteq clean /\ Disjoint(clean')
  BY <1>1 DEF SealInv, Disjoint
<1>3. Cursor' = Cursor
  BY <1>1 DEF Cursor
<1>4. PiecesInv'
  BY <1>1, <1>2, <1>3 DEF SealInv, PiecesInv
<1>5. CoverInv'
  <2> SUFFICES ASSUME AllNested', NEW g \in Findings(text)
               PROVE  (\E h \in clean' : Within(g, h)) \/ Replacing(g)'
    BY <1>1 DEF CoverInv
  <2>1. AllNested
    BY <1>1 DEF AllNested
  <2>2. clean' = clean
    BY <1>1, <2>1 DEF AllNested, SealInv
  <2>3. Replacing(g)' <=> Replacing(g)
    BY <1>1 DEF Replacing
  <2> QED
    BY <1>1, <2>1, <2>2, <2>3 DEF SealInv, CoverInv
<1> QED
  BY <1>1, <1>2, <1>4, <1>5 DEF SealInv

LEMMA ReplaceKeeps ==
  ASSUME SealInv, Replace
  PROVE  SealInv'
<1> DEFINE f == FirstOf(clean)
           copied == Piece(Cursor, f.from, FALSE)
           handle == Piece(f.from, f.to, TRUE)
           ps == Append(pieces, copied)
           qs == Append(ps, handle)
<1>1. /\ pc = "replace" /\ clean # {} /\ clean' = clean \ {f}
      /\ pieces' = pieces \o <<copied, handle>>
      /\ UNCHANGED <<text, mode, pc, rest>>
  BY DEF Replace, Replaced
<1>2. f \in clean /\ Stretch(f, text) /\ \A g \in clean : f.from <= g.from /\ Stretch(g, text)
  BY <1>1, FirstOfIs, TextIs DEF SealInv
<1>3. Joined(pieces) /\ Cursor = CursorOf(pieces) /\ Cursor \in Nat /\ Cursor <= f.from
  BY <1>2, TextIs DEF SealInv, PiecesInv
<1> HIDE DEF f
<1>4. f.from \in Nat /\ f.to \in Nat /\ f.from <= f.to /\ f.to <= Len(text) + 1
  BY <1>2, TextIs DEF Stretch
<1>5. /\ Joined(ps) /\ CursorOf(ps) = f.from /\ Len(ps) = Len(pieces) + 1
      /\ \A i \in 1..Len(pieces) : ps[i] = pieces[i]
  BY <1>3, <1>4, JoinedGrows
<1> HIDE DEF ps
<1>6. /\ Joined(qs) /\ CursorOf(qs) = f.to /\ Len(qs) = Len(ps) + 1 /\ qs[Len(qs)] = handle
      /\ \A i \in 1..Len(ps) : qs[i] = ps[i]
  <2>1. handle = Piece(CursorOf(ps), f.to, TRUE)
    BY <1>5
  <2> HIDE DEF handle
  <2> QED
    BY <1>4, <1>5, <2>1, JoinedGrows
<1>7. pieces' = qs
  <2>1. pieces \in Seq(Stretches) /\ copied \in Stretches /\ handle \in Stretches
    BY <1>3, <1>4 DEF Joined, Piece, Stretches
  <2> HIDE DEF copied, handle
  <2> QED
    BY <1>1, <2>1 DEF ps
<1> HIDE DEF qs
<1>8. Len(pieces) \in Nat /\ Len(qs) = Len(pieces) + 2
      /\ \A i \in 1..Len(pieces) : qs[i] = pieces[i]
  BY <1>3, <1>5, <1>6, LenProperties DEF Joined
<1>9. Cursor' = f.to
  BY <1>6, <1>7 DEF Cursor, CursorOf
<1>10. \A g \in clean' : f.to <= g.from
  <2> SUFFICES ASSUME NEW g \in clean, g # f PROVE f.to <= g.from
    BY <1>1
  <2>1. f.to <= g.from \/ g.to <= f.from
    BY <1>2 DEF SealInv, Disjoint
  <2> QED
    BY <1>2, <2>1 DEF Stretch
<1>11. PiecesInv'
  BY <1>1, <1>4, <1>6, <1>7, <1>9, <1>10 DEF PiecesInv
<1>12. CoverInv'
  <2> SUFFICES ASSUME AllNested', NEW g \in Findings(text)
               PROVE  (\E h \in clean' : Within(g, h)) \/ Replacing(g)'
    BY <1>1 DEF CoverInv
  <2>1. AllNested
    BY <1>1 DEF AllNested
  <2>2. (\E h \in clean : Within(g, h)) \/ Replacing(g)
    BY <1>1, <2>1 DEF SealInv, CoverInv
  <2>3. CASE Replacing(g)
    <3>1. PICK j \in 1..Len(pieces) : pieces[j].sealed /\ Within(g, pieces[j])
      BY <2>3 DEF Replacing
    <3>2. j \in 1..Len(pieces') /\ pieces'[j] = pieces[j]
      BY <1>7, <1>8
    <3> QED
      BY <3>1, <3>2 DEF Replacing
  <2>4. CASE \E h \in clean : Within(g, h)
    <3>1. PICK h \in clean : Within(g, h)
      BY <2>4
    <3>2. CASE h = f
      <4>1. Len(qs) \in 1..Len(pieces') /\ pieces'[Len(qs)] = handle
        <5>1. Len(qs) \in 1..Len(qs)
          BY <1>8
        <5> HIDE DEF handle
        <5> QED
          BY <1>6, <1>7, <5>1
      <4>2. handle.sealed /\ Within(g, handle)
        BY <3>1, <3>2 DEF Within, Piece
      <4> QED
        BY <4>1, <4>2 DEF Replacing
    <3>3. CASE h # f
      BY <1>1, <3>1, <3>3
    <3> QED
      BY <3>2, <3>3
  <2> QED
    BY <2>2, <2>3, <2>4
<1>13. Disjoint(clean') /\ clean' \subseteq clean
  BY <1>1 DEF SealInv, Disjoint
<1> QED
  BY <1>1, <1>11, <1>12, <1>13 DEF SealInv

LEMMA FinishKeeps ==
  ASSUME SealInv, Finish
  PROVE  SealInv'
<1> DEFINE qs == Append(pieces, Piece(Cursor, Len(text) + 1, FALSE))
<1>1. /\ pc = "replace" /\ clean = {} /\ pieces' = qs /\ pc' = "done"
      /\ UNCHANGED <<text, mode, rest, clean>>
  BY DEF Finish
<1>2. Joined(pieces) /\ Cursor = CursorOf(pieces) /\ Cursor <= Len(text) + 1 /\ Len(text) + 1 \in Nat
  BY TextIs DEF SealInv, PiecesInv
<1>3. /\ Joined(qs) /\ CursorOf(qs) = Len(text) + 1 /\ Len(qs) = Len(pieces) + 1
      /\ \A i \in 1..Len(pieces) : qs[i] = pieces[i]
  BY <1>2, JoinedGrows
<1> HIDE DEF qs
<1>4. Cursor' = Len(text) + 1
  BY <1>1, <1>3 DEF Cursor, CursorOf
<1>5. PiecesInv'
  BY <1>1, <1>2, <1>3, <1>4 DEF PiecesInv
<1>6. CoverInv'
  <2> SUFFICES ASSUME AllNested', NEW g \in Findings(text)
               PROVE  Replacing(g)'
    BY <1>1 DEF CoverInv
  <2>1. AllNested
    BY <1>1 DEF AllNested
  <2>2. Replacing(g)
    BY <1>1, <2>1 DEF SealInv, CoverInv
  <2>3. PICK j \in 1..Len(pieces) : pieces[j].sealed /\ Within(g, pieces[j])
    BY <2>2 DEF Replacing
  <2>4. Len(pieces) \in Nat
    BY <1>2, LenProperties DEF Joined
  <2>5. j \in 1..Len(pieces') /\ pieces'[j] = pieces[j]
    BY <1>1, <1>3, <2>4
  <2> QED
    BY <2>3, <2>5 DEF Replacing
<1> QED
  BY <1>1, <1>5, <1>6 DEF SealInv

LEMMA SealKeeps ==
  SealInv /\ [SealNext]_sealVars => SealInv'
<1> SUFFICES ASSUME SealInv, [SealNext]_sealVars PROVE SealInv'
  OBVIOUS
<1>1. CASE UNCHANGED sealVars
  <2>1. PiecesInv' /\ CoverInv'
    BY <1>1 DEF SealInv, sealVars, PiecesInv, CoverInv, Cursor, AllNested, Replacing
  <2> QED
    BY <1>1, <2>1 DEF SealInv, sealVars
<1> QED
  BY <1>1, ScanKeeps, NormalizeKeeps, FilterKeeps, ReplaceKeeps, FinishKeeps DEF SealNext

LEMMA SealHolds ==
  SealSpec => []SealInv
<1> QED
  BY SealBegins, SealKeeps, PTL DEF SealSpec

-----------------------------------------------------------------------------
(* The properties.                                                         *)

LEMMA InOrder ==
  SealInv => KeptInOrder
<1> SUFFICES ASSUME SealInv PROVE KeptInOrder
  OBVIOUS
<1>1. \A f, g \in clean : f # g => f.to <= g.from \/ g.to <= f.from
  BY DEF SealInv, Disjoint
<1>2. \A f \in clean : Cursor <= f.from
  BY DEF SealInv, PiecesInv
<1>3. \A f \in clean : f.from <= f.to /\ f.to <= Len(text) + 1
  BY TextIs DEF SealInv, Stretch
<1> QED
  BY <1>1, <1>2, <1>3 DEF KeptInOrder

LEMMA NoneLost ==
  SealInv => NothingIsLost
<1> SUFFICES ASSUME SealInv PROVE NothingIsLost
  OBVIOUS
<1>1. Joined(pieces) /\ (pc = "done" => pieces # <<>> /\ Cursor = Len(text) + 1)
  BY DEF SealInv, PiecesInv
<1>2. ASSUME pc = "done" PROVE pieces[Len(pieces)].to = Len(text) + 1
  BY <1>1, <1>2 DEF Cursor
<1> QED
  BY <1>1, <1>2 DEF NothingIsLost, Joined

LEMMA NestedHidden ==
  SealInv => NestedAreHidden
<1> SUFFICES ASSUME SealInv, pc = "done", AllNested,
                    NEW f \in Findings(text), NEW i \in f.from..(f.to - 1)
             PROVE  Sealed(i)
  BY DEF NestedAreHidden, AllNested, Nested
<1>1. PICK j \in 1..Len(pieces) : pieces[j].sealed /\ Within(f, pieces[j])
  BY DEF SealInv, PiecesInv, CoverInv, Replacing
<1>2. pieces[j].from \in Nat /\ pieces[j].to \in Nat /\ f.from \in Nat /\ f.to \in Nat
  <2>1. pieces[j] \in Stretches
    BY ElementOfSeq DEF SealInv, PiecesInv, Joined
  <2> QED
    BY <2>1, TextIs DEF Stretches, Stretch
<1>3. i \in pieces[j].from..(pieces[j].to - 1)
  BY <1>1, <1>2 DEF Within
<1> QED
  BY <1>1, <1>3 DEF Sealed

\* replace_with_handles slices the text between findings: whatever the text, its findings
\* and the options, no slice is out of range.
THEOREM AlwaysInOrder ==
  SealSpec => []KeptInOrder
<1> QED
  BY InOrder, SealHolds, PTL

\* ... and its output is the text with handles in it, nothing left out or twice.
THEOREM NothingIsEverLost ==
  SealSpec => []NothingIsLost
<1> QED
  BY NoneLost, SealHolds, PTL

\* normalize_findings and should_seal: where findings only nest and the options seal them all,
\* no part of a finding is left in the output.
THEOREM NestedAreAlwaysHidden ==
  SealSpec => []NestedAreHidden
<1> QED
  BY NestedHidden, SealHolds, PTL

-----------------------------------------------------------------------------
(* Induction up to a number, over a set, and functions defined that way.   *)

\* Induction, with the set of the numbers that a claim holds of in place of the claim.
LEMMA UpToAll ==
  ASSUME NEW n \in Nat, NEW S \in SUBSET (0..n), 0 \in S,
         \A i \in 1..n : i - 1 \in S => i \in S
  PROVE  S = 0..n
<1> SUFFICES ASSUME S # 0..n PROVE FALSE
  OBVIOUS
<1> DEFINE T == (0..n) \ S
<1>1. T \in SUBSET Nat /\ T # {}
  <2>1. \A i \in T : i \in Nat
    OBVIOUS
  <2>2. \E i \in 0..n : i \notin S
    OBVIOUS
  <2> QED
    BY <2>1, <2>2
<1>2. PICK a \in T : \A b \in T : a <= b
  <2> HIDE DEF T
  <2> QED
    BY <1>1, LeastExists
<1>3. a \in 1..n /\ a - 1 \in 0..n /\ ~(a <= a - 1)
  BY <1>2
<1> QED
  BY <1>2, <1>3

Follows(f, n, a, step) == f[0] = a /\ \A i \in 1..n : f[i] = step[i][f[i - 1]]

LEMMA FunctionExists ==
  ASSUME NEW n \in Nat, NEW S, NEW a \in S, NEW step \in [1..n -> [S -> S]]
  PROVE  \E f \in [0..n -> S] : Follows(f, n, a, step)
<1> DEFINE Fits(k, f) == f[0] = a /\ \A i \in 1..k : f[i] = step[i][f[i - 1]]
           G == {k \in 0..n : \E f \in [0..k -> S] : Fits(k, f)}
<1>1. 0 \in G
  <2> DEFINE f == [i \in 0..0 |-> a]
  <2>1. f \in [0..0 -> S] /\ Fits(0, f)
    OBVIOUS
  <2> HIDE DEF f, Fits
  <2> QED
    BY <2>1
<1>2. ASSUME NEW k \in 1..n, k - 1 \in G PROVE k \in G
  <2>1. PICK f \in [0..(k - 1) -> S] : Fits(k - 1, f)
    BY <1>2
  <2> DEFINE last == step[k][f[k - 1]]
             g == [i \in 0..k |-> IF i = k THEN last ELSE f[i]]
  <2>2. last \in S
    <3>1. f[k - 1] \in S /\ step[k] \in [S -> S]
      OBVIOUS
    <3> QED
      BY <3>1
  <2>3. g \in [0..k -> S]
    BY <2>2
  <2>4. \A i \in 0..(k - 1) : g[i] = f[i]
    OBVIOUS
  <2>5. g[k] = step[k][g[k - 1]]
    <3>1. g[k] = last /\ k - 1 \in 0..(k - 1)
      OBVIOUS
    <3> HIDE DEF g
    <3>2. g[k - 1] = f[k - 1]
      BY <2>4, <3>1
    <3> QED
      BY <3>1, <3>2
  <2>6. \A i \in 1..(k - 1) : g[i] = step[i][g[i - 1]]
    <3> HIDE DEF g
    <3> QED
      BY <2>1, <2>4
  <2>7. Fits(k, g)
    <3> HIDE DEF g
    <3>1. g[0] = a
      BY <2>1, <2>4
    <3>2. \A i \in 1..k : i = k \/ i \in 1..(k - 1)
      OBVIOUS
    <3> QED
      BY <2>5, <2>6, <3>1, <3>2
  <2> HIDE DEF g, Fits
  <2> QED
    BY <2>3, <2>7
<1>3. G = 0..n
  <2>1. G \in SUBSET (0..n)
    OBVIOUS
  <2> HIDE DEF G
  <2> QED
    BY <1>1, <1>2, <2>1, UpToAll
<1>4. n \in G
  BY <1>3
<1> QED
  BY <1>4 DEF Follows

\* FlattenSeq: what the sequences up to each are together.
LEMMA FlattenIs ==
  ASSUME NEW S, NEW seqs \in Seq(Seq(S))
  PROVE  \E f \in [0..Len(seqs) -> Seq(S)] :
           /\ f[0] = <<>> /\ FlattenSeq(seqs) = f[Len(seqs)]
           /\ \A i \in 1..Len(seqs) : f[i] = f[i - 1] \o seqs[i]
<1> DEFINE n == Len(seqs)
           step == [i \in 1..n |-> [c \in Seq(S) |-> c \o seqs[i]]]
           Is(f) == f = [i \in 1..n |-> IF i = 1 THEN seqs[i] ELSE f[i - 1] \o seqs[i]]
<1>1. n \in Nat /\ <<>> \in Seq(S) /\ \A i \in 1..n : seqs[i] \in Seq(S)
  BY LenProperties, ElementOfSeq, EmptySeq
<1>2. \A i \in 1..n : \A c \in Seq(S) : c \o seqs[i] \in Seq(S)
  BY <1>1, ConcatProperties
<1>3. step \in [1..n -> [Seq(S) -> Seq(S)]]
  BY <1>2
<1>4. \A i \in 1..n : \A c \in Seq(S) : step[i][c] = c \o seqs[i]
  OBVIOUS
<1> HIDE DEF step
<1>5. PICK f \in [0..n -> Seq(S)] : Follows(f, n, <<>>, step)
  BY <1>1, <1>3, FunctionExists
<1>6. \A i \in 1..n : f[i] = f[i - 1] \o seqs[i] /\ f[i - 1] \in Seq(S)
  <2> TAKE i \in 1..n
  <2>1. i - 1 \in 0..n
    BY <1>1
  <2> QED
    BY <1>4, <1>5, <2>1 DEF Follows
<1>7. f[0] = <<>>
  BY <1>5 DEF Follows
<1>8. CASE n = 0
  <2>1. FlattenSeq(seqs) = seqs
    BY <1>8, Zenon DEF FlattenSeq
  <2>2. seqs = <<>>
    BY <1>8, EmptySeq
  <2> QED
    BY <1>6, <1>7, <1>8, <2>1, <2>2
<1>9. CASE n # 0
  <2>1. FlattenSeq(seqs) = (CHOOSE g : Is(g))[n]
    BY <1>9, Zenon DEF FlattenSeq
  <2>2. f[1] = seqs[1]
    <3>1. 1 \in 1..n /\ 1 - 1 = 0
      BY <1>1, <1>9
    <3>2. f[1] = <<>> \o seqs[1]
      BY <1>6, <1>7, <3>1
    <3> QED
      BY <1>1, <3>1, <3>2, ConcatEmptySeq
  <2> DEFINE h == [i \in 1..n |-> f[i]]
  <2>3. Is(h)
    <3>1. \A i \in 1..n : i # 1 => i - 1 \in 1..n /\ h[i - 1] = f[i - 1]
      BY <1>1
    <3>2. \A i \in 1..n : h[i] = IF i = 1 THEN seqs[i] ELSE h[i - 1] \o seqs[i]
      BY <1>6, <2>2, <3>1
    <3> QED
      BY <3>2
  <2> HIDE DEF Is
  <2> DEFINE g == CHOOSE x : Is(x)
  <2>4. Is(g)
    BY <2>3, Zenon
  <2> HIDE DEF g
  <2>5. \A i \in 1..n : g[i] = IF i = 1 THEN seqs[i] ELSE g[i - 1] \o seqs[i]
    <3>1. g = [i \in 1..n |-> IF i = 1 THEN seqs[i] ELSE g[i - 1] \o seqs[i]]
      BY <2>4 DEF Is
    <3> QED
      BY <3>1
  <2> DEFINE T == {i \in 0..n : i = 0 \/ g[i] = f[i]}
  <2>6. T = 0..n
    <3>1. 0 \in T
      BY <1>1
    <3>2. ASSUME NEW i \in 1..n, i - 1 \in T PROVE i \in T
      <4>1. ASSUME i # 1 PROVE g[i] = f[i]
        <5>1. g[i - 1] = f[i - 1]
          BY <3>2, <4>1
        <5>2. g[i] = g[i - 1] \o seqs[i] /\ f[i] = f[i - 1] \o seqs[i]
          BY <1>6, <2>5, <4>1
        <5> QED
          BY <5>1, <5>2
      <4>2. g[i] = f[i]
        BY <2>2, <2>5, <4>1
      <4> QED
        BY <4>2
    <3>3. T \in SUBSET (0..n)
      OBVIOUS
    <3> HIDE DEF T
    <3> QED
      BY <1>1, <3>1, <3>2, <3>3, UpToAll
  <2>7. g[n] = f[n]
    <3>1. n \in 0..n
      BY <1>1
    <3>2. n \in T
      BY <2>6, <3>1
    <3>3. n = 0 \/ g[n] = f[n]
      BY <3>2
    <3> QED
      BY <1>9, <3>3
  <2>8. FlattenSeq(seqs) = g[n]
    BY <2>1 DEF g
  <2> QED
    BY <1>6, <1>7, <2>7, <2>8
<1> QED
  BY <1>8, <1>9

-----------------------------------------------------------------------------
(* Slices of a sequence: from a place up to, and without, another.         *)

Slice(s, from, to) == SubSeq(s, from, to - 1)

Bounds(S, s, from, to) ==
  s \in Seq(S) /\ from \in Nat /\ to \in Nat /\ 1 <= from /\ from <= to /\ to <= Len(s) + 1

Sliced(S, s, from, to) ==
  /\ Slice(s, from, to) \in Seq(S) /\ Len(Slice(s, from, to)) = to - from
  /\ \A i \in 1..(to - from) : Slice(s, from, to)[i] = s[from + i - 1]

LEMMA SliceIs ==
  ASSUME NEW S, NEW s, NEW from, NEW to, Bounds(S, s, from, to)
  PROVE  Sliced(S, s, from, to)
<1> DEFINE t == SubSeq(s, from, to - 1)
<1>0. /\ s \in Seq(S) /\ from \in Nat /\ to \in Nat /\ 1 <= from /\ from <= to
      /\ to <= Len(s) + 1 /\ Len(s) \in Nat
  BY LenProperties DEF Bounds
<1>1. from \in Int /\ to - 1 \in Int /\ \A i \in from..(to - 1) : s[i] \in S
  BY <1>0, ElementOfSeq
<1>2. /\ t \in Seq(S) /\ Len(t) = IF from <= to - 1 THEN (to - 1) - from + 1 ELSE 0
      /\ \A i \in 1..((to - 1) - from + 1) : t[i] = s[from + i - 1]
  BY <1>1, SubSeqProperties
<1> HIDE DEF t
<1>3. Len(t) = to - from /\ (to - 1) - from + 1 = to - from
  BY <1>0, <1>2
<1> QED
  BY <1>2, <1>3 DEF Slice, Sliced, t

LEMMA SliceFull ==
  ASSUME NEW S, NEW s \in Seq(S)
  PROVE  Slice(s, 1, Len(s) + 1) = s
<1>1. Len(s) \in Nat /\ (Len(s) + 1) - 1 = Len(s)
  BY LenProperties
<1> QED
  BY <1>1, SubSeqFull DEF Slice

\* Two slices with the same elements.
LEMMA SliceEqual ==
  ASSUME NEW S, NEW s, NEW from, NEW to, Bounds(S, s, from, to),
         NEW t, NEW i, NEW j, Bounds(S, t, i, j), to - from = j - i,
         \A k \in 0..(to - from - 1) : s[from + k] = t[i + k]
  PROVE  Slice(s, from, to) = Slice(t, i, j)
<1>1. /\ Slice(s, from, to) \in Seq(S) /\ Len(Slice(s, from, to)) = to - from
      /\ \A k \in 1..(to - from) : Slice(s, from, to)[k] = s[from + k - 1]
  BY SliceIs DEF Sliced
<1>2. /\ Slice(t, i, j) \in Seq(S) /\ Len(Slice(t, i, j)) = to - from
      /\ \A k \in 1..(to - from) : Slice(t, i, j)[k] = t[i + k - 1]
  BY SliceIs DEF Sliced
<1>3. from \in Nat /\ to \in Nat /\ i \in Nat
  BY DEF Bounds
<1>4. \A k \in 1..(to - from) : Slice(s, from, to)[k] = Slice(t, i, j)[k]
  <2> TAKE k \in 1..(to - from)
  <2>1. k - 1 \in 0..(to - from - 1) /\ from + k - 1 = from + (k - 1) /\ i + k - 1 = i + (k - 1)
    BY <1>3
  <2> QED
    BY <1>1, <1>2, <2>1
<1> QED
  BY <1>1, <1>2, <1>4, SeqEqual

LEMMA SliceOfSlice ==
  ASSUME NEW S, NEW s, NEW from, NEW to, Bounds(S, s, from, to),
         NEW x, NEW y, Bounds(S, s, x, y), from <= x, y <= to,
         NEW i, NEW j, i = x - from + 1, j = y - from + 1
  PROVE  Slice(Slice(s, from, to), i, j) = Slice(s, x, y)
<1>0. /\ s \in Seq(S) /\ from \in Nat /\ to \in Nat /\ 1 <= from /\ from <= to
      /\ to <= Len(s) + 1 /\ Len(s) \in Nat
      /\ x \in Nat /\ y \in Nat /\ x <= y /\ i \in Nat /\ j \in Nat
  BY LenProperties DEF Bounds
<1>1. /\ Slice(s, from, to) \in Seq(S) /\ Len(Slice(s, from, to)) = to - from
      /\ \A k \in 1..(to - from) : Slice(s, from, to)[k] = s[from + k - 1]
  BY SliceIs DEF Sliced
<1>2. Bounds(S, Slice(s, from, to), i, j)
  BY <1>0, <1>1 DEF Bounds
<1>4. j - i = y - x
  BY <1>0
<1>5. \A k \in 0..(j - i - 1) : Slice(s, from, to)[i + k] = s[x + k]
  <2> TAKE k \in 0..(j - i - 1)
  <2>1. i + k \in 1..(to - from) /\ from + (i + k) - 1 = x + k
    BY <1>0
  <2> QED
    BY <1>1, <2>1
<1> QED
  BY <1>2, <1>4, <1>5, SliceEqual

-----------------------------------------------------------------------------
(* The characters of a file, its lines and what Trim leaves of one.        *)

FileChar == [sealed : BOOLEAN, is : Seq(Lexeme)]

LEMMA CharIs ==
  /\ \A a, b : Char(a) = Char(b) <=> a = b
  /\ \A a : Char(a).sealed = FALSE
  /\ \A a \in Lexeme : Char(a) \in FileChar
<1>1. \A a : Char(a).is[1] = a /\ Char(a).sealed = FALSE
  BY DEF Char
<1>2. \A a, b : Char(a) = Char(b) => a = b
  BY <1>1
<1>3. \A a \in Lexeme : Char(a) \in FileChar
  BY DEF Char, FileChar
<1> QED
  BY <1>1, <1>2, <1>3

LEMMA CharsIs ==
  ASSUME NEW t \in Seq(Lexeme)
  PROVE  /\ Chars(t) \in Seq(FileChar) /\ Len(Chars(t)) = Len(t) /\ Len(t) \in Nat
         /\ \A i \in 1..Len(t) : Chars(t)[i] = Char(t[i]) /\ t[i] \in Lexeme
<1>1. Len(t) \in Nat /\ DOMAIN t = 1..Len(t) /\ \A i \in 1..Len(t) : t[i] \in Lexeme
  BY LenProperties, ElementOfSeq
<1>2. Chars(t) = [i \in 1..Len(t) |-> Char(t[i])]
  BY <1>1 DEF Chars
<1>3. \A i \in 1..Len(t) : Char(t[i]) \in FileChar
  BY <1>1, CharIs
<1> QED
  BY <1>1, <1>2, <1>3, IsASeq

\* c stands first at q, or not at all when q is the end
First(s, c, q) ==
  /\ q \in Nat /\ 1 <= q /\ q <= Len(s) + 1
  /\ q <= Len(s) => s[q] = c
  /\ \A i \in 1..(q - 1) : s[i] # c

LEMMA UpToIs ==
  ASSUME NEW S, NEW s \in Seq(S), NEW c, NEW q, First(s, c, q)
  PROVE  /\ UpTo(s, Places(s, c)) = Slice(s, 1, q)
         /\ Places(s, c) # {} <=> q <= Len(s)
<1> DEFINE P == Places(s, c)
           m == CHOOSE i \in P : \A j \in P : i <= j
<1>0. Len(s) \in Nat /\ DOMAIN s = 1..Len(s)
  BY LenProperties
<1>1. P = {i \in 1..Len(s) : s[i] = c}
  BY <1>0 DEF Places
<1> HIDE DEF P
<1>2. CASE q <= Len(s)
  <2>1. q \in P /\ \A j \in P : q <= j
    BY <1>0, <1>1, <1>2 DEF First
  <2>2. m \in P /\ \A j \in P : m <= j
    BY <2>1
  <2>3. m = q
    BY <1>0, <1>1, <2>1, <2>2 DEF First
  <2> QED
    BY <1>2, <2>1, <2>3 DEF UpTo, Slice, P
<1>3. CASE ~(q <= Len(s))
  <2>1. q = Len(s) + 1 /\ P = {}
    BY <1>0, <1>1, <1>3 DEF First
  <2>2. UpTo(s, P) = s
    BY <2>1 DEF UpTo
  <2> QED
    BY <1>3, <2>1, <2>2, SliceFull DEF P
<1> QED
  BY <1>2, <1>3

\* The line that begins at b ends at e.
Line(file, b, e) ==
  /\ Bounds(FileChar, file, b, e)
  /\ e <= Len(file) => file[e] = Char("nl")
  /\ \A i \in b..(e - 1) : file[i] # Char("nl")

LEMMA LineAtIs ==
  ASSUME NEW file, NEW b, NEW e, Line(file, b, e)
  PROVE  LineAt(file, b) = Slice(file, b, e)
<1> DEFINE n == Len(file)
           tail == Slice(file, b, n + 1)
<1>0. /\ file \in Seq(FileChar) /\ n \in Nat /\ b \in Nat /\ e \in Nat /\ 1 <= b /\ b <= e
      /\ e <= n + 1
  BY LenProperties DEF Line, Bounds
<1>1. Bounds(FileChar, file, b, n + 1)
  BY <1>0 DEF Bounds
<1>2. tail = SubSeq(file, b, n)
  <2>1. (n + 1) - 1 = n
    BY <1>0
  <2> QED
    BY <2>1 DEF Slice
<1>3. /\ tail \in Seq(FileChar) /\ Len(tail) = n + 1 - b
      /\ \A i \in 1..(n + 1 - b) : tail[i] = file[b + i - 1]
  <2>1. Sliced(FileChar, file, b, n + 1)
    BY <1>1, SliceIs
  <2> QED
    BY <1>0, <2>1 DEF Sliced
<1> HIDE DEF tail, n
<1>4. First(tail, Char("nl"), e - b + 1)
  <2>1. e - b + 1 \in Nat /\ 1 <= e - b + 1 /\ e - b + 1 <= Len(tail) + 1
    BY <1>0, <1>3
  <2>2. ASSUME e - b + 1 <= Len(tail) PROVE tail[e - b + 1] = Char("nl")
    <3>1. e - b + 1 \in 1..(n + 1 - b) /\ b + (e - b + 1) - 1 = e /\ e <= n
      BY <1>0, <1>3, <2>2
    <3> QED
      BY <1>3, <3>1 DEF Line, n
  <2>3. ASSUME NEW i \in 1..((e - b + 1) - 1) PROVE tail[i] # Char("nl")
    <3>1. i \in 1..(n + 1 - b) /\ b + i - 1 \in b..(e - 1)
      BY <1>0
    <3> QED
      BY <1>3, <3>1 DEF Line
  <2> QED
    BY <2>1, <2>2, <2>3 DEF First
<1>5. UpTo(tail, Places(tail, Char("nl"))) = Slice(tail, 1, e - b + 1)
  BY <1>3, <1>4, UpToIs
<1>6. Slice(Slice(file, b, n + 1), 1, e - b + 1) = Slice(file, b, e)
  <2>1. 1 = b - b + 1 /\ b <= b /\ e <= n + 1
    BY <1>0
  <2>2. Bounds(FileChar, file, b, e)
    BY DEF Line
  <2> QED
    BY <1>1, <2>1, <2>2, SliceOfSlice
<1>8. LineAt(file, b) = UpTo(tail, Places(tail, Char("nl")))
  BY <1>2 DEF LineAt, n
<1> QED
  BY <1>5, <1>6, <1>8 DEF tail

LEMMA LineExists ==
  ASSUME NEW file \in Seq(FileChar), NEW b \in 1..(Len(file) + 1)
  PROVE  \E e \in Nat : Line(file, b, e)
<1> DEFINE n == Len(file)
           S == {e \in b..(n + 1) : e <= n => file[e] = Char("nl")}
<1>0. n \in Nat /\ b \in Nat /\ 1 <= b
  BY LenProperties
<1>1. S \in SUBSET Nat /\ n + 1 \in S
  BY <1>0
<1>2. PICK e \in S : \A d \in S : e <= d
  <2> HIDE DEF S
  <2> QED
    BY <1>1, LeastExists
<1>3. e \in Nat /\ b <= e /\ e <= n + 1 /\ (e <= n => file[e] = Char("nl"))
  BY <1>0
<1>4. ASSUME NEW i \in b..(e - 1), file[i] = Char("nl") PROVE FALSE
  <2>1. i \in S /\ ~(e <= i)
    BY <1>0, <1>3, <1>4
  <2> QED
    BY <1>2, <2>1
<1>5. Bounds(FileChar, file, b, e)
  BY <1>0, <1>3 DEF Bounds
<1> QED
  BY <1>3, <1>4, <1>5 DEF Line

\* Of the stretch from b to e there remains, blanks gone, the stretch from p to r.
Trimmed(file, b, p, r, e) ==
  /\ Bounds(FileChar, file, b, e)
  /\ p \in Nat /\ r \in Nat /\ b <= p /\ p <= r /\ r < e
  /\ file[p] # Char(Blank) /\ file[r] # Char(Blank)
  /\ \A i \in b..(p - 1) : file[i] = Char(Blank)
  /\ \A i \in (r + 1)..(e - 1) : file[i] = Char(Blank)

LEMMA TrimIs ==
  ASSUME NEW file, NEW b, NEW p, NEW r, NEW e, Trimmed(file, b, p, r, e)
  PROVE  /\ Trim(Slice(file, b, e)) = Slice(file, p, r + 1)
         /\ Slice(file, p, r + 1) # <<>> /\ Head(Slice(file, p, r + 1)) = file[p]
<1> DEFINE line == Slice(file, b, e)
           solid == {i \in DOMAIN line : line[i] # Char(Blank)}
           least == CHOOSE i \in solid : \A j \in solid : i <= j
           greatest == CHOOSE i \in solid : \A j \in solid : i >= j
<1>0. /\ file \in Seq(FileChar) /\ Len(file) \in Nat /\ b \in Nat /\ e \in Nat /\ 1 <= b
      /\ e <= Len(file) + 1 /\ p \in Nat /\ r \in Nat /\ b <= p /\ p <= r /\ r < e
      /\ Bounds(FileChar, file, b, e)
  BY LenProperties DEF Trimmed, Bounds
<1>1. /\ line \in Seq(FileChar) /\ Len(line) = e - b /\ DOMAIN line = 1..(e - b)
      /\ \A i \in 1..(e - b) : line[i] = file[b + i - 1]
  <2>1. /\ line \in Seq(FileChar) /\ Len(line) = e - b
        /\ \A i \in 1..(e - b) : line[i] = file[b + i - 1]
    <3>1. Sliced(FileChar, file, b, e)
      BY <1>0, SliceIs
    <3> QED
      BY <1>0, <3>1 DEF Sliced
  <2> HIDE DEF line
  <2> QED
    BY <2>1, LenProperties
<1> HIDE DEF line
<1>2. \A i \in 1..(e - b) : i < p - b + 1 => line[i] = Char(Blank)
  <2> SUFFICES ASSUME NEW i \in 1..(e - b), i < p - b + 1 PROVE line[i] = Char(Blank)
    OBVIOUS
  <2>1. b + i - 1 \in b..(p - 1)
    BY <1>0
  <2> QED
    BY <1>1, <2>1 DEF Trimmed
<1>3. \A i \in 1..(e - b) : i > r - b + 1 => line[i] = Char(Blank)
  <2> SUFFICES ASSUME NEW i \in 1..(e - b), i > r - b + 1 PROVE line[i] = Char(Blank)
    OBVIOUS
  <2>1. b + i - 1 \in (r + 1)..(e - 1)
    BY <1>0
  <2> QED
    BY <1>1, <2>1 DEF Trimmed
<1>4. p - b + 1 \in solid /\ r - b + 1 \in solid
  <2>1. /\ p - b + 1 \in 1..(e - b) /\ b + (p - b + 1) - 1 = p
        /\ r - b + 1 \in 1..(e - b) /\ b + (r - b + 1) - 1 = r
    BY <1>0
  <2> QED
    BY <1>1, <2>1 DEF Trimmed
<1>5. \A j \in solid : j \in Nat /\ p - b + 1 <= j /\ j <= r - b + 1
  BY <1>0, <1>1, <1>2, <1>3
<1> HIDE DEF solid
<1>6. least = p - b + 1
  <2>1. least \in solid /\ \A j \in solid : least <= j
    <3>1. \E i \in solid : \A j \in solid : i <= j
      BY <1>4, <1>5
    <3> QED
      BY <3>1
  <2> HIDE DEF least
  <2>2. least \in Nat /\ p - b + 1 <= least /\ least <= p - b + 1
    BY <1>4, <1>5, <2>1
  <2> QED
    BY <1>0, <2>2
<1>7. greatest = r - b + 1
  <2>1. greatest \in solid /\ \A j \in solid : greatest >= j
    <3>1. \E i \in solid : \A j \in solid : i >= j
      BY <1>4, <1>5
    <3> QED
      BY <3>1
  <2> HIDE DEF greatest
  <2>2. greatest \in Nat /\ greatest <= r - b + 1 /\ greatest >= r - b + 1
    BY <1>4, <1>5, <2>1
  <2> QED
    BY <1>0, <2>2
<1>8. Trim(line) = SubSeq(line, p - b + 1, r - b + 1)
  <2>1. Trim(line) = SubSeq(line, least, greatest)
    BY <1>4 DEF Trim, solid
  <2> QED
    BY <1>6, <1>7, <2>1
<1>9. SubSeq(line, p - b + 1, r - b + 1) = Slice(line, p - b + 1, r - b + 2)
  <2>1. (r - b + 2) - 1 = r - b + 1
    BY <1>0
  <2> QED
    BY <2>1 DEF Slice
<1>10. Slice(line, p - b + 1, r - b + 2) = Slice(file, p, r + 1)
  <2>1. ASSUME NEW y, y = r + 1, NEW i, i = p - b + 1, NEW j, j = y - b + 1
        PROVE  Slice(line, i, j) = Slice(file, p, y)
    <3>1. Bounds(FileChar, file, p, y) /\ Bounds(FileChar, file, b, e)
      BY <1>0, <2>1 DEF Bounds
    <3>2. b <= p /\ y <= e
      BY <1>0, <2>1
    <3>3. Slice(Slice(file, b, e), i, j) = Slice(file, p, y)
      BY <2>1, <3>1, <3>2, SliceOfSlice
    <3> QED
      BY <3>3 DEF line
  <2>2. r - b + 2 = (r + 1) - b + 1
    BY <1>0
  <2> QED
    BY <2>1, <2>2
<1>11. Bounds(FileChar, file, p, r + 1)
  BY <1>0 DEF Bounds
<1>12. /\ Slice(file, p, r + 1) \in Seq(FileChar) /\ Len(Slice(file, p, r + 1)) = r + 1 - p
       /\ \A i \in 1..(r + 1 - p) : Slice(file, p, r + 1)[i] = file[p + i - 1]
  <2>1. Sliced(FileChar, file, p, r + 1)
    BY <1>11, SliceIs
  <2> QED
    BY <1>0, <2>1 DEF Sliced
<1>13. 1 \in 1..(r + 1 - p) /\ p + 1 - 1 = p /\ r + 1 - p # 0
  BY <1>0
<1>14. Slice(file, p, r + 1) # <<>> /\ Head(Slice(file, p, r + 1)) = file[p]
  <2>1. ASSUME NEW s \in Seq(FileChar), Len(s) # 0 PROVE s # <<>> /\ Head(s) = s[1]
    BY <2>1
  <2> QED
    BY <1>12, <1>13, <2>1
<1> QED
  BY <1>8, <1>9, <1>10, <1>14 DEF line

LEMMA TrimBlank ==
  ASSUME NEW file, NEW b, NEW e, Bounds(FileChar, file, b, e),
         \A i \in b..(e - 1) : file[i] = Char(Blank)
  PROVE  Trim(Slice(file, b, e)) = <<>>
<1> DEFINE line == Slice(file, b, e)
<1>0. b \in Nat /\ e \in Nat
  BY DEF Bounds
<1>1. /\ line \in Seq(FileChar) /\ Len(line) = e - b
      /\ \A i \in 1..(e - b) : line[i] = file[b + i - 1]
  BY SliceIs DEF Sliced
<1> HIDE DEF line
<1>2. DOMAIN line = 1..(e - b)
  BY <1>1, LenProperties
<1>3. \A i \in 1..(e - b) : line[i] = Char(Blank)
  <2> TAKE i \in 1..(e - b)
  <2>1. b + i - 1 \in b..(e - 1)
    BY <1>0
  <2> QED
    BY <1>1, <2>1
<1>4. {i \in DOMAIN line : line[i] # Char(Blank)} = {}
  BY <1>2, <1>3
<1> QED
  BY <1>4 DEF Trim, line

LEMMA TrimmedExists ==
  ASSUME NEW file, NEW b, NEW e, Bounds(FileChar, file, b, e),
         NEW k \in b..(e - 1), file[k] # Char(Blank)
  PROVE  \E p, r \in b..(e - 1) : Trimmed(file, b, p, r, e) /\ p <= k /\ k <= r
<1> DEFINE S == {i \in b..(e - 1) : file[i] # Char(Blank)}
<1>0. b \in Nat /\ e \in Nat /\ 1 <= b
  BY DEF Bounds
<1>1. S \in SUBSET Nat /\ S \in SUBSET (1..e) /\ k \in S
  BY <1>0
<1>2. \A i \in b..(e - 1) : i \in S <=> file[i] # Char(Blank)
  OBVIOUS
<1>3. \A i \in S : i \in b..(e - 1) /\ file[i] # Char(Blank)
  OBVIOUS
<1> HIDE DEF S
<1>4. PICK p \in S : \A j \in S : p <= j
  BY <1>1, LeastExists
<1>5. PICK r \in S : \A j \in S : j <= r
  BY <1>0, <1>1, GreatestExists
<1>6. p \in b..(e - 1) /\ r \in b..(e - 1) /\ p <= k /\ k <= r
  BY <1>1, <1>3, <1>4, <1>5
<1>7. ASSUME NEW i \in b..(p - 1) PROVE file[i] = Char(Blank)
  <2>1. i \in b..(e - 1) /\ ~(p <= i)
    BY <1>0, <1>6
  <2> QED
    BY <1>2, <1>4, <2>1
<1>8. ASSUME NEW i \in (r + 1)..(e - 1) PROVE file[i] = Char(Blank)
  <2>1. i \in b..(e - 1) /\ ~(i <= r)
    BY <1>0, <1>6
  <2> QED
    BY <1>2, <1>5, <2>1
<1>9. /\ p \in Nat /\ r \in Nat /\ b <= p /\ p <= r /\ r < e
      /\ file[p] # Char(Blank) /\ file[r] # Char(Blank)
  BY <1>0, <1>3, <1>6
<1>10. Trimmed(file, b, p, r, e)
  BY <1>7, <1>8, <1>9 DEF Trimmed
<1> QED
  BY <1>6, <1>10

-----------------------------------------------------------------------------
(* Entries.                                                                *)

\* The first = of the line from b to e is at q.
Divided(file, b, q, e) ==
  /\ Line(file, b, e)
  /\ q \in b..(e - 1) /\ file[q] = Char("=")
  /\ \A i \in b..(q - 1) : file[i] # Char("=")

LEMMA DividedExists ==
  ASSUME NEW file, NEW b, NEW e, Line(file, b, e), Places(LineAt(file, b), Char("=")) # {}
  PROVE  \E q \in b..(e - 1) : Divided(file, b, q, e)
<1> DEFINE line == Slice(file, b, e)
           S == {i \in b..(e - 1) : file[i] = Char("=")}
<1>0. b \in Nat /\ e \in Nat /\ Bounds(FileChar, file, b, e)
  BY DEF Line, Bounds
<1>1. /\ line \in Seq(FileChar) /\ Len(line) = e - b
      /\ \A i \in 1..(e - b) : line[i] = file[b + i - 1]
  <2>1. Sliced(FileChar, file, b, e)
    BY <1>0, SliceIs
  <2> QED
    BY <1>0, <2>1 DEF Sliced
<1>2. Places(line, Char("=")) # {}
  BY LineAtIs
<1> HIDE DEF line
<1>3. PICK i \in DOMAIN line : line[i] = Char("=")
  BY <1>2 DEF Places
<1>4. i \in 1..(e - b)
  BY <1>1, LenProperties
<1>5. b + i - 1 \in b..(e - 1) /\ file[b + i - 1] = Char("=")
  BY <1>0, <1>1, <1>3, <1>4
<1>6. S \in SUBSET Nat /\ S # {}
  BY <1>0, <1>5
<1>7. PICK q \in S : \A j \in S : q <= j
  <2> HIDE DEF S
  <2> QED
    BY <1>6, LeastExists
<1>8. ASSUME NEW j \in b..(q - 1), file[j] = Char("=") PROVE FALSE
  <2>1. j \in S /\ ~(q <= j)
    BY <1>0, <1>8
  <2> QED
    BY <1>7, <2>1
<1>9. q \in b..(e - 1) /\ file[q] = Char("=")
  OBVIOUS
<1> QED
  BY <1>8, <1>9 DEF Divided

LEMMA EntryParts ==
  ASSUME NEW file, NEW b, NEW q, NEW e, Divided(file, b, q, e)
  PROVE  /\ Places(LineAt(file, b), Char("=")) # {}
         /\ Entry(LineAt(file, b)) =
              [key |-> Trim(Slice(file, b, q)), value |-> Trim(Slice(file, q + 1, e))]
<1> DEFINE line == Slice(file, b, e)
           k == q - b + 1
<1>0. /\ b \in Nat /\ e \in Nat /\ Bounds(FileChar, file, b, e) /\ q \in Nat /\ b <= q /\ q < e
      /\ 1 <= b /\ k \in Nat /\ file \in Seq(FileChar) /\ e <= Len(file) + 1 /\ Len(file) \in Nat
  BY LenProperties DEF Line, Bounds, Divided
<1>1. /\ line \in Seq(FileChar) /\ Len(line) = e - b
      /\ \A i \in 1..(e - b) : line[i] = file[b + i - 1]
  <2>1. Sliced(FileChar, file, b, e)
    BY <1>0, SliceIs
  <2> QED
    BY <1>0, <2>1 DEF Sliced
<1>2. LineAt(file, b) = line
  BY LineAtIs DEF Divided
<1> HIDE DEF line
<1>3. First(line, Char("="), k)
  <2>1. 1 <= k /\ k <= Len(line)
    BY <1>0, <1>1
  <2>2. line[k] = Char("=")
    <3>1. k \in 1..(e - b) /\ b + k - 1 = q
      BY <1>0
    <3> QED
      BY <1>1, <3>1 DEF Divided
  <2>3. ASSUME NEW i \in 1..(k - 1) PROVE line[i] # Char("=")
    <3>1. i \in 1..(e - b) /\ b + i - 1 \in b..(q - 1)
      BY <1>0
    <3> QED
      BY <1>1, <3>1 DEF Divided
  <2>4. k <= Len(line) + 1
    BY <1>0, <1>1, <2>1
  <2> HIDE DEF k
  <2> QED
    BY <1>0, <2>1, <2>2, <2>3, <2>4 DEF First
<1>4. UpTo(line, Places(line, Char("="))) = Slice(line, 1, k) /\ Places(line, Char("=")) # {}
  <2>1. k <= Len(line)
    BY <1>0, <1>1
  <2> HIDE DEF k
  <2> QED
    BY <1>1, <1>3, <2>1, UpToIs
<1>5. Bounds(FileChar, file, b, q)
  BY <1>0 DEF Bounds
<1>6. Slice(line, 1, k) = Slice(file, b, q)
  <2>1. b <= b /\ q <= e /\ 1 = b - b + 1 /\ k = q - b + 1
    BY <1>0
  <2> HIDE DEF k
  <2> QED
    BY <1>0, <1>5, <2>1, SliceOfSlice DEF line
<1>7. Len(Slice(file, b, q)) = q - b
  BY <1>5, SliceIs DEF Sliced
<1>8. SubSeq(line, Len(Slice(file, b, q)) + 2, Len(line)) = Slice(file, q + 1, e)
  <2>1. ASSUME NEW x, x = q + 1, NEW i, i = x - b + 1, NEW j, j = e - b + 1
        PROVE  Slice(line, i, j) = Slice(file, x, e)
    <3>1. Bounds(FileChar, file, x, e) /\ b <= x /\ e <= e
      BY <1>0, <2>1 DEF Bounds
    <3> QED
      BY <1>0, <2>1, <3>1, SliceOfSlice DEF line
  <2>2. (q + 1) - b + 1 = (q - b) + 2 /\ (e - b + 1) - 1 = e - b
    BY <1>0
  <2>3. Slice(line, (q - b) + 2, e - b + 1) = SubSeq(line, (q - b) + 2, e - b)
    BY <2>2 DEF Slice
  <2> QED
    BY <1>1, <1>7, <2>1, <2>2, <2>3
<1>9. Entry(line) = [key |-> Trim(Slice(file, b, q)), value |-> Trim(Slice(file, q + 1, e))]
  BY <1>4, <1>6, <1>8 DEF Entry
<1> QED
  BY <1>2, <1>4, <1>9

\* The line from b to e is an entry: its name goes from p to r, its = is at q, its value
\* goes from v to z.
EntryShape(file, b, p, r, q, v, z, e) ==
  /\ Divided(file, b, q, e)
  /\ Trimmed(file, b, p, r, q) /\ file[p] # Char("#")
  /\ Trimmed(file, q + 1, v, z, e)

LEMMA EntryIs ==
  ASSUME NEW file, NEW b, NEW p, NEW r, NEW q, NEW v, NEW z, NEW e,
         EntryShape(file, b, p, r, q, v, z, e)
  PROVE  /\ IsEntry(LineAt(file, b))
         /\ Entry(LineAt(file, b)) = [key |-> Slice(file, p, r + 1), value |-> Slice(file, v, z + 1)]
<1>1. Divided(file, b, q, e) /\ Trimmed(file, b, p, r, q) /\ Trimmed(file, q + 1, v, z, e)
  BY DEF EntryShape
<1>2. Trim(Slice(file, b, q)) = Slice(file, p, r + 1)
  BY <1>1, TrimIs
<1>3. Trim(Slice(file, q + 1, e)) = Slice(file, v, z + 1)
  BY <1>1, TrimIs
<1>4. Trimmed(file, b, p, z, e)
  <2>1. /\ Bounds(FileChar, file, b, e) /\ p \in Nat /\ z \in Nat /\ b <= p /\ p < q /\ q < z /\ z < e
        /\ q \in Nat /\ file[p] # Char(Blank) /\ file[z] # Char(Blank)
        /\ \A i \in b..(p - 1) : file[i] = Char(Blank)
        /\ \A i \in (z + 1)..(e - 1) : file[i] = Char(Blank)
    BY <1>1 DEF Trimmed, Divided, Line, Bounds
  <2>2. p <= z
    BY <2>1
  <2> QED
    BY <2>1, <2>2 DEF Trimmed
<1>5. LineAt(file, b) = Slice(file, b, e)
  BY <1>1, LineAtIs DEF Divided
<1>6. Trim(LineAt(file, b)) # <<>> /\ Head(Trim(LineAt(file, b))) = file[p]
  BY <1>4, <1>5, TrimIs
<1>7. IsEntry(LineAt(file, b))
  BY <1>1, <1>6, EntryParts DEF IsEntry, EntryShape
<1> QED
  BY <1>1, <1>2, <1>3, <1>7, EntryParts

LEMMA EntryShapeExists ==
  ASSUME NEW file, NEW b, NEW e, Line(file, b, e), Places(LineAt(file, b), Char("=")) # {},
         Entry(LineAt(file, b)).key # <<>>, Entry(LineAt(file, b)).value # <<>>
  PROVE  \E q \in b..(e - 1) :
           /\ Divided(file, b, q, e)
           /\ \E p, r \in b..(q - 1) : Trimmed(file, b, p, r, q)
           /\ \E v, z \in (q + 1)..(e - 1) : Trimmed(file, q + 1, v, z, e)
<1>1. PICK q \in b..(e - 1) : Divided(file, b, q, e)
  BY DividedExists
<1>2. Trim(Slice(file, b, q)) # <<>> /\ Trim(Slice(file, q + 1, e)) # <<>>
  BY <1>1, EntryParts
<1>0. /\ b \in Nat /\ e \in Nat /\ q \in Nat /\ b <= q /\ q < e
      /\ 1 <= b /\ file \in Seq(FileChar) /\ e <= Len(file) + 1 /\ Len(file) \in Nat
  BY LenProperties DEF Line, Bounds
<1>3. Bounds(FileChar, file, b, q) /\ Bounds(FileChar, file, q + 1, e)
  BY <1>0 DEF Bounds
<1>4. \E p, r \in b..(q - 1) : Trimmed(file, b, p, r, q)
  <2>1. PICK k \in b..(q - 1) : file[k] # Char(Blank)
    BY <1>2, <1>3, TrimBlank
  <2> QED
    BY <1>3, <2>1, TrimmedExists
<1>5. \E v, z \in (q + 1)..(e - 1) : Trimmed(file, q + 1, v, z, e)
  <2>1. PICK k \in (q + 1)..(e - 1) : file[k] # Char(Blank)
    BY <1>2, <1>3, TrimBlank
  <2> QED
    BY <1>3, <2>1, TrimmedExists
<1> QED
  BY <1>1, <1>4, <1>5

-----------------------------------------------------------------------------
(* Where the sequences stand in what FlattenSeq makes of them.             *)

Laid(seqs, start) ==
  LET all == FlattenSeq(seqs) IN
  /\ start \in [1..(Len(seqs) + 1) -> Nat]
  /\ start[1] = 1 /\ start[Len(seqs) + 1] = Len(all) + 1
  /\ \A i \in 1..Len(seqs) :
       /\ start[i + 1] = start[i] + Len(seqs[i])
       /\ \A j \in 1..Len(seqs[i]) : all[start[i] + j - 1] = seqs[i][j]
  /\ \A i, j \in 1..(Len(seqs) + 1) : i <= j => start[i] <= start[j]
  /\ \A k \in 1..Len(all) : \E i \in 1..Len(seqs) : start[i] <= k /\ k < start[i + 1]

LEMMA ConcatIs ==
  ASSUME NEW S, NEW s \in Seq(S), NEW t \in Seq(S)
  PROVE  /\ s \o t \in Seq(S) /\ Len(s \o t) = Len(s) + Len(t)
         /\ Len(s) \in Nat /\ Len(t) \in Nat
         /\ \A i \in 1..Len(s) : (s \o t)[i] = s[i]
         /\ \A i \in 1..Len(t) : (s \o t)[Len(s) + i] = t[i]
<1>1. Len(s) \in Nat /\ Len(t) \in Nat
  BY LenProperties
<1>2. /\ s \o t \in Seq(S) /\ Len(s \o t) = Len(s) + Len(t)
      /\ \A i \in 1..(Len(s) + Len(t)) : (s \o t)[i] = IF i <= Len(s) THEN s[i] ELSE t[i - Len(s)]
  BY ConcatProperties
<1>3. ASSUME NEW i \in 1..Len(t) PROVE (s \o t)[Len(s) + i] = t[i]
  <2>1. Len(s) + i \in 1..(Len(s) + Len(t)) /\ ~(Len(s) + i <= Len(s)) /\ (Len(s) + i) - Len(s) = i
    BY <1>1
  <2> QED
    BY <1>2, <2>1
<1> QED
  BY <1>1, <1>2, <1>3

LEMMA LaidIs ==
  ASSUME NEW S, NEW seqs \in Seq(Seq(S))
  PROVE  FlattenSeq(seqs) \in Seq(S) /\ \E start : Laid(seqs, start)
<1> DEFINE n == Len(seqs)
<1>0. n \in Nat /\ \A i \in 1..n : seqs[i] \in Seq(S)
  BY LenProperties, ElementOfSeq
<1>1. PICK f \in [0..n -> Seq(S)] :
           /\ f[0] = <<>> /\ FlattenSeq(seqs) = f[n]
           /\ \A i \in 1..n : f[i] = f[i - 1] \o seqs[i]
  BY FlattenIs
<1> DEFINE all == FlattenSeq(seqs)
           start == [i \in 1..(n + 1) |-> Len(f[i - 1]) + 1]
<1> HIDE DEF n, all
<1>2. \A i \in 0..n : f[i] \in Seq(S) /\ Len(f[i]) \in Nat
  BY LenProperties
<1>3. ASSUME NEW i \in 1..n
      PROVE  /\ i - 1 \in 0..n /\ i \in 0..n
             /\ Len(f[i]) = Len(f[i - 1]) + Len(seqs[i]) /\ Len(seqs[i]) \in Nat
             /\ \A j \in 1..Len(f[i - 1]) : f[i][j] = f[i - 1][j]
             /\ \A j \in 1..Len(seqs[i]) : f[i][Len(f[i - 1]) + j] = seqs[i][j]
  <2>1. i - 1 \in 0..n /\ i \in 0..n
    BY <1>0
  <2>2. f[i] = f[i - 1] \o seqs[i] /\ f[i - 1] \in Seq(S) /\ seqs[i] \in Seq(S)
    BY <1>0, <1>1, <1>2, <2>1
  <2>3. ASSUME NEW s \in Seq(S), NEW t \in Seq(S)
        PROVE  /\ s \o t \in Seq(S) /\ Len(s \o t) = Len(s) + Len(t)
               /\ Len(s) \in Nat /\ Len(t) \in Nat
               /\ \A j \in 1..Len(s) : (s \o t)[j] = s[j]
               /\ \A j \in 1..Len(t) : (s \o t)[Len(s) + j] = t[j]
    BY ConcatIs
  <2> QED
    BY <2>1, <2>2, <2>3
<1>4. ASSUME NEW i \in 0..n
      PROVE  \A m \in 0..n : i <= m =>
               Len(f[i]) <= Len(f[m]) /\ \A j \in 1..Len(f[i]) : f[m][j] = f[i][j]
  <2> DEFINE T == {m \in 0..n : i <= m =>
               Len(f[i]) <= Len(f[m]) /\ \A j \in 1..Len(f[i]) : f[m][j] = f[i][j]}
  <2>1. 0 \in T
    BY <1>0, <1>2
  <2>2. ASSUME NEW m \in 1..n, m - 1 \in T PROVE m \in T
    <3>1. CASE i <= m - 1
      <4>1. Len(f[i]) <= Len(f[m - 1]) /\ \A j \in 1..Len(f[i]) : f[m - 1][j] = f[i][j]
        BY <2>2, <3>1
      <4>2. Len(f[m]) = Len(f[m - 1]) + Len(seqs[m]) /\ Len(seqs[m]) \in Nat
        BY <1>3
      <4>3. Len(f[i]) \in Nat /\ Len(f[m - 1]) \in Nat /\ Len(f[m]) \in Nat
        BY <1>2, <1>3
      <4>4. Len(f[i]) <= Len(f[m])
        <5>1. Len(f[i]) <= Len(f[m - 1])
          BY <4>1
        <5>2. \A a, b, c, d \in Nat : a <= b /\ d = b + c => a <= d
          OBVIOUS
        <5> QED
          BY <4>2, <4>3, <5>1, <5>2, Zenon
      <4>5. ASSUME NEW j \in 1..Len(f[i]) PROVE f[m][j] = f[i][j]
        <5>1. j \in 1..Len(f[m - 1])
          BY <4>1, <4>3
        <5> QED
          BY <1>3, <4>1, <5>1
      <4> QED
        BY <4>4, <4>5
    <3>2. CASE i = m
      BY <1>2, <3>2
    <3>3. i <= m => i <= m - 1 \/ i = m
      BY <1>0
    <3> QED
      BY <1>0, <3>1, <3>2, <3>3
  <2>3. T = 0..n
    <3>1. T \in SUBSET (0..n)
      OBVIOUS
    <3> HIDE DEF T
    <3> QED
      BY <1>0, <2>1, <2>2, <3>1, UpToAll
  <2> QED
    BY <2>3
<1>5. Len(all) = Len(f[n]) /\ all = f[n] /\ all \in Seq(S) /\ n \in 0..n
  BY <1>0, <1>1, <1>2 DEF all
<1>6. start \in [1..(n + 1) -> Nat] /\ start[1] = 1 /\ start[n + 1] = Len(all) + 1
  <2>1. \A i \in 1..(n + 1) : Len(f[i - 1]) + 1 \in Nat
    <3> TAKE i \in 1..(n + 1)
    <3>1. i - 1 \in 0..n
      BY <1>0
    <3> QED
      BY <1>2, <3>1
  <2>2. start[1] = Len(f[0]) + 1
    <3>1. 1 \in 1..(n + 1) /\ 1 - 1 = 0
      BY <1>0
    <3> QED
      BY <3>1
  <2>3. start[n + 1] = Len(f[n]) + 1
    <3>1. n + 1 \in 1..(n + 1) /\ (n + 1) - 1 = n
      BY <1>0
    <3> QED
      BY <3>1
  <2>4. Len(f[0]) = 0
    BY <1>1, EmptySeq
  <2> QED
    BY <1>5, <2>1, <2>2, <2>3, <2>4
<1>7. \A i \in 0..n : start[i + 1] = Len(f[i]) + 1
  <2> TAKE i \in 0..n
  <2>1. i + 1 \in 1..(n + 1) /\ (i + 1) - 1 = i
    BY <1>0
  <2> QED
    BY <2>1
<1>8. \A i \in 1..(n + 1) : start[i] = Len(f[i - 1]) + 1
  OBVIOUS
<1> HIDE DEF start
<1>9. ASSUME NEW i \in 1..n
      PROVE  /\ start[i + 1] = start[i] + Len(seqs[i])
             /\ \A j \in 1..Len(seqs[i]) : all[start[i] + j - 1] = seqs[i][j]
  <2>1. i \in 1..(n + 1) /\ i \in 0..n /\ i - 1 \in 0..n
    BY <1>0
  <2>2. start[i] = Len(f[i - 1]) + 1 /\ start[i + 1] = Len(f[i]) + 1
    BY <1>7, <1>8, <2>1
  <2>3. Len(f[i]) = Len(f[i - 1]) + Len(seqs[i]) /\ Len(seqs[i]) \in Nat /\ Len(f[i - 1]) \in Nat
    BY <1>2, <1>3, <2>1
  <2> DEFINE a == Len(f[i - 1])
             b == Len(seqs[i])
             c == Len(f[i])
             x == start[i]
             y == start[i + 1]
  <2>4. a \in Nat /\ b \in Nat /\ c = a + b /\ x = a + 1 /\ y = c + 1
    BY <2>2, <2>3
  <2>5. \A j \in 1..b : f[i][a + j] = seqs[i][j]
    BY <1>3
  <2>6. \A k \in 1..c : all[k] = f[i][k]
    <3>1. i <= n
      BY <1>0
    <3> QED
      BY <1>4, <1>5, <2>1, <3>1
  <2>7. y = x + b /\ \A j \in 1..b : all[x + j - 1] = seqs[i][j]
    <3> HIDE DEF a, b, c, x, y
    <3>1. y = x + b
      BY <2>4
    <3>2. ASSUME NEW j \in 1..b PROVE all[x + j - 1] = seqs[i][j]
      <4>1. x + j - 1 = a + j /\ a + j \in 1..c
        BY <2>4
      <4> QED
        BY <2>5, <2>6, <4>1
    <3> QED
      BY <3>1, <3>2
  <2> QED
    BY <2>7
<1>10. ASSUME NEW i \in 1..(n + 1), NEW j \in 1..(n + 1), i <= j PROVE start[i] <= start[j]
  <2>1. i - 1 \in 0..n /\ j - 1 \in 0..n /\ i - 1 <= j - 1
    BY <1>0, <1>10
  <2>2. Len(f[i - 1]) <= Len(f[j - 1]) /\ Len(f[i - 1]) \in Nat /\ Len(f[j - 1]) \in Nat
    BY <1>2, <1>4, <2>1
  <2> QED
    BY <1>8, <2>2
<1>11. ASSUME NEW k \in 1..Len(all) PROVE \E i \in 1..n : start[i] <= k /\ k < start[i + 1]
  <2> DEFINE T == {i \in 0..n : k < start[i + 1]}
  <2>1. n \in T /\ T \in SUBSET Nat
    <3>1. Len(all) \in Nat
      BY <1>5, LenProperties
    <3> QED
      BY <1>0, <1>5, <1>6, <3>1
  <2>2. PICK i \in T : \A j \in T : i <= j
    <3> HIDE DEF T
    <3> QED
      BY <2>1, LeastExists
  <2>3. i # 0
    <3>1. ASSUME i = 0 PROVE FALSE
      <4>1. k < start[0 + 1] /\ 0 + 1 = 1
        BY <2>2, <3>1
      <4> QED
        BY <1>6, <4>1
    <3> QED
      BY <3>1
  <2>4. i \in 1..n /\ i - 1 \in 0..n /\ ~(i <= i - 1)
    BY <1>0, <2>2, <2>3
  <2>5. ~(k < start[(i - 1) + 1])
    BY <2>2, <2>4
  <2>6. (i - 1) + 1 = i /\ start[i] \in Nat
    <3>1. i \in 1..(n + 1) /\ (i - 1) + 1 = i
      BY <1>0, <2>4
    <3> QED
      BY <1>6, <3>1
  <2>7. start[i] <= k
    BY <2>5, <2>6
  <2> QED
    BY <2>2, <2>4, <2>7
<1>12. Laid(seqs, start)
  BY <1>6, <1>9, <1>10, <1>11 DEF Laid, n, all
<1> QED
  BY <1>5, <1>12 DEF all

-----------------------------------------------------------------------------
(* Entries of two files whose keys and values are the same one by one.     *)

LEMMA AsMapSame ==
  ASSUME NEW n \in Nat, NEW E, DOMAIN E \in SUBSET (1..n), NEW G, NEW mu,
         \A b \in DOMAIN E : /\ mu[b] \in DOMAIN G /\ mu[b] \in Nat
                             /\ E[b].key = G[mu[b]].key /\ E[b].value = G[mu[b]].value,
         \A c \in DOMAIN G : \E b \in DOMAIN E : mu[b] = c,
         \A b, c \in DOMAIN E : b < c => mu[b] < mu[c]
  PROVE  AsMap(E) = AsMap(G)
<1> DEFINE K == {E[b].key : b \in DOMAIN E}
           J == {G[c].key : c \in DOMAIN G}
           ofE(k) == {b \in DOMAIN E : E[b].key = k}
           ofG(k) == {c \in DOMAIN G : G[c].key = k}
           x(k) == CHOOSE b \in ofE(k) : \A c \in ofE(k) : c <= b
           y(k) == CHOOSE b \in ofG(k) : \A c \in ofG(k) : c <= b
<1>1. K = J
  <2>1. K \subseteq J
    OBVIOUS
  <2>2. J \subseteq K
    OBVIOUS
  <2> QED
    BY <2>1, <2>2
<1>2. ASSUME NEW k \in K PROVE E[x(k)].value = G[y(k)].value
  <2>1. ofE(k) \in SUBSET (1..n) /\ ofE(k) # {}
    OBVIOUS
  <2>2. \E b \in ofE(k) : \A c \in ofE(k) : c <= b
    <3> HIDE DEF ofE
    <3> QED
      BY <2>1, GreatestExists
  <2>3. x(k) \in ofE(k) /\ \A c \in ofE(k) : c <= x(k)
    <3> HIDE DEF ofE
    <3> QED
      BY <2>2
  <2> HIDE DEF x
  <2>4. mu[x(k)] \in ofG(k)
    BY <2>3
  <2>5. ASSUME NEW d \in ofG(k) PROVE d <= mu[x(k)] /\ d \in Nat
    <3>1. PICK b \in DOMAIN E : mu[b] = d
      OBVIOUS
    <3>2. b \in ofE(k) /\ x(k) \in DOMAIN E
      BY <2>3, <3>1
    <3>3. b <= x(k) /\ b \in 1..n /\ x(k) \in 1..n
      BY <2>1, <2>3, <3>2
    <3>4. b = x(k) \/ b < x(k)
      BY <3>3
    <3>5. d = mu[x(k)] \/ d < mu[x(k)]
      BY <3>1, <3>2, <3>4
    <3>6. d \in Nat /\ mu[x(k)] \in Nat
      BY <3>1, <3>2
    <3> QED
      BY <3>5, <3>6
  <2>6. y(k) \in ofG(k) /\ \A c \in ofG(k) : c <= y(k)
    <3>1. \E b \in ofG(k) : \A c \in ofG(k) : c <= b
      <4> HIDE DEF ofG
      <4> QED
        BY <2>4, <2>5
    <3> HIDE DEF ofG
    <3> QED
      BY <3>1
  <2> HIDE DEF y
  <2>7. y(k) = mu[x(k)]
    <3>1. y(k) <= mu[x(k)] /\ mu[x(k)] <= y(k) /\ y(k) \in Nat /\ mu[x(k)] \in Nat
      BY <2>4, <2>5, <2>6
    <3> QED
      BY <3>1
  <2>8. x(k) \in DOMAIN E
    BY <2>3
  <2> QED
    BY <2>7, <2>8
<1>3. AsMap(E) = [k \in K |-> E[x(k)].value]
  BY DEF AsMap
<1>4. AsMap(G) = [k \in J |-> G[y(k)].value]
  BY DEF AsMap
<1> HIDE DEF K, J, x, y
<1> QED
  BY <1>1, <1>2, <1>3, <1>4

-----------------------------------------------------------------------------
(* Escaping a value and reading it again.                                  *)

EscapedChar(c) == IF c \in {"quote", "\\"} THEN <<"\\", c>> ELSE <<c>>

LEMMA EscapedIs ==
  ASSUME NEW v \in Seq(Lexeme)
  PROVE  /\ [i \in 1..Len(v) |-> EscapedChar(v[i])] \in Seq(Seq(Lexeme))
         /\ Escaped(v) = FlattenSeq([i \in 1..Len(v) |-> EscapedChar(v[i])])
         /\ Escaped(v) \in Seq(Lexeme)
<1>1. Len(v) \in Nat /\ DOMAIN v = 1..Len(v) /\ \A i \in 1..Len(v) : v[i] \in Lexeme
  BY LenProperties, ElementOfSeq
<1>2. "\\" \in Lexeme
  BY DEF Lexeme
<1>3. \A i \in 1..Len(v) : EscapedChar(v[i]) \in Seq(Lexeme)
  BY <1>1, <1>2 DEF EscapedChar
<1>4. [i \in 1..Len(v) |-> EscapedChar(v[i])] \in Seq(Seq(Lexeme))
  BY <1>1, <1>3, IsASeq
<1>5. Escaped(v) = FlattenSeq([i \in 1..Len(v) |-> EscapedChar(v[i])])
  BY <1>1, Zenon DEF Escaped, EscapedChar
<1>6. FlattenSeq([i \in 1..Len(v) |-> EscapedChar(v[i])]) \in Seq(Lexeme)
  <2> DEFINE seqs == [i \in 1..Len(v) |-> EscapedChar(v[i])]
  <2> HIDE DEF seqs
  <2>1. seqs \in Seq(Seq(Lexeme)) => FlattenSeq(seqs) \in Seq(Lexeme)
    BY LaidIs
  <2> QED
    BY <1>4, <2>1 DEF seqs
<1> QED
  BY <1>4, <1>5, <1>6

LEMMA EscapedHasNoLineEnd ==
  ASSUME NEW v \in Seq(Lexeme), "nl" \notin ToSet(v), NEW k \in 1..Len(Escaped(v))
  PROVE  Escaped(v)[k] # "nl"
<1> DEFINE seqs == [i \in 1..Len(v) |-> EscapedChar(v[i])]
<1>1. Len(v) \in Nat /\ DOMAIN v = 1..Len(v)
  BY LenProperties
<1>2. seqs \in Seq(Seq(Lexeme)) /\ Len(seqs) = Len(v) /\ Escaped(v) = FlattenSeq(seqs)
  <2>1. seqs \in Seq(Seq(Lexeme)) /\ Escaped(v) = FlattenSeq(seqs)
    BY EscapedIs
  <2>2. Len(seqs) = Len(v)
    BY <1>1
  <2> QED
    BY <2>1, <2>2
<1>3. \A i \in 1..Len(v) : seqs[i] = EscapedChar(v[i])
  OBVIOUS
<1> HIDE DEF seqs
<1>4. PICK start : Laid(seqs, start)
  BY <1>2, LaidIs
<1>5. PICK i \in 1..Len(v) : start[i] <= k /\ k < start[i + 1]
  BY <1>2, <1>4 DEF Laid
<1>6. /\ start[i] \in Nat /\ start[i + 1] = start[i] + Len(seqs[i])
      /\ \A j \in 1..Len(seqs[i]) : Escaped(v)[start[i] + j - 1] = seqs[i][j]
  <2>1. i \in 1..(Len(v) + 1)
    BY <1>1
  <2> QED
    BY <1>2, <1>4, <2>1 DEF Laid
<1>7. v[i] # "nl"
  BY <1>1 DEF ToSet
<1>8. CASE v[i] \in {"quote", "\\"}
  <2>1. seqs[i] = <<"\\", v[i]>>
    BY <1>3, <1>8 DEF EscapedChar
  <2>2. Len(seqs[i]) = 2 /\ seqs[i][1] = "\\" /\ seqs[i][2] = v[i]
    BY <2>1
  <2>3. k \in Nat /\ (k = start[i] \/ k = start[i] + 1)
    BY <1>5, <1>6, <2>2
  <2>4. Escaped(v)[start[i]] = "\\" /\ Escaped(v)[start[i] + 1] = v[i]
    <3>1. Escaped(v)[start[i] + 1 - 1] = seqs[i][1] /\ Escaped(v)[start[i] + 2 - 1] = seqs[i][2]
      BY <1>6, <2>2
    <3>2. start[i] + 1 - 1 = start[i] /\ start[i] + 2 - 1 = start[i] + 1
      BY <1>6
    <3> QED
      BY <2>2, <3>1, <3>2
  <2> QED
    BY <1>7, <2>3, <2>4
<1>9. CASE v[i] \notin {"quote", "\\"}
  <2>1. seqs[i] = <<v[i]>>
    BY <1>3, <1>9 DEF EscapedChar
  <2>2. Len(seqs[i]) = 1 /\ seqs[i][1] = v[i]
    BY <2>1
  <2>3. k = start[i]
    BY <1>5, <1>6, <2>2
  <2>4. Escaped(v)[start[i]] = v[i]
    <3>1. Escaped(v)[start[i] + 1 - 1] = seqs[i][1]
      BY <1>6, <2>2
    <3>2. start[i] + 1 - 1 = start[i]
      BY <1>6
    <3> QED
      BY <2>2, <3>1, <3>2
  <2> QED
    BY <1>7, <2>3, <2>4
<1> QED
  BY <1>8, <1>9

\* parse_double_quoted, between two characters
Parsed(out, escaping, closed) == [out |-> out, escaping |-> escaping, closed |-> closed]
Parses == [out : Seq(FileChar), escaping : BOOLEAN, closed : BOOLEAN]

LEMMA AfterCharIs ==
  ASSUME NEW out \in Seq(FileChar), NEW c \in FileChar
  PROVE  /\ AfterChar(Parsed(out, TRUE, FALSE), c) = Parsed(Append(out, c), FALSE, FALSE)
         /\ c = Char("\\") =>
              AfterChar(Parsed(out, FALSE, FALSE), c) = Parsed(out, TRUE, FALSE)
         /\ c = Char("quote") =>
              AfterChar(Parsed(out, FALSE, FALSE), c) = Parsed(out, FALSE, TRUE)
         /\ c # Char("\\") /\ c # Char("quote") =>
              AfterChar(Parsed(out, FALSE, FALSE), c) = Parsed(Append(out, c), FALSE, FALSE)
<1>1. Char("\\") # Char("quote")
  BY CharIs
<1>2. AfterChar(Parsed(out, TRUE, FALSE), c) = Parsed(Append(out, c), FALSE, FALSE)
  BY DEF AfterChar, Parsed
<1>3. ASSUME c = Char("\\")
      PROVE  AfterChar(Parsed(out, FALSE, FALSE), c) = Parsed(out, TRUE, FALSE)
  BY <1>1, <1>3 DEF AfterChar, Parsed
<1>4. ASSUME c = Char("quote")
      PROVE  AfterChar(Parsed(out, FALSE, FALSE), c) = Parsed(out, FALSE, TRUE)
  BY <1>1, <1>4 DEF AfterChar, Parsed
<1>5. ASSUME c # Char("\\"), c # Char("quote")
      PROVE  AfterChar(Parsed(out, FALSE, FALSE), c) = Parsed(Append(out, c), FALSE, FALSE)
  BY <1>5 DEF AfterChar, Parsed
<1> QED
  BY <1>2, <1>3, <1>4, <1>5

LEMMA AfterCharType ==
  ASSUME NEW a \in Parses, NEW c \in FileChar
  PROVE  AfterChar(a, c) \in Parses
<1>1. Append(a.out, c) \in Seq(FileChar)
  BY AppendProperties DEF Parses
<1>2. CASE a.closed
  BY <1>2 DEF AfterChar
<1>3. CASE ~a.closed /\ a.escaping
  BY <1>1, <1>3 DEF AfterChar, Parses
<1>4. CASE ~a.closed /\ ~a.escaping /\ c = Char("\\")
  BY <1>4 DEF AfterChar, Parses
<1>5. CASE ~a.closed /\ ~a.escaping /\ c # Char("\\") /\ c = Char("quote")
  BY <1>5 DEF AfterChar, Parses
<1>6. CASE ~a.closed /\ ~a.escaping /\ c # Char("\\") /\ c # Char("quote")
  BY <1>1, <1>6 DEF AfterChar, Parses
<1> QED
  BY <1>2, <1>3, <1>4, <1>5, <1>6

\* The recursive function of DoubleQuoted is there and does what it says.
LEMMA DoubleQuotedIs ==
  ASSUME NEW inner \in Seq(FileChar)
  PROVE  \E after :
           /\ after[0] = Parsed(<<>>, FALSE, FALSE)
           /\ \A i \in 1..Len(inner) : after[i] = AfterChar(after[i - 1], inner[i])
           /\ DoubleQuoted(inner) = after[Len(inner)].out
<1> DEFINE n == Len(inner)
           step == [i \in 1..n |-> [a \in Parses |-> AfterChar(a, inner[i])]]
           a0 == Parsed(<<>>, FALSE, FALSE)
           Is(f) == f = [i \in 0..n |-> IF i = 0 THEN [out |-> <<>>, escaping |-> FALSE, closed |-> FALSE]
                                        ELSE AfterChar(f[i - 1], inner[i])]
<1>1. n \in Nat /\ \A i \in 1..n : inner[i] \in FileChar
  BY LenProperties, ElementOfSeq
<1>2. a0 \in Parses
  <2>1. <<>> \in Seq(FileChar)
    BY EmptySeq
  <2> QED
    BY <2>1 DEF Parses, Parsed
<1>3. step \in [1..n -> [Parses -> Parses]]
  <2>1. \A i \in 1..n : \A a \in Parses : AfterChar(a, inner[i]) \in Parses
    BY <1>1, AfterCharType
  <2> QED
    BY <2>1
<1>4. \A i \in 1..n : \A a \in Parses : step[i][a] = AfterChar(a, inner[i])
  OBVIOUS
<1> HIDE DEF step, a0
<1>5. PICK f \in [0..n -> Parses] : Follows(f, n, a0, step)
  BY <1>1, <1>2, <1>3, FunctionExists
<1>6. \A i \in 1..n : f[i] = AfterChar(f[i - 1], inner[i])
  <2> TAKE i \in 1..n
  <2>1. i - 1 \in 0..n
    BY <1>1
  <2> QED
    BY <1>4, <1>5, <2>1 DEF Follows
<1>7. f[0] = a0
  BY <1>5 DEF Follows
<1>8. Is(f)
  <2>1. \A i \in 0..n : f[i] = IF i = 0 THEN [out |-> <<>>, escaping |-> FALSE, closed |-> FALSE]
                               ELSE AfterChar(f[i - 1], inner[i])
    <3>1. \A i \in 0..n : i # 0 => i \in 1..n
      BY <1>1
    <3> QED
      BY <1>6, <1>7, <3>1 DEF a0, Parsed
  <2> QED
    BY <2>1
<1> DEFINE g == CHOOSE x : Is(x)
<1>9. DoubleQuoted(inner) = g[n].out
  BY Zenon DEF DoubleQuoted
<1>10. Is(g)
  <2> HIDE DEF Is
  <2> QED
    BY <1>8, Zenon
<1> HIDE DEF g
<1>11. \A i \in 0..n : g[i] = IF i = 0 THEN [out |-> <<>>, escaping |-> FALSE, closed |-> FALSE]
                              ELSE AfterChar(g[i - 1], inner[i])
  <2>1. g = [i \in 0..n |-> IF i = 0 THEN [out |-> <<>>, escaping |-> FALSE, closed |-> FALSE]
                            ELSE AfterChar(g[i - 1], inner[i])]
    BY <1>10
  <2> QED
    BY <2>1
<1>12. g[0] = a0
  <2>1. 0 \in 0..n
    BY <1>1
  <2> QED
    BY <1>11, <2>1 DEF a0, Parsed
<1>13. \A i \in 1..n : g[i] = AfterChar(g[i - 1], inner[i])
  <2>1. \A i \in 1..n : i \in 0..n /\ i # 0
    BY <1>1
  <2> QED
    BY <1>11, <2>1
<1> QED
  BY <1>9, <1>12, <1>13 DEF a0

-----------------------------------------------------------------------------

LEMMA AppendIs ==
  ASSUME NEW s, NEW i \in Nat, NEW c
  PROVE  Append([k \in 1..i |-> s[k]], s[i + 1]) = [k \in 1..(i + 1) |-> s[k]]
<1> DEFINE u == [k \in 1..i |-> s[k]]
           T == {s[k] : k \in 1..(i + 1)}
<1>1. u \in Seq(T) /\ Len(u) = i
  BY IsASeq
<1>2. s[i + 1] \in T
  OBVIOUS
<1> QED
  BY <1>1, <1>2

\* What is read of the escaped characters before the closing quote is the value.
LEMMA UnescapedIs ==
  ASSUME NEW v \in Seq(Lexeme), NEW inner \in Seq(FileChar), Len(inner) = Len(Escaped(v)) + 1,
         \A j \in 1..Len(Escaped(v)) : inner[j] = Char(Escaped(v)[j]),
         inner[Len(inner)] = Char("quote")
  PROVE  DoubleQuoted(inner) = Chars(v)
<1> DEFINE n == Len(v)
           seqs == [i \in 1..n |-> EscapedChar(v[i])]
           out(i) == [k \in 1..i |-> Char(v[k])]
<1>1. /\ n \in Nat /\ DOMAIN v = 1..n
      /\ \A i \in 1..n : v[i] \in Lexeme /\ Char(v[i]) \in FileChar
      /\ Char("\\") \in FileChar /\ Char("quote") \in FileChar
  <2>1. n \in Nat /\ DOMAIN v = 1..n /\ \A i \in 1..n : v[i] \in Lexeme
    BY LenProperties, ElementOfSeq
  <2>2. "\\" \in Lexeme /\ "quote" \in Lexeme
    BY DEF Lexeme
  <2> QED
    BY <2>1, <2>2, CharIs
<1>2. seqs \in Seq(Seq(Lexeme)) /\ Len(seqs) = n /\ Escaped(v) = FlattenSeq(seqs)
  <2>1. seqs \in Seq(Seq(Lexeme)) /\ Escaped(v) = FlattenSeq(seqs)
    BY EscapedIs
  <2>2. Len(seqs) = Len(v)
    BY <1>1
  <2> QED
    BY <2>1, <2>2
<1>3. \A i \in 1..n : seqs[i] = EscapedChar(v[i])
  OBVIOUS
<1>4. \A i \in 0..n : out(i) \in Seq(FileChar)
  <2> TAKE i \in 0..n
  <2>1. i \in Nat /\ \A k \in 1..i : Char(v[k]) \in FileChar
    BY <1>1
  <2> QED
    BY <2>1, IsASeq
<1>5. \A i \in 1..n : Append(out(i - 1), Char(v[i])) = out(i)
  <2> TAKE i \in 1..n
  <2> DEFINE s == [k \in 1..n |-> Char(v[k])]
  <2>1. i - 1 \in Nat /\ (i - 1) + 1 = i
    BY <1>1
  <2>2. Append([k \in 1..(i - 1) |-> s[k]], s[(i - 1) + 1]) = [k \in 1..((i - 1) + 1) |-> s[k]]
    <3> HIDE DEF s
    <3> QED
      BY <2>1, AppendIs
  <2>3. [k \in 1..(i - 1) |-> s[k]] = out(i - 1) /\ [k \in 1..i |-> s[k]] = out(i) /\ s[i] = Char(v[i])
    BY <1>1
  <2> QED
    BY <2>1, <2>2, <2>3
<1>6. out(0) = <<>>
  BY EmptySeq
<1>7. out(n) = Chars(v)
  BY <1>1 DEF Chars
<1>8. Chars(v) \in Seq(FileChar)
  BY CharsIs
<1>9. PICK start : Laid(seqs, start)
  BY <1>2, LaidIs
<1> HIDE DEF seqs, out
<1>10. /\ start[1] = 1 /\ start[n + 1] = Len(inner)
       /\ \A i \in 1..n : /\ start[i] \in Nat /\ start[i + 1] = start[i] + Len(seqs[i])
                          /\ \A j \in 1..Len(seqs[i]) : Escaped(v)[start[i] + j - 1] = seqs[i][j]
  <2>1. \A i \in 1..n : i \in 1..(n + 1)
    BY <1>1
  <2> QED
    BY <1>2, <1>9, <2>1 DEF Laid
<1>11. \A i \in 1..(n + 1) : start[i] \in Nat /\ 1 <= start[i] /\ start[i] <= Len(inner)
  <2> TAKE i \in 1..(n + 1)
  <2>1. start[1] <= start[i] /\ start[i] <= start[n + 1] /\ start[i] \in Nat
    <3>1. 1 \in 1..(n + 1) /\ n + 1 \in 1..(n + 1) /\ 1 <= i /\ i <= n + 1
      BY <1>1
    <3> QED
      BY <1>2, <1>9, <3>1 DEF Laid
  <2> QED
    BY <1>10, <2>1
<1>12. PICK after :
         /\ after[0] = Parsed(<<>>, FALSE, FALSE)
         /\ \A i \in 1..Len(inner) : after[i] = AfterChar(after[i - 1], inner[i])
         /\ DoubleQuoted(inner) = after[Len(inner)].out
  BY DoubleQuotedIs
<1>13. Len(inner) \in Nat /\ Len(Escaped(v)) = Len(inner) - 1
  BY LenProperties, EscapedIs
<1> DEFINE T == {i \in 0..n : after[start[i + 1] - 1] = Parsed(out(i), FALSE, FALSE)}
<1>14. 0 \in T
  <2>1. start[0 + 1] - 1 = 0
    BY <1>10
  <2>2. after[start[0 + 1] - 1] = Parsed(out(0), FALSE, FALSE)
    BY <1>6, <1>12, <2>1
  <2>3. 0 \in 0..n
    BY <1>1
  <2> QED
    BY <2>2, <2>3
<1>15. ASSUME NEW i \in 1..n, i - 1 \in T PROVE i \in T
  <2> DEFINE x == start[i]
  <2>1. after[x - 1] = Parsed(out(i - 1), FALSE, FALSE)
    <3>1. (i - 1) + 1 = i
      BY <1>1
    <3> QED
      BY <1>15, <3>1
  <2>2. x \in Nat /\ 1 <= x /\ start[i + 1] = x + Len(seqs[i]) /\ start[i + 1] <= Len(inner)
    <3>1. i \in 1..(n + 1) /\ i + 1 \in 1..(n + 1)
      BY <1>1
    <3> QED
      BY <1>10, <1>11, <3>1
  <2>3. \A j \in 1..Len(seqs[i]) : Escaped(v)[x + j - 1] = seqs[i][j]
    BY <1>10
  <2>4. out(i - 1) \in Seq(FileChar) /\ out(i) = Append(out(i - 1), Char(v[i]))
    <3>1. i - 1 \in 0..n
      BY <1>1
    <3> QED
      BY <1>4, <1>5, <3>1
  <2> HIDE DEF x, T
  <2>5. CASE v[i] \in {"quote", "\\"}
    <3>1. seqs[i] = <<"\\", v[i]>>
      BY <1>3, <2>5 DEF EscapedChar
    <3>2. Len(seqs[i]) = 2 /\ seqs[i][1] = "\\" /\ seqs[i][2] = v[i]
      BY <3>1
    <3>3. /\ x \in 1..Len(inner) /\ x + 1 \in 1..Len(inner) /\ (x + 1) - 1 = x
          /\ x \in 1..Len(Escaped(v)) /\ x + 1 \in 1..Len(Escaped(v))
          /\ x + 1 - 1 = x /\ x + 2 - 1 = x + 1 /\ start[i + 1] - 1 = x + 1
      BY <1>13, <2>2, <3>2
    <3>4. Escaped(v)[x] = "\\" /\ Escaped(v)[x + 1] = v[i]
      <4>1. Escaped(v)[x + 1 - 1] = seqs[i][1] /\ Escaped(v)[x + 2 - 1] = seqs[i][2]
        BY <2>3, <3>2
      <4> QED
        BY <3>2, <3>3, <4>1
    <3>5. inner[x] = Char("\\") /\ inner[x + 1] = Char(v[i])
      BY <3>3, <3>4
    <3>6. after[x] = Parsed(out(i - 1), TRUE, FALSE)
      <4>1. after[x] = AfterChar(after[x - 1], inner[x])
        BY <1>12, <3>3
      <4>2. AfterChar(Parsed(out(i - 1), FALSE, FALSE), Char("\\")) = Parsed(out(i - 1), TRUE, FALSE)
        BY <1>1, <2>4, AfterCharIs
      <4> QED
        BY <2>1, <3>5, <4>1, <4>2
    <3>7. after[x + 1] = Parsed(out(i), FALSE, FALSE)
      <4>1. after[x + 1] = AfterChar(after[x], inner[x + 1])
        BY <1>12, <3>3
      <4>2. AfterChar(Parsed(out(i - 1), TRUE, FALSE), Char(v[i])) = Parsed(Append(out(i - 1), Char(v[i])), FALSE, FALSE)
        BY <1>1, <2>4, AfterCharIs
      <4> QED
        BY <2>4, <3>5, <3>6, <4>1, <4>2
    <3>8. i \in 0..n
      BY <1>1
    <3> QED
      BY <3>3, <3>7, <3>8 DEF T
  <2>6. CASE v[i] \notin {"quote", "\\"}
    <3>1. seqs[i] = <<v[i]>>
      BY <1>3, <2>6 DEF EscapedChar
    <3>2. Len(seqs[i]) = 1 /\ seqs[i][1] = v[i]
      BY <3>1
    <3>3. /\ x \in 1..Len(inner) /\ x \in 1..Len(Escaped(v))
          /\ x + 1 - 1 = x /\ start[i + 1] - 1 = x
      BY <1>13, <2>2, <3>2
    <3>4. Escaped(v)[x] = v[i]
      <4>1. Escaped(v)[x + 1 - 1] = seqs[i][1]
        BY <2>3, <3>2
      <4> QED
        BY <3>2, <3>3, <4>1
    <3>5. inner[x] = Char(v[i]) /\ Char(v[i]) # Char("quote") /\ Char(v[i]) # Char("\\")
      BY <2>6, <3>3, <3>4, CharIs
    <3>6. after[x] = Parsed(out(i), FALSE, FALSE)
      <4>1. after[x] = AfterChar(after[x - 1], inner[x])
        BY <1>12, <3>3
      <4>2. AfterChar(Parsed(out(i - 1), FALSE, FALSE), Char(v[i])) = Parsed(Append(out(i - 1), Char(v[i])), FALSE, FALSE)
        BY <1>1, <2>4, <3>5, AfterCharIs
      <4> QED
        BY <2>1, <2>4, <3>5, <4>1, <4>2
    <3>8. i \in 0..n
      BY <1>1
    <3> QED
      BY <3>3, <3>6, <3>8 DEF T
  <2> QED
    BY <2>5, <2>6
<1>16. T = 0..n
  <2>1. T \in SUBSET (0..n)
    OBVIOUS
  <2> HIDE DEF T
  <2> QED
    BY <1>1, <1>14, <1>15, <2>1, UpToAll
<1>17. after[Len(inner) - 1] = Parsed(Chars(v), FALSE, FALSE)
  <2>1. n \in T
    <3> HIDE DEF T
    <3> QED
      BY <1>1, <1>16
  <2>2. after[start[n + 1] - 1] = Parsed(out(n), FALSE, FALSE)
    BY <2>1
  <2> QED
    BY <1>7, <1>10, <2>2
<1>18. after[Len(inner)] = Parsed(Chars(v), FALSE, TRUE)
  <2>1. Len(inner) \in 1..Len(inner)
    <3>1. n + 1 \in 1..(n + 1)
      BY <1>1
    <3> QED
      BY <1>10, <1>11, <1>13, <3>1
  <2>2. after[Len(inner)] = AfterChar(after[Len(inner) - 1], inner[Len(inner)])
    BY <1>12, <2>1
  <2>3. AfterChar(Parsed(Chars(v), FALSE, FALSE), Char("quote")) = Parsed(Chars(v), FALSE, TRUE)
    BY <1>1, <1>8, AfterCharIs
  <2> QED
    BY <1>17, <2>2, <2>3
<1> QED
  BY <1>12, <1>18 DEF Parsed

-----------------------------------------------------------------------------
(* An exported line, and what import makes of it.                          *)

ExportedLine(key, value) ==
  key \o <<"=", "quote">> \o Escaped(value) \o <<"quote", "nl">>

\* The parts of the line: the name, = and quote, the escaped value, quote and line end.
LEMMA ExportedLineIs ==
  ASSUME NEW key \in Seq(Lexeme), NEW value \in Seq(Lexeme)
  PROVE  LET l == ExportedLine(key, value)
             k == Len(key)
             e == Len(Escaped(value)) IN
         /\ l \in Seq(Lexeme) /\ k \in Nat /\ e \in Nat /\ Len(l) = k + e + 4
         /\ \A j \in 1..k : l[j] = key[j]
         /\ l[k + 1] = "=" /\ l[k + 2] = "quote"
         /\ \A j \in 1..e : l[k + 2 + j] = Escaped(value)[j]
         /\ l[k + e + 3] = "quote" /\ l[k + e + 4] = "nl"
<1> DEFINE k == Len(key)
           e == Len(Escaped(value))
           a == <<"=", "quote">>
           b == <<"quote", "nl">>
           s1 == key \o a
           s2 == s1 \o Escaped(value)
           s3 == s2 \o b
<1>c. ASSUME NEW s \in Seq(Lexeme), NEW t \in Seq(Lexeme)
      PROVE  /\ s \o t \in Seq(Lexeme) /\ Len(s \o t) = Len(s) + Len(t)
             /\ \A i \in 1..Len(s) : (s \o t)[i] = s[i]
             /\ \A i \in 1..Len(t) : (s \o t)[Len(s) + i] = t[i]
  BY ConcatIs
<1>0. /\ a \in Seq(Lexeme) /\ Len(a) = 2 /\ a[1] = "=" /\ a[2] = "quote"
      /\ b \in Seq(Lexeme) /\ Len(b) = 2 /\ b[1] = "quote" /\ b[2] = "nl"
      /\ Escaped(value) \in Seq(Lexeme) /\ k \in Nat /\ e \in Nat
  <2>1. "=" \in Lexeme /\ "quote" \in Lexeme /\ "nl" \in Lexeme
    BY DEF Lexeme
  <2>2. a \in Seq(Lexeme) /\ b \in Seq(Lexeme)
    BY <2>1
  <2>3. Escaped(value) \in Seq(Lexeme)
    BY EscapedIs
  <2> QED
    BY <2>2, <2>3, LenProperties
<1> HIDE DEF a, b
<1>1. /\ s1 \in Seq(Lexeme) /\ Len(s1) = k + 2
      /\ \A j \in 1..k : s1[j] = key[j]
      /\ \A j \in 1..2 : s1[k + j] = a[j]
  <2>1. /\ s1 \in Seq(Lexeme) /\ Len(s1) = Len(key) + Len(a)
        /\ \A j \in 1..Len(key) : s1[j] = key[j]
        /\ \A j \in 1..Len(a) : s1[Len(key) + j] = a[j]
    BY <1>0, <1>c
  <2> QED
    BY <1>0, <2>1
<1> HIDE DEF s1
<1>2. /\ s2 \in Seq(Lexeme) /\ Len(s2) = k + 2 + e
      /\ \A j \in 1..(k + 2) : s2[j] = s1[j]
      /\ \A j \in 1..e : s2[k + 2 + j] = Escaped(value)[j]
  <2>1. /\ s2 \in Seq(Lexeme) /\ Len(s2) = Len(s1) + Len(Escaped(value))
        /\ \A j \in 1..Len(s1) : s2[j] = s1[j]
        /\ \A j \in 1..Len(Escaped(value)) : s2[Len(s1) + j] = Escaped(value)[j]
    BY <1>0, <1>1, <1>c
  <2> QED
    BY <1>1, <2>1
<1> HIDE DEF s2
<1>3. /\ s3 \in Seq(Lexeme) /\ Len(s3) = k + 2 + e + 2
      /\ \A j \in 1..(k + 2 + e) : s3[j] = s2[j]
      /\ \A j \in 1..2 : s3[k + 2 + e + j] = b[j]
  <2>1. /\ s3 \in Seq(Lexeme) /\ Len(s3) = Len(s2) + Len(b)
        /\ \A j \in 1..Len(s2) : s3[j] = s2[j]
        /\ \A j \in 1..Len(b) : s3[Len(s2) + j] = b[j]
    BY <1>0, <1>2, <1>c
  <2> QED
    BY <1>0, <1>2, <2>1
<1>4. s3 = ExportedLine(key, value)
  BY DEF ExportedLine, s1, s2, a, b
<1> HIDE DEF s3, k, e
<1>5. Len(s3) = k + e + 4
  BY <1>0, <1>3
<1>6. \A j \in 1..k : s3[j] = key[j]
  <2> TAKE j \in 1..k
  <2>1. j \in 1..(k + 2) /\ j \in 1..(k + 2 + e)
    BY <1>0
  <2> QED
    BY <1>1, <1>2, <1>3, <2>1
<1>7. s3[k + 1] = "=" /\ s3[k + 2] = "quote"
  <2>1. k + 1 \in 1..(k + 2) /\ k + 1 \in 1..(k + 2 + e) /\ k + 2 \in 1..(k + 2) /\ k + 2 \in 1..(k + 2 + e)
    BY <1>0
  <2>2. s3[k + 1] = s1[k + 1] /\ s3[k + 2] = s1[k + 2]
    BY <1>2, <1>3, <2>1
  <2> QED
    BY <1>0, <1>1, <2>2
<1>8. \A j \in 1..e : s3[k + 2 + j] = Escaped(value)[j]
  <2> TAKE j \in 1..e
  <2>1. k + 2 + j \in 1..(k + 2 + e)
    BY <1>0
  <2> QED
    BY <1>2, <1>3, <2>1
<1>9. s3[k + e + 3] = "quote" /\ s3[k + e + 4] = "nl"
  <2>1. k + e + 3 = k + 2 + e + 1 /\ k + e + 4 = k + 2 + e + 2
    BY <1>0
  <2> QED
    BY <1>0, <1>3, <2>1
<1> QED
  BY <1>0, <1>3, <1>4, <1>5, <1>6, <1>7, <1>8, <1>9 DEF k, e

\* A name that an entry keeps: not empty, without blanks, line ends and =, and no comment.
PlainName(key) ==
  key # <<>> /\ Head(key) # "#" /\ ToSet(key) \cap {Blank, "nl", "="} = {}

\* The sequence l stands in the file at b.
Stands(file, b, l) ==
  /\ file \in Seq(FileChar) /\ b \in Nat /\ 1 <= b /\ b + Len(l) <= Len(file) + 1
  /\ \A j \in 1..Len(l) : file[b + j - 1] = Char(l[j])

\* Such a line that stands in a file at b is an entry, and imported as it was exported.
LEMMA LineImported ==
  ASSUME NEW key \in Seq(Lexeme), NEW value \in Seq(Lexeme), PlainName(key), "nl" \notin ToSet(value),
         NEW file, NEW b, Stands(file, b, ExportedLine(key, value)),
         NEW n, n = Len(ExportedLine(key, value))
  PROVE  /\ Line(file, b, b + n - 1) /\ n \in Nat /\ n > 0 /\ IsEntry(LineAt(file, b))
         /\ Entry(LineAt(file, b)).key = Chars(key)
         /\ ImportedValue(Entry(LineAt(file, b)).value) = Chars(value)
         /\ \A j \in 1..n : file[b + j - 1] = Char("nl") => j = n
         /\ file[b + n - 1] = Char("nl")
<1> DEFINE l == ExportedLine(key, value)
           k == Len(key)
           x == Len(Escaped(value))
           q == b + k
           e == b + n - 1
<1>0. /\ l \in Seq(Lexeme) /\ k \in Nat /\ x \in Nat /\ n = k + x + 4
      /\ \A j \in 1..k : l[j] = key[j]
      /\ l[k + 1] = "=" /\ l[k + 2] = "quote"
      /\ \A j \in 1..x : l[k + 2 + j] = Escaped(value)[j]
      /\ l[k + x + 3] = "quote" /\ l[k + x + 4] = "nl"
  <2>1. /\ l \in Seq(Lexeme) /\ k \in Nat /\ x \in Nat /\ Len(l) = k + x + 4
        /\ \A j \in 1..k : l[j] = key[j]
        /\ l[k + 1] = "=" /\ l[k + 2] = "quote"
        /\ \A j \in 1..x : l[k + 2 + j] = Escaped(value)[j]
        /\ l[k + x + 3] = "quote" /\ l[k + x + 4] = "nl"
    BY ExportedLineIs, Zenon
  <2>2. n = Len(l)
    OBVIOUS
  <2> HIDE DEF l, k, x
  <2> QED
    BY <2>1, <2>2
<1>1. /\ file \in Seq(FileChar) /\ b \in Nat /\ 1 <= b
      /\ Len(file) \in Nat /\ n \in Nat /\ e <= Len(file) /\ e \in Nat /\ q \in Nat
  <2>1. /\ file \in Seq(FileChar) /\ b \in Nat /\ 1 <= b /\ b + n <= Len(file) + 1
        /\ Len(file) \in Nat
    BY LenProperties DEF Stands
  <2> QED
    BY <1>0, <2>1
<1>2. \A j \in 1..n : file[b + j - 1] = Char(l[j])
  BY DEF Stands
<1>3. /\ k # 0 /\ key[1] # "#"
      /\ \A j \in 1..k : key[j] # Blank /\ key[j] # "nl" /\ key[j] # "=" /\ key[j] \in Lexeme
  <2>1. k # 0
    BY EmptySeq DEF PlainName
  <2>2. Head(key) = key[1]
    BY <2>1, EmptySeq
  <2>3. DOMAIN key = 1..k /\ \A j \in 1..k : key[j] \in Lexeme
    BY LenProperties, ElementOfSeq
  <2>4. \A j \in 1..k : key[j] \in ToSet(key)
    BY <2>3 DEF ToSet
  <2> QED
    BY <2>1, <2>2, <2>3, <2>4 DEF PlainName
<1>4. \A j \in 1..x : Escaped(value)[j] # "nl" /\ Escaped(value)[j] \in Lexeme
  BY EscapedHasNoLineEnd, EscapedIs, ElementOfSeq
<1> HIDE DEF l, k, x
<1>5. ASSUME NEW j \in 1..n, l[j] = "nl" PROVE j = n
  <2>1. \/ j \in 1..k \/ j = k + 1 \/ j = k + 2 \/ j - (k + 2) \in 1..x
        \/ j = k + x + 3 \/ j = n
    BY <1>0
  <2>2. ASSUME j - (k + 2) \in 1..x PROVE l[j] # "nl"
    <3>1. k + 2 + (j - (k + 2)) = j
      BY <1>0
    <3>2. l[k + 2 + (j - (k + 2))] = Escaped(value)[j - (k + 2)]
      BY <1>0, <2>2
    <3> QED
      BY <1>4, <2>2, <3>1, <3>2
  <2> QED
    BY <1>0, <1>3, <1>5, <2>1, <2>2
<1>6. \A j \in 1..n : file[b + j - 1] = Char("nl") => j = n
  <2> SUFFICES ASSUME NEW j \in 1..n, file[b + j - 1] = Char("nl") PROVE j = n
    OBVIOUS
  <2>1. Char(l[j]) = Char("nl")
    BY <1>2
  <2>2. l[j] = "nl"
    BY <2>1, CharIs
  <2> QED
    BY <1>5, <2>2
<1>7. file[e] = Char("nl")
  <2>1. n \in 1..n /\ l[n] = "nl"
    BY <1>0, <1>1
  <2> QED
    BY <1>2, <2>1
<1>8. Line(file, b, e)
  <2>1. ASSUME NEW i \in b..(e - 1) PROVE file[i] # Char("nl")
    <3>1. i - b + 1 \in 1..n /\ b + (i - b + 1) - 1 = i /\ i - b + 1 # n
      BY <1>1
    <3> QED
      BY <1>6, <3>1
  <2>2. b <= e /\ e <= Len(file) + 1
    BY <1>0, <1>1
  <2>3. Bounds(FileChar, file, b, e)
    BY <1>1, <2>2 DEF Bounds
  <2> QED
    BY <1>7, <2>1, <2>3 DEF Line
<1>9. \A j \in 1..k : file[b + j - 1] = Char(key[j])
  <2> TAKE j \in 1..k
  <2>1. j \in 1..n
    BY <1>0
  <2> QED
    BY <1>0, <1>2, <2>1
<1>10. file[q] = Char("=") /\ file[q + 1] = Char("quote") /\ file[e - 1] = Char("quote")
  <2>1. /\ k + 1 \in 1..n /\ b + (k + 1) - 1 = q /\ k + 2 \in 1..n /\ b + (k + 2) - 1 = q + 1
        /\ k + x + 3 \in 1..n /\ b + (k + x + 3) - 1 = e - 1
    BY <1>0, <1>1
  <2> QED
    BY <1>0, <1>2, <2>1
<1>11. \A j \in 1..x : file[q + 1 + j] = Char(Escaped(value)[j])
  <2> TAKE j \in 1..x
  <2>1. k + 2 + j \in 1..n /\ b + (k + 2 + j) - 1 = q + 1 + j
    BY <1>0, <1>1
  <2> QED
    BY <1>0, <1>2, <2>1
<1>12. /\ b < q /\ q = b + k /\ q + 2 + x = e - 1 /\ e - 1 \in Nat /\ q - 1 \in Nat /\ q + 1 \in Nat
       /\ e = b + k + x + 3 /\ b <= q - 1 /\ q + 1 <= e - 1 /\ q < e /\ e <= Len(file) + 1
  BY <1>0, <1>1, <1>3
<1>13. e = b + n - 1
  OBVIOUS
<1> HIDE DEF q, e
<1>14. \A i \in b..(q - 1) : file[i] # Char("=") /\ file[i] # Char(Blank)
  <2> TAKE i \in b..(q - 1)
  <2>1. i - b + 1 \in 1..k /\ b + (i - b + 1) - 1 = i
    BY <1>0, <1>1, <1>12
  <2>2. file[i] = Char(key[i - b + 1])
    BY <1>9, <2>1
  <2> QED
    BY <1>3, <2>1, <2>2, CharIs
<1>15. Divided(file, b, q, e)
  <2>1. q \in b..(e - 1)
    <3>1. b \in Nat /\ q \in Nat /\ e \in Nat /\ b < q /\ q < e
      BY <1>1, <1>12
    <3> QED
      BY <3>1
  <2> QED
    BY <1>8, <1>10, <1>14, <2>1 DEF Divided
<1>16. Char("quote") # Char(Blank) /\ Char("quote") # Char("single")
  <2>1. "quote" # Blank
    BY DEF Blank
  <2> QED
    BY <2>1, CharIs
<1>17. Trimmed(file, b, b, q - 1, q)
  <2>1. ASSUME NEW r, r = q - 1 PROVE Trimmed(file, b, b, r, q)
    <3>1. /\ r \in Nat /\ b <= r /\ r < q /\ b \in b..(q - 1) /\ r \in b..(q - 1)
          /\ b <= q /\ q <= Len(file) + 1
      BY <1>0, <1>1, <1>12, <2>1
    <3>2. b..(b - 1) = {} /\ (r + 1)..(q - 1) = {}
      BY <1>1, <2>1
    <3>3. Bounds(FileChar, file, b, q)
      BY <1>1, <3>1 DEF Bounds
    <3>4. file[b] # Char(Blank) /\ file[r] # Char(Blank)
      BY <1>14, <3>1
    <3>5. b <= b
      BY <1>1
    <3> QED
      BY <1>1, <3>1, <3>2, <3>3, <3>4, <3>5 DEF Trimmed
  <2> QED
    BY <2>1
<1>18. Trimmed(file, q + 1, q + 1, e - 1, e)
  <2>1. ASSUME NEW v, v = q + 1, NEW z, z = e - 1 PROVE Trimmed(file, v, v, z, e)
    <3>1. /\ v \in Nat /\ z \in Nat /\ 1 <= v /\ v <= e /\ v <= z /\ z < e /\ v <= v
      <4>1. q + 1 \in Nat /\ e - 1 \in Nat /\ q + 1 <= e - 1 /\ e \in Nat /\ q \in Nat
        BY <1>1, <1>12
      <4> QED
        BY <2>1, <4>1
    <3>2. v..(v - 1) = {} /\ (z + 1)..(e - 1) = {}
      BY <1>1, <2>1
    <3>3. Bounds(FileChar, file, v, e)
      BY <1>1, <1>12, <3>1 DEF Bounds
    <3>4. file[v] # Char(Blank) /\ file[z] # Char(Blank)
      BY <1>10, <1>16, <2>1
    <3> QED
      BY <3>1, <3>2, <3>3, <3>4 DEF Trimmed
  <2> QED
    BY <2>1
<1>19. file[b] # Char("#")
  <2>1. 1 \in 1..k /\ b + 1 - 1 = b
    BY <1>0, <1>1, <1>3
  <2>2. file[b] = Char(key[1])
    BY <1>9, <2>1
  <2> QED
    BY <1>3, <2>2, CharIs
<1>20. /\ IsEntry(LineAt(file, b))
       /\ Entry(LineAt(file, b)) = [key |-> Slice(file, b, (q - 1) + 1), value |-> Slice(file, q + 1, (e - 1) + 1)]
  <2>1. EntryShape(file, b, b, q - 1, q, q + 1, e - 1, e)
    BY <1>15, <1>17, <1>18, <1>19 DEF EntryShape
  <2> QED
    BY <2>1, EntryIs
<1>21. (q - 1) + 1 = q /\ (e - 1) + 1 = e
  <2>1. q \in Nat /\ e \in Nat
    BY <1>1
  <2> QED
    BY <2>1
<1>22. Slice(file, b, q) = Chars(key)
  <2>1. Bounds(FileChar, file, b, q)
    BY <1>17 DEF Trimmed
  <2>2. Sliced(FileChar, file, b, q)
    BY <2>1, SliceIs
  <2>3. /\ Slice(file, b, q) \in Seq(FileChar) /\ Len(Slice(file, b, q)) = k
        /\ \A i \in 1..k : Slice(file, b, q)[i] = file[b + i - 1]
    BY <1>0, <1>1, <1>12, <2>2 DEF Sliced
  <2>4. /\ Chars(key) \in Seq(FileChar) /\ Len(Chars(key)) = k
        /\ \A i \in 1..k : Chars(key)[i] = Char(key[i])
    BY CharsIs DEF k
  <2> QED
    BY <1>9, <2>3, <2>4, SeqEqual
<1>23. ImportedValue(Slice(file, q + 1, e)) = Chars(value)
  <2> DEFINE raw == Slice(file, q + 1, e)
             inner == Tail(raw)
  <2>1. Sliced(FileChar, file, q + 1, e)
    BY <1>18, SliceIs DEF Trimmed
  <2>2. /\ raw \in Seq(FileChar) /\ Len(raw) = x + 2
        /\ \A i \in 1..(x + 2) : raw[i] = file[q + i]
    <3>1. e - (q + 1) = x + 2 /\ \A i \in 1..(x + 2) : (q + 1) + i - 1 = q + i
      BY <1>0, <1>1, <1>12
    <3>2. /\ raw \in Seq(FileChar) /\ Len(raw) = e - (q + 1)
          /\ \A i \in 1..(e - (q + 1)) : raw[i] = file[(q + 1) + i - 1]
      BY <2>1 DEF Sliced
    <3> QED
      BY <3>1, <3>2
  <2> HIDE DEF raw
  <2>3. raw # <<>> /\ Head(raw) = raw[1]
    BY <1>0, <2>2, EmptySeq
  <2>4. /\ inner \in Seq(FileChar) /\ Len(inner) = x + 1
        /\ \A i \in 1..(x + 1) : inner[i] = raw[i + 1]
    <3>1. /\ inner \in Seq(FileChar) /\ Len(inner) = Len(raw) - 1
          /\ \A i \in 1..Len(inner) : inner[i] = raw[i + 1]
      BY <2>2, <2>3, HeadTailProperties
    <3> QED
      BY <1>0, <2>2, <3>1
  <2> HIDE DEF inner
  <2>5. raw[1] = Char("quote")
    <3>1. 1 \in 1..(x + 2)
      BY <1>0
    <3> QED
      BY <1>10, <2>2, <3>1
  <2>6. \A j \in 1..x : inner[j] = Char(Escaped(value)[j])
    <3> TAKE j \in 1..x
    <3>1. j \in 1..(x + 1) /\ j + 1 \in 1..(x + 2) /\ q + (j + 1) = q + 1 + j
      BY <1>0, <1>1
    <3> QED
      BY <1>11, <2>2, <2>4, <3>1
  <2>7. inner[x + 1] = Char("quote")
    <3>1. x + 1 \in 1..(x + 1) /\ (x + 1) + 1 \in 1..(x + 2) /\ q + ((x + 1) + 1) = e - 1
      BY <1>0, <1>1, <1>12
    <3> QED
      BY <1>10, <2>2, <2>4, <3>1
  <2>8. DoubleQuoted(inner) = Chars(value)
    BY <2>4, <2>6, <2>7, UnescapedIs DEF x
  <2>9. ImportedValue(raw) = DoubleQuoted(inner)
    <3>1. raw # <<>> /\ Head(raw) = Char("quote") /\ Head(raw) # Char("single")
      BY <1>16, <2>3, <2>5
    <3> QED
      BY <3>1 DEF ImportedValue, inner
  <2> QED
    BY <2>8, <2>9 DEF raw
<1> QED
  BY <1>0, <1>1, <1>6, <1>7, <1>8, <1>13, <1>20, <1>21, <1>22, <1>23

-----------------------------------------------------------------------------
(* export_dotenv and then import_dotenv.                                   *)

LEMMA ExportIs ==
  ASSUME NEW secrets \in Secrets
  PROVE  LET n == Len(secrets)
             lines == [i \in 1..n |-> ExportedLine(secrets[i].key, secrets[i].value)] IN
         /\ n \in Nat /\ DOMAIN secrets = 1..n
         /\ \A i \in 1..n : secrets[i].key \in Seq(Lexeme) /\ secrets[i].value \in Seq(Lexeme)
         /\ lines \in Seq(Seq(Lexeme)) /\ Len(lines) = n
         /\ ExportDotenv(secrets) = FlattenSeq(lines) /\ ExportDotenv(secrets) \in Seq(Lexeme)
<1> DEFINE n == Len(secrets)
           lines == [i \in 1..n |-> ExportedLine(secrets[i].key, secrets[i].value)]
<1>1. secrets \in Seq([key : Seq(Lexeme), value : Seq(Lexeme)])
  BY SecretsAssumption
<1>2. n \in Nat /\ DOMAIN secrets = 1..n
  BY <1>1, LenProperties
<1>3. \A i \in 1..n : secrets[i].key \in Seq(Lexeme) /\ secrets[i].value \in Seq(Lexeme)
  <2> TAKE i \in 1..n
  <2>1. secrets[i] \in [key : Seq(Lexeme), value : Seq(Lexeme)]
    BY <1>1, ElementOfSeq
  <2> QED
    BY <2>1
<1>4. \A i \in 1..n : ExportedLine(secrets[i].key, secrets[i].value) \in Seq(Lexeme)
  BY <1>3, ExportedLineIs
<1>5. lines \in Seq(Seq(Lexeme)) /\ Len(lines) = n
  BY <1>2, <1>4, IsASeq
<1>6. ExportDotenv(secrets) = FlattenSeq(lines)
  BY <1>2, Zenon DEF ExportDotenv, ExportedLine
<1>7. FlattenSeq(lines) \in Seq(Lexeme)
  <2> HIDE DEF lines
  <2> QED
    BY <1>5, LaidIs
<1> QED
  BY <1>2, <1>3, <1>5, <1>6, <1>7

\* After the last line end stands the empty line, which is no entry.
LEMMA EmptyLineIs ==
  ASSUME NEW file \in Seq(FileChar)
  PROVE  ~IsEntry(LineAt(file, Len(file) + 1))
<1>0. Len(file) \in Nat
  BY LenProperties
<1>1. ASSUME NEW m, m = Len(file) + 1 PROVE ~IsEntry(LineAt(file, m))
  <2>1. Bounds(FileChar, file, m, m) /\ ~(m <= Len(file)) /\ m..(m - 1) = {}
    BY <1>0, <1>1 DEF Bounds
  <2>2. Line(file, m, m)
    BY <2>1 DEF Line
  <2>3. Trim(Slice(file, m, m)) = <<>>
    BY <2>1, TrimBlank
  <2>4. LineAt(file, m) = Slice(file, m, m)
    BY <2>2, LineAtIs
  <2> QED
    BY <2>3, <2>4 DEF IsEntry
<1> QED
  BY <1>1

LEMMA ImportIs ==
  ASSUME NEW secrets \in Secrets,
         \A i \in DOMAIN secrets : PlainName(secrets[i].key) /\ "nl" \notin ToSet(secrets[i].value)
  PROVE  Stored(ImportDotenv(Chars(ExportDotenv(secrets)))) =
           AsMap([i \in DOMAIN secrets |->
                    [key |-> Chars(secrets[i].key), value |-> Chars(secrets[i].value)]])
<1> DEFINE n == Len(secrets)
           lines == [i \in 1..n |-> ExportedLine(secrets[i].key, secrets[i].value)]
           t == ExportDotenv(secrets)
           file == Chars(t)
           E == [i \in DOMAIN secrets |->
                   [key |-> Chars(secrets[i].key), value |-> Chars(secrets[i].value)]]
<1>1. /\ n \in Nat /\ DOMAIN secrets = 1..n
      /\ \A i \in 1..n : secrets[i].key \in Seq(Lexeme) /\ secrets[i].value \in Seq(Lexeme)
      /\ lines \in Seq(Seq(Lexeme)) /\ Len(lines) = n
      /\ t = FlattenSeq(lines) /\ t \in Seq(Lexeme)
  BY ExportIs
<1>2. \A i \in 1..n : lines[i] = ExportedLine(secrets[i].key, secrets[i].value)
  OBVIOUS
<1> HIDE DEF lines, t
<1>3. PICK start : Laid(lines, start)
  BY <1>1, LaidIs
<1>4. /\ file \in Seq(FileChar) /\ Len(file) = Len(t) /\ Len(t) \in Nat
      /\ \A i \in 1..Len(t) : file[i] = Char(t[i])
  BY <1>1, CharsIs
<1> HIDE DEF file
<1>5. /\ start[1] = 1 /\ start[n + 1] = Len(t) + 1
      /\ \A i \in 1..(n + 1) : start[i] \in Nat /\ 1 <= start[i] /\ start[i] <= Len(t) + 1
  <2>1. start[1] = 1 /\ start[n + 1] = Len(t) + 1
    BY <1>1, <1>3 DEF Laid
  <2>2. ASSUME NEW i \in 1..(n + 1) PROVE start[i] \in Nat /\ 1 <= start[i] /\ start[i] <= Len(t) + 1
    <3>1. 1 \in 1..(n + 1) /\ n + 1 \in 1..(n + 1) /\ 1 <= i /\ i <= n + 1
      BY <1>1
    <3>2. start[1] <= start[i] /\ start[i] <= start[n + 1] /\ start[i] \in Nat
      BY <1>1, <1>3, <3>1 DEF Laid
    <3> QED
      BY <2>1, <3>2
  <2> QED
    BY <2>1, <2>2
<1>6. ASSUME NEW i \in 1..n
      PROVE  /\ start[i] < start[i + 1] /\ IsEntry(LineAt(file, start[i]))
             /\ Entry(LineAt(file, start[i])).key = Chars(secrets[i].key)
             /\ ImportedValue(Entry(LineAt(file, start[i])).value) = Chars(secrets[i].value)
             /\ \A k \in start[i]..(start[i + 1] - 1) : file[k] = Char("nl") => k + 1 = start[i + 1]
             /\ file[start[i + 1] - 1] = Char("nl")
  <2> DEFINE b == start[i]
             m == Len(lines[i])
  <2>1. /\ start[i + 1] = b + m
        /\ \A j \in 1..m : t[b + j - 1] = lines[i][j]
    BY <1>1, <1>3 DEF Laid
  <2>2. b \in Nat /\ 1 <= b /\ start[i + 1] <= Len(t) + 1
    <3>1. i \in 1..(n + 1) /\ i + 1 \in 1..(n + 1)
      BY <1>1
    <3> QED
      BY <1>5, <3>1
  <2>3. m \in Nat
    <3>1. lines[i] \in Seq(Lexeme)
      BY <1>1, ElementOfSeq
    <3> QED
      BY <3>1, LenProperties
  <2>4. Stands(file, b, lines[i])
    <3>1. ASSUME NEW j \in 1..m PROVE file[b + j - 1] = Char(lines[i][j])
      <4>1. b + j - 1 \in 1..Len(t)
        BY <1>4, <2>1, <2>2, <2>3
      <4> QED
        BY <1>4, <2>1, <4>1
    <3> QED
      BY <1>4, <2>1, <2>2, <3>1 DEF Stands
  <2>5. PlainName(secrets[i].key) /\ "nl" \notin ToSet(secrets[i].value)
    BY <1>1
  <2>6. /\ m > 0 /\ IsEntry(LineAt(file, b))
        /\ Entry(LineAt(file, b)).key = Chars(secrets[i].key)
        /\ ImportedValue(Entry(LineAt(file, b)).value) = Chars(secrets[i].value)
        /\ \A j \in 1..m : file[b + j - 1] = Char("nl") => j = m
        /\ file[b + m - 1] = Char("nl")
    <3>1. secrets[i].key \in Seq(Lexeme) /\ secrets[i].value \in Seq(Lexeme)
      BY <1>1
    <3>2. lines[i] = ExportedLine(secrets[i].key, secrets[i].value)
      BY <1>2
    <3>3. Stands(file, b, ExportedLine(secrets[i].key, secrets[i].value))
      BY <2>4, <3>2
    <3>4. m = Len(ExportedLine(secrets[i].key, secrets[i].value))
      BY <3>2
    <3> HIDE DEF b, m
    <3> QED
      BY <2>5, <3>1, <3>3, <3>4, LineImported
  <2> HIDE DEF b, m
  <2>7. ASSUME NEW k \in b..(start[i + 1] - 1), file[k] = Char("nl") PROVE k + 1 = start[i + 1]
    <3>1. k - b + 1 \in 1..m /\ b + (k - b + 1) - 1 = k
      BY <2>1, <2>2, <2>3
    <3>2. k - b + 1 = m
      BY <2>6, <2>7, <3>1
    <3> QED
      BY <2>1, <2>2, <2>3, <3>2
  <2>8. b < start[i + 1]
    BY <2>1, <2>2, <2>3, <2>6
  <2> QED
    <3>1. file[start[i + 1] - 1] = Char("nl")
      BY <2>1, <2>2, <2>3, <2>6
    <3> QED
      BY <2>6, <2>7, <2>8, <3>1 DEF b
<1>7. \A i, j \in 1..n : i < j => start[i] < start[j]
  <2> SUFFICES ASSUME NEW i \in 1..n, NEW j \in 1..n, i < j PROVE start[i] < start[j]
    OBVIOUS
  <2>1. i \in 1..(n + 1) /\ j \in 1..(n + 1) /\ i + 1 \in 1..(n + 1) /\ i + 1 <= j
    BY <1>1
  <2>2. start[i + 1] <= start[j]
    BY <1>1, <1>3, <2>1 DEF Laid
  <2>3. start[i] < start[i + 1] /\ start[i] \in Nat /\ start[i + 1] \in Nat /\ start[j] \in Nat
    BY <1>5, <1>6, <2>1
  <2> QED
    BY <2>2, <2>3
<1>8. DOMAIN file = 1..Len(t)
  BY <1>4, LenProperties
<1>9. ASSUME NEW c \in Begins(file) PROVE \E i \in 1..(n + 1) : c = start[i]
  <2>1. CASE c = 1
    <3>1. 1 \in 1..(n + 1)
      BY <1>1
    <3> QED
      BY <1>5, <2>1, <3>1
  <2>2. CASE c # 1
    <3>1. PICK k \in 1..Len(t) : c = k + 1 /\ file[k] = Char("nl")
      BY <1>8, <1>9, <2>2 DEF Begins, Places
    <3>2. PICK i \in 1..n : start[i] <= k /\ k < start[i + 1]
      BY <1>1, <1>3 DEF Laid
    <3>3. i + 1 \in 1..(n + 1) /\ i \in 1..(n + 1)
      BY <1>1
    <3>4. start[i] \in Nat /\ start[i + 1] \in Nat
      BY <1>5, <3>3
    <3>5. k \in start[i]..(start[i + 1] - 1)
      BY <3>2, <3>4
    <3>6. c = start[i + 1]
      BY <1>6, <3>1, <3>5
    <3> QED
      BY <3>3, <3>6
  <2> QED
    BY <2>1, <2>2
<1>10. ASSUME NEW i \in 1..n PROVE start[i] \in Begins(file)
  <2>1. CASE i = 1
    BY <1>5, <2>1 DEF Begins
  <2>2. CASE i # 1
    <3>1. i - 1 \in 1..n /\ (i - 1) + 1 = i /\ i \in 1..(n + 1) /\ i - 1 \in 1..(n + 1)
      BY <1>1, <2>2
    <3>2. file[start[i] - 1] = Char("nl") /\ start[i - 1] < start[i]
      BY <1>6, <3>1
    <3>3. start[i] - 1 \in 1..Len(t) /\ (start[i] - 1) + 1 = start[i]
      BY <1>4, <1>5, <3>1, <3>2
    <3>4. start[i] - 1 \in Places(file, Char("nl"))
      BY <1>8, <3>2, <3>3 DEF Places
    <3> QED
      BY <3>3, <3>4 DEF Begins
  <2> QED
    BY <2>1, <2>2
<1> DEFINE D == {start[i] : i \in 1..n}
           entries == Entries(file)
           G == ImportDotenv(file)
           H == Stored(G)
<1>11. DOMAIN entries = D
  <2>1. DOMAIN entries = {c \in Begins(file) : IsEntry(LineAt(file, c))}
    BY DEF Entries
  <2>2. ASSUME NEW c \in Begins(file), IsEntry(LineAt(file, c)) PROVE c \in D
    <3>1. PICK i \in 1..(n + 1) : c = start[i]
      BY <1>9
    <3>2. i # n + 1
      BY <1>4, <1>5, <2>2, <3>1, EmptyLineIs
    <3>3. i \in 1..n
      BY <1>1, <3>2
    <3> QED
      BY <3>1, <3>3
  <2>3. ASSUME NEW c \in D PROVE c \in Begins(file) /\ IsEntry(LineAt(file, c))
    BY <1>6, <1>10
  <2> HIDE DEF D, entries
  <2> QED
    BY <2>1, <2>2, <2>3
<1>12. \A i \in 1..n : entries[start[i]] = Entry(LineAt(file, start[i]))
  <2> TAKE i \in 1..n
  <2>1. start[i] \in {c \in Begins(file) : IsEntry(LineAt(file, c))}
    BY <1>6, <1>10
  <2> QED
    BY <2>1 DEF Entries
<1> HIDE DEF entries
<1>13. \A i \in 1..n : Chars(secrets[i].key) # <<>> /\ Char(Blank) \notin ToSet(Chars(secrets[i].key))
  <2> TAKE i \in 1..n
  <2>1. PlainName(secrets[i].key) /\ secrets[i].key \in Seq(Lexeme)
    BY <1>1
  <2>2. ASSUME NEW k \in Seq(Lexeme), PlainName(k)
        PROVE  Chars(k) # <<>> /\ Char(Blank) \notin ToSet(Chars(k))
    <3>1. /\ Chars(k) \in Seq(FileChar) /\ Len(Chars(k)) = Len(k) /\ Len(k) \in Nat
          /\ \A j \in 1..Len(k) : Chars(k)[j] = Char(k[j])
      BY CharsIs
    <3>2. Len(k) # 0
      BY <2>2, EmptySeq DEF PlainName
    <3>3. DOMAIN Chars(k) = 1..Len(k) /\ DOMAIN k = 1..Len(k)
      BY <3>1, LenProperties
    <3>4. ASSUME NEW j \in 1..Len(k) PROVE Chars(k)[j] # Char(Blank)
      <4>1. k[j] # Blank
        BY <2>2, <3>3 DEF PlainName, ToSet
      <4> QED
        BY <3>1, <4>1, CharIs
    <3>5. Chars(k) # <<>>
      BY <3>1, <3>2, EmptySeq
    <3>6. Char(Blank) \notin ToSet(Chars(k))
      BY <3>3, <3>4 DEF ToSet
    <3> QED
      BY <3>5, <3>6
  <2> QED
    BY <2>1, <2>2
<1>14. \A c \in D : \E i \in 1..n : c = start[i]
  OBVIOUS
<1>15. \A i \in 1..n : start[i] \in D
  OBVIOUS
<1> HIDE DEF D
<1>16. {c \in DOMAIN entries : entries[c].key # <<>>} = D
  <2>1. \A c \in D : entries[c].key # <<>>
    BY <1>6, <1>12, <1>13, <1>14
  <2> QED
    BY <1>11, <2>1
<1>17. /\ DOMAIN G = D
       /\ \A i \in 1..n : G[start[i]].key = Chars(secrets[i].key)
                           /\ G[start[i]].value = Chars(secrets[i].value)
  <2>1. G = [b \in D |-> [entries[b] EXCEPT !.value = ImportedValue(@)]]
    BY <1>16 DEF ImportDotenv, entries
  <2>2. \A i \in 1..n : G[start[i]] = [entries[start[i]] EXCEPT !.value = ImportedValue(@)]
    BY <1>15, <2>1
  <2>3. \A line : Entry(line) = [key |-> Entry(line).key, value |-> Entry(line).value]
    BY DEF Entry
  <2>4. ASSUME NEW i \in 1..n
        PROVE  G[start[i]].key = Chars(secrets[i].key) /\ G[start[i]].value = Chars(secrets[i].value)
    <3> DEFINE en == Entry(LineAt(file, start[i]))
    <3>1. G[start[i]] = [en EXCEPT !.value = ImportedValue(@)]
      BY <1>12, <2>2
    <3>2. en = [key |-> en.key, value |-> en.value]
      BY <2>3
    <3>3. en.key = Chars(secrets[i].key) /\ ImportedValue(en.value) = Chars(secrets[i].value)
      BY <1>6
    <3> HIDE DEF en, G
    <3>4. [en EXCEPT !.value = ImportedValue(@)] = [key |-> en.key, value |-> ImportedValue(en.value)]
      BY <3>2
    <3> QED
      BY <3>1, <3>3, <3>4
  <2>5. DOMAIN G = D
    BY <2>1
  <2> QED
    BY <2>4, <2>5
<1> HIDE DEF G
<1>18. /\ DOMAIN H = DOMAIN H
       /\ H = AsMap(G)
  <2>1. \A d \in DOMAIN G : Char(Blank) \notin ToSet(G[d].key)
    BY <1>13, <1>14, <1>17
  <2> DEFINE W == {c \in DOMAIN G : \A d \in DOMAIN G : d <= c => Char(Blank) \notin ToSet(G[d].key)}
  <2>2. W = DOMAIN G
    BY <2>1
  <2>3. [b \in DOMAIN G |-> G[b]] = G
    BY DEF G, ImportDotenv
  <2>4. H = AsMap([b \in W |-> G[b]])
    BY DEF Stored
  <2> QED
    BY <2>2, <2>3, <2>4
<1>19. AsMap(E) = AsMap(G)
  <2>1. /\ DOMAIN E = 1..n
        /\ \A i \in 1..n : E[i].key = Chars(secrets[i].key) /\ E[i].value = Chars(secrets[i].value)
    BY <1>1
  <2> HIDE DEF E, n
  <2>2. /\ DOMAIN E \in SUBSET (1..n)
        /\ \A b \in DOMAIN E : /\ start[b] \in DOMAIN G /\ start[b] \in Nat
                               /\ E[b].key = G[start[b]].key /\ E[b].value = G[start[b]].value
    <3>1. \A i \in 1..n : i \in 1..(n + 1)
      BY <1>1
    <3> QED
      BY <1>5, <1>15, <1>17, <2>1, <3>1
  <2>3. \A c \in DOMAIN G : \E b \in DOMAIN E : start[b] = c
    BY <1>14, <1>17, <2>1
  <2>4. \A b, c \in DOMAIN E : b < c => start[b] < start[c]
    BY <1>7, <2>1
  <2> QED
    BY <1>1, <2>2, <2>3, <2>4, AsMapSame
<1> QED
  BY <1>18, <1>19 DEF G, file, t

-----------------------------------------------------------------------------
(* Plain lines.                                                            *)

LEMMA InSlice ==
  ASSUME NEW file, NEW p, NEW r, Bounds(FileChar, file, p, r + 1), p \in Nat, r \in Nat, p <= r
  PROVE  /\ \A i \in p..r : file[i] \in ToSet(Slice(file, p, r + 1))
         /\ \A i \in (p + 1)..r : file[i] \in ToSet(Tail(Slice(file, p, r + 1)))
         /\ Head(Slice(file, p, r + 1)) = file[p]
<1> DEFINE s == Slice(file, p, r + 1)
<1>1. Sliced(FileChar, file, p, r + 1)
  BY SliceIs
<1>2. s \in Seq(FileChar) /\ Len(s) = r + 1 - p /\ \A i \in 1..(r + 1 - p) : s[i] = file[p + i - 1]
  BY <1>1 DEF Sliced
<1> HIDE DEF s
<1>3. DOMAIN s = 1..(r + 1 - p)
  BY <1>2, LenProperties
<1>4. ASSUME NEW i \in p..r PROVE file[i] \in ToSet(s)
  <2>1. i - p + 1 \in 1..(r + 1 - p) /\ p + (i - p + 1) - 1 = i
    OBVIOUS
  <2>2. s[i - p + 1] = file[i]
    BY <1>2, <2>1
  <2> QED
    BY <1>3, <2>1, <2>2 DEF ToSet
<1>5. s # <<>>
  BY <1>2, EmptySeq
<1>6. /\ Tail(s) \in Seq(FileChar) /\ Len(Tail(s)) = Len(s) - 1
      /\ \A i \in 1..Len(Tail(s)) : Tail(s)[i] = s[i + 1]
  BY <1>2, <1>5, HeadTailProperties
<1> DEFINE u == Tail(s)
<1>7. DOMAIN u = 1..(r - p) /\ \A i \in 1..(r - p) : u[i] = s[i + 1]
  <2>1. Len(u) = r - p
    BY <1>2, <1>6
  <2> HIDE DEF u
  <2>2. u \in Seq(FileChar)
    BY <1>6 DEF u
  <2>3. DOMAIN u = 1..Len(u)
    BY <2>2, LenProperties
  <2>4. \A i \in 1..Len(u) : u[i] = s[i + 1]
    BY <1>6 DEF u
  <2> QED
    BY <2>1, <2>3, <2>4
<1> HIDE DEF u
<1>8. ASSUME NEW i \in (p + 1)..r PROVE file[i] \in ToSet(u)
  <2>1. /\ i - p \in 1..(r - p) /\ (i - p) + 1 \in 1..(r + 1 - p) /\ p + ((i - p) + 1) - 1 = i
    OBVIOUS
  <2>2. u[i - p] = file[i]
    BY <1>2, <1>7, <2>1
  <2> QED
    BY <1>7, <2>1, <2>2 DEF ToSet
<1>9. Head(s) = file[p]
  <2>1. Head(s) = s[1]
    BY <1>2, <1>5
  <2>2. 1 \in 1..(r + 1 - p) /\ p + 1 - 1 = p
    OBVIOUS
  <2> QED
    BY <1>2, <2>1, <2>2
<1> QED
  BY <1>4, <1>8, <1>9 DEF s, u

\* The line of the text from b to e reads name=value: the name from p to r, the = at q,
\* the value from v to z.
PlainEntry(t, b, p, r, q, v, z, e) ==
  /\ EntryShape(Chars(t), b, p, r, q, v, z, e)
  /\ \A i \in p..r : t[i] \in {"w", "key"}
  /\ t[v] \in {"w", "x", "prefix", "jwt"}
  /\ \A i \in (v + 1)..z : t[i] \in {"w", "x"}

\* ... or it has nothing that a scanner looks for.
PlainRest(t, b, e) ==
  /\ Line(Chars(t), b, e)
  /\ \A i \in b..(e - 1) : t[i] \in {"#", Blank, "w", "x"}

LEMMA PlainLineIs ==
  ASSUME NEW t \in Seq(Lexeme), NEW b \in 1..(Len(t) + 1), PlainLine(LineAt(Chars(t), b))
  PROVE  \E e : PlainRest(t, b, e) \/ \E p, r, q, v, z : PlainEntry(t, b, p, r, q, v, z, e)
<1> DEFINE file == Chars(t)
           line == LineAt(file, b)
<1>1. /\ file \in Seq(FileChar) /\ Len(file) = Len(t) /\ Len(t) \in Nat
      /\ \A i \in 1..Len(t) : file[i] = Char(t[i])
  BY CharsIs
<1>2. PICK e \in Nat : Line(file, b, e)
  <2>1. b \in 1..(Len(file) + 1)
    BY <1>1
  <2> HIDE DEF file
  <2> QED
    BY <1>1, <2>1, LineExists
<1>3. line = Slice(file, b, e) /\ Bounds(FileChar, file, b, e)
  BY <1>2, LineAtIs DEF Line
<1>4. b \in Nat /\ 1 <= b /\ b <= e /\ e <= Len(t) + 1
  BY <1>1, <1>3 DEF Bounds
<1>5. \A c : \A i \in b..(e - 1) : file[i] = Char(c) => t[i] = c
  <2> TAKE c
  <2> SUFFICES ASSUME NEW i \in b..(e - 1), file[i] = Char(c) PROVE t[i] = c
    OBVIOUS
  <2>1. i \in 1..Len(t)
    BY <1>1, <1>4
  <2>2. Char(t[i]) = Char(c)
    BY <1>1, <2>1
  <2> QED
    BY <2>2, CharIs
<1> HIDE DEF file, line
<1>6. CASE Trim(line) = <<>>
  <2>1. ASSUME NEW k \in b..(e - 1), file[k] # Char(Blank) PROVE FALSE
    <3>1. PICK p, r \in b..(e - 1) : Trimmed(file, b, p, r, e)
      BY <1>3, <2>1, TrimmedExists
    <3> QED
      BY <1>3, <1>6, <3>1, TrimIs
  <2>2. \A i \in b..(e - 1) : t[i] = Blank
    BY <1>5, <2>1
  <2> QED
    BY <1>2, <2>2 DEF PlainRest, file
<1>7. CASE Trim(line) # <<>> /\ ToSet(Trim(line)) \subseteq {Char(c) : c \in {"#", Blank, "w", "x"}}
  <2>1. PICK k \in b..(e - 1) : file[k] # Char(Blank)
    BY <1>3, <1>7, TrimBlank
  <2>2. PICK p, r \in b..(e - 1) : Trimmed(file, b, p, r, e)
    BY <1>3, <2>1, TrimmedExists
  <2>3. Trim(line) = Slice(file, p, r + 1)
    BY <1>3, <2>2, TrimIs
  <2>4. /\ p \in Nat /\ r \in Nat /\ p <= r /\ b <= p /\ r < e
        /\ \A i \in b..(p - 1) : file[i] = Char(Blank)
        /\ \A i \in (r + 1)..(e - 1) : file[i] = Char(Blank)
    BY <2>2 DEF Trimmed
  <2>5. Bounds(FileChar, file, p, r + 1)
    BY <1>1, <1>3, <1>4, <2>4 DEF Bounds
  <2>6. \A i \in p..r : file[i] \in ToSet(Slice(file, p, r + 1))
    BY <2>4, <2>5, InSlice
  <2>7. \A i \in p..r : \E c \in {"#", Blank, "w", "x"} : file[i] = Char(c)
    BY <1>7, <2>3, <2>6
  <2>8. \A i \in b..(e - 1) : i \in b..(p - 1) \/ i \in p..r \/ i \in (r + 1)..(e - 1)
    BY <1>4, <2>4
  <2>9. \A i \in b..(e - 1) : t[i] \in {"#", Blank, "w", "x"}
    BY <1>5, <2>4, <2>7, <2>8
  <2> QED
    BY <1>2, <2>9 DEF PlainRest, file
<1>8. CASE /\ Places(line, Char("=")) # {}
           /\ Entry(line).key # <<>> /\ Entry(line).value # <<>>
           /\ ToSet(Entry(line).key) \subseteq {Char("w"), Char("key")}
           /\ Head(Entry(line).value) \in {Char(c) : c \in {"w", "x", "prefix", "jwt"}}
           /\ ToSet(Tail(Entry(line).value)) \subseteq {Char("w"), Char("x")}
  <2>1. PICK q \in b..(e - 1) :
           /\ Divided(file, b, q, e)
           /\ \E p, r \in b..(q - 1) : Trimmed(file, b, p, r, q)
           /\ \E v, z \in (q + 1)..(e - 1) : Trimmed(file, q + 1, v, z, e)
    BY <1>2, <1>8, EntryShapeExists DEF line
  <2>2. PICK p, r \in b..(q - 1) : Trimmed(file, b, p, r, q)
    BY <2>1
  <2>3. PICK v, z \in (q + 1)..(e - 1) : Trimmed(file, q + 1, v, z, e)
    BY <2>1
  <2>4. Entry(line).key = Slice(file, p, r + 1)
    BY <2>1, <2>2, EntryParts, TrimIs DEF line
  <2>5. Entry(line).value = Slice(file, v, z + 1)
    BY <2>1, <2>3, EntryParts, TrimIs DEF line
  <2>6. /\ p \in Nat /\ r \in Nat /\ p <= r /\ b <= p /\ r < q /\ q \in Nat
        /\ v \in Nat /\ z \in Nat /\ v <= z /\ q + 1 <= v /\ z < e
    BY <1>4, <2>1, <2>2, <2>3 DEF Trimmed
  <2>7. Bounds(FileChar, file, p, r + 1) /\ Bounds(FileChar, file, v, z + 1)
    BY <1>1, <1>3, <1>4, <2>6 DEF Bounds
  <2>8. \A i \in p..r : t[i] \in {"w", "key"}
    <3> TAKE i \in p..r
    <3>1. file[i] \in ToSet(Slice(file, p, r + 1))
      BY <2>6, <2>7, InSlice
    <3>2. file[i] \in {Char("w"), Char("key")}
      BY <1>8, <2>4, <3>1
    <3>3. i \in b..(e - 1)
      BY <1>4, <2>6
    <3> QED
      BY <1>5, <3>2, <3>3
  <2>9. t[v] \in {"w", "x", "prefix", "jwt"}
    <3>1. Head(Slice(file, v, z + 1)) = file[v]
      BY <2>6, <2>7, InSlice
    <3>2. \E c \in {"w", "x", "prefix", "jwt"} : file[v] = Char(c)
      BY <1>8, <2>5, <3>1
    <3>3. v \in b..(e - 1)
      BY <1>4, <2>6
    <3> QED
      BY <1>5, <3>2, <3>3
  <2>10. \A i \in (v + 1)..z : t[i] \in {"w", "x"}
    <3> TAKE i \in (v + 1)..z
    <3>1. file[i] \in ToSet(Tail(Slice(file, v, z + 1)))
      BY <2>6, <2>7, InSlice
    <3>2. file[i] \in {Char("w"), Char("x")}
      BY <1>8, <2>5, <3>1
    <3>3. i \in b..(e - 1)
      BY <1>4, <2>6
    <3> QED
      BY <1>5, <3>2, <3>3
  <2>11. file[p] # Char("#")
    <3>1. p \in p..r /\ p \in b..(e - 1)
      BY <1>4, <2>6
    <3>2. t[p] # "#"
      BY <2>8, <3>1
    <3> QED
      BY <1>5, <3>1, <3>2
  <2>12. EntryShape(file, b, p, r, q, v, z, e)
    BY <2>1, <2>2, <2>3, <2>11 DEF EntryShape
  <2>13. PlainEntry(t, b, p, r, q, v, z, e)
    BY <2>8, <2>9, <2>10, <2>12 DEF PlainEntry, file
  <2> QED
    BY <2>13
<1> QED
  BY <1>6, <1>7, <1>8 DEF PlainLine, line, file

-----------------------------------------------------------------------------
(* Where the scanners find something in a text of plain lines.             *)

PlainText(t) == \A b \in Begins(Chars(t)) : PlainLine(LineAt(Chars(t), b))

\* A plain entry, place by place.
EntryText(t, b, p, r, q, v, z, e) ==
  /\ b \in Nat /\ p \in Nat /\ r \in Nat /\ q \in Nat /\ v \in Nat /\ z \in Nat /\ e \in Nat
  /\ 1 <= b /\ b <= p /\ p <= r /\ r < q /\ q < v /\ v <= z /\ z < e /\ e <= Len(t) + 1
  /\ \A i \in b..(p - 1) : t[i] = Blank
  /\ \A i \in p..r : t[i] \in {"w", "key"}
  /\ \A i \in (r + 1)..(q - 1) : t[i] = Blank
  /\ t[q] = "="
  /\ \A i \in (q + 1)..(v - 1) : t[i] = Blank
  /\ t[v] \in {"w", "x", "prefix", "jwt"} /\ \A i \in (v + 1)..z : t[i] \in {"w", "x"}
  /\ \A i \in (z + 1)..(e - 1) : t[i] = Blank
  /\ e <= Len(t) => t[e] = "nl"

LEMMA CharAt ==
  ASSUME NEW t \in Seq(Lexeme), NEW i \in 1..Len(t), NEW c, Chars(t)[i] = Char(c)
  PROVE  t[i] = c
<1>1. Chars(t)[i] = Char(t[i])
  BY CharsIs
<1> QED
  BY <1>1, CharIs

LEMMA EntryTextIs ==
  ASSUME NEW t \in Seq(Lexeme), NEW b, NEW p, NEW r, NEW q, NEW v, NEW z, NEW e,
         PlainEntry(t, b, p, r, q, v, z, e)
  PROVE  EntryText(t, b, p, r, q, v, z, e)
<1> DEFINE file == Chars(t)
<1>1. Len(file) = Len(t) /\ Len(t) \in Nat
  BY CharsIs
<1> HIDE DEF file
<1>2. /\ Divided(file, b, q, e) /\ Trimmed(file, b, p, r, q) /\ Trimmed(file, q + 1, v, z, e)
  BY DEF PlainEntry, EntryShape, file
<1>3. /\ b \in Nat /\ e \in Nat /\ 1 <= b /\ e <= Len(t) + 1 /\ q \in b..(e - 1) /\ file[q] = Char("=")
      /\ e <= Len(t) => file[e] = Char("nl")
  BY <1>1, <1>2 DEF Divided, Line, Bounds
<1>4. /\ p \in Nat /\ r \in Nat /\ b <= p /\ p <= r /\ r < q
      /\ \A i \in b..(p - 1) : file[i] = Char(Blank)
      /\ \A i \in (r + 1)..(q - 1) : file[i] = Char(Blank)
  BY <1>2 DEF Trimmed
<1>5. /\ v \in Nat /\ z \in Nat /\ q + 1 <= v /\ v <= z /\ z < e
      /\ \A i \in (q + 1)..(v - 1) : file[i] = Char(Blank)
      /\ \A i \in (z + 1)..(e - 1) : file[i] = Char(Blank)
  <2>1. ASSUME NEW x, x = q + 1, Trimmed(file, x, v, z, e)
        PROVE  /\ v \in Nat /\ z \in Nat /\ x <= v /\ v <= z /\ z < e
               /\ \A i \in x..(v - 1) : file[i] = Char(Blank)
               /\ \A i \in (z + 1)..(e - 1) : file[i] = Char(Blank)
    BY <2>1 DEF Trimmed
  <2> QED
    BY <1>2, <2>1
<1>6. q \in Nat /\ r < q /\ q < v
  BY <1>3, <1>4, <1>5
<1>7. \A i \in b..(e - 1) : i \in 1..Len(t)
  BY <1>1, <1>3
<1>8. \A c : \A i \in b..(e - 1) : file[i] = Char(c) => t[i] = c
  BY <1>7, CharAt DEF file
<1>9. /\ \A i \in b..(p - 1) : t[i] = Blank
      /\ \A i \in (r + 1)..(q - 1) : t[i] = Blank
      /\ \A i \in (q + 1)..(v - 1) : t[i] = Blank
      /\ \A i \in (z + 1)..(e - 1) : t[i] = Blank
  <2>1. /\ b..(p - 1) \subseteq b..(e - 1) /\ (r + 1)..(q - 1) \subseteq b..(e - 1)
        /\ (q + 1)..(v - 1) \subseteq b..(e - 1) /\ (z + 1)..(e - 1) \subseteq b..(e - 1)
    BY <1>3, <1>4, <1>5, <1>6
  <2> QED
    BY <1>4, <1>5, <1>8, <2>1
<1>10. t[q] = "="
  BY <1>3, <1>8
<1>11. ASSUME e <= Len(t) PROVE t[e] = "nl"
  <2>1. e \in 1..Len(t)
    BY <1>1, <1>3, <1>6, <1>11
  <2> QED
    BY <1>3, <1>11, <2>1, CharAt DEF file
<1>12. /\ \A i \in p..r : t[i] \in {"w", "key"}
       /\ t[v] \in {"w", "x", "prefix", "jwt"}
       /\ \A i \in (v + 1)..z : t[i] \in {"w", "x"}
  BY DEF PlainEntry
<1> QED
  BY <1>3, <1>4, <1>5, <1>6, <1>9, <1>10, <1>11, <1>12 DEF EntryText

\* Every character that ends no line is on one.
LEMMA OnLine ==
  ASSUME NEW t \in Seq(Lexeme), PlainText(t), NEW k \in 1..Len(t), t[k] # "nl"
  PROVE  \E b \in Begins(Chars(t)), e \in Nat :
           /\ b \in Nat /\ b <= k /\ k < e /\ \A i \in b..(e - 1) : t[i] # "nl"
           /\ \/ PlainRest(t, b, e)
              \/ \E p, r, q, v, z : PlainEntry(t, b, p, r, q, v, z, e)
<1> DEFINE file == Chars(t)
           S == {b \in 1..k : b \in Begins(file)}
<1>1. /\ file \in Seq(FileChar) /\ Len(file) = Len(t) /\ Len(t) \in Nat /\ DOMAIN file = 1..Len(t)
      /\ \A i \in 1..Len(t) : file[i] = Char(t[i])
  <2>1. /\ file \in Seq(FileChar) /\ Len(file) = Len(t) /\ Len(t) \in Nat
        /\ \A i \in 1..Len(t) : file[i] = Char(t[i])
    BY CharsIs
  <2> HIDE DEF file
  <2>2. DOMAIN file = 1..Len(file)
    BY <2>1, LenProperties
  <2> QED
    BY <2>1, <2>2
<1> HIDE DEF file
<1>2. S \in SUBSET (1..k) /\ 1 \in S /\ k \in Nat
  BY <1>1 DEF Begins
<1>3. PICK b \in S : \A c \in S : c <= b
  <2> HIDE DEF S
  <2> QED
    BY <1>2, GreatestExists
<1>4. b \in Begins(file) /\ b \in 1..k /\ b \in 1..(Len(t) + 1)
  BY <1>1
<1>5. PICK e : PlainRest(t, b, e) \/ \E p, r, q, v, z : PlainEntry(t, b, p, r, q, v, z, e)
  BY <1>4, PlainLineIs DEF PlainText, file
<1>6. Line(file, b, e)
  BY <1>5 DEF PlainRest, PlainEntry, EntryShape, Divided, file
<1>7. /\ e \in Nat /\ b <= e /\ e <= Len(t) + 1 /\ (e <= Len(t) => file[e] = Char("nl"))
      /\ \A i \in b..(e - 1) : file[i] # Char("nl")
  BY <1>1, <1>6 DEF Line, Bounds
<1>8. \A i \in 1..Len(t) : file[i] = Char("nl") <=> t[i] = "nl"
  BY <1>1, CharIs
<1>9. k < e
  <2> SUFFICES ASSUME ~(k < e) PROVE FALSE
    OBVIOUS
  <2>1. e \in 1..Len(t) /\ e <= k
    BY <1>1, <1>4, <1>7
  <2>2. file[e] = Char("nl") /\ t[e] = "nl"
    BY <1>7, <1>8, <2>1
  <2>3. e # k /\ e + 1 \in 1..k
    BY <2>1, <2>2
  <2>4. e + 1 \in Begins(file)
    BY <1>1, <2>1, <2>2 DEF Begins, Places
  <2>5. e + 1 <= b
    BY <1>3, <2>3, <2>4
  <2> QED
    BY <1>4, <1>7, <2>5
<1>10. \A i \in b..(e - 1) : t[i] # "nl"
  <2> TAKE i \in b..(e - 1)
  <2>1. i \in 1..Len(t)
    BY <1>1, <1>4, <1>7
  <2> QED
    BY <1>7, <1>8, <2>1
<1> QED
  BY <1>4, <1>5, <1>7, <1>9, <1>10 DEF file

\* The value of a plain entry goes from v up to, and without, w.
ValueStretch(t, v, w) ==
  \E b, p, r, q, z, e :
    b \in Begins(Chars(t)) /\ b \in Nat /\ PlainEntry(t, b, p, r, q, v, z, e) /\ w = z + 1

LEMMA RunEndUnique ==
  ASSUME NEW t \in Seq(Lexeme), NEW i \in Nat, NEW class, NEW e \in i..(Len(t) + 1),
         \A j \in i..(e - 1) : t[j] \in class, e <= Len(t) => t[e] \notin class
  PROVE  RunEnd(t, i, class) = e
<1> DEFINE Ends(d) == /\ \A j \in i..(d - 1) : t[j] \in class
                      /\ d <= Len(t) => t[d] \notin class
           x == CHOOSE d \in i..(Len(t) + 1) : Ends(d)
<1>0. Len(t) \in Nat
  BY LenProperties
<1>1. Ends(e)
  OBVIOUS
<1>2. x \in i..(Len(t) + 1) /\ Ends(x)
  <2> HIDE DEF Ends
  <2> QED
    BY <1>1
<1>3. RunEnd(t, i, class) = x
  BY DEF RunEnd
<1> HIDE DEF x
<1>4. ~(x < e)
  <2> SUFFICES ASSUME x < e PROVE FALSE
    OBVIOUS
  <2>1. x \in i..(e - 1) /\ x <= Len(t)
    BY <1>0, <1>2
  <2> QED
    BY <1>2, <2>1
<1>5. ~(e < x)
  <2> SUFFICES ASSUME e < x PROVE FALSE
    OBVIOUS
  <2>1. e \in i..(x - 1) /\ e <= Len(t)
    BY <1>0, <1>2
  <2> QED
    BY <1>2, <2>1
<1>6. x = e
  BY <1>0, <1>2, <1>4, <1>5
<1> QED
  BY <1>3, <1>6

\* From v on, the run of a class with the characters of values, not with blanks and line
\* ends, is the value.
LEMMA ValueRun ==
  ASSUME NEW t \in Seq(Lexeme), NEW b, NEW p, NEW r, NEW q, NEW v, NEW z, NEW e,
         PlainEntry(t, b, p, r, q, v, z, e),
         NEW class, {"w", "x", "prefix", "jwt"} \subseteq class, Blank \notin class, "nl" \notin class
  PROVE  RunEnd(t, v, class) = z + 1
<1>1. EntryText(t, b, p, r, q, v, z, e) /\ Len(t) \in Nat
  BY EntryTextIs, LenProperties
<1>2. ASSUME NEW d, d = z + 1 PROVE RunEnd(t, v, class) = d
  <2>1. v \in Nat /\ z \in Nat /\ e \in Nat /\ v <= z /\ z < e /\ e <= Len(t) + 1
    BY <1>1 DEF EntryText
  <2>2. d \in v..(Len(t) + 1) /\ d \in Nat /\ d <= e
    BY <1>1, <1>2, <2>1
  <2>3. \A j \in v..(d - 1) : t[j] \in class
    <3> TAKE j \in v..(d - 1)
    <3>1. j = v \/ j \in (v + 1)..z
      BY <1>2, <2>1
    <3>2. t[j] \in {"w", "x", "prefix", "jwt"}
      BY <1>1, <3>1 DEF EntryText
    <3> QED
      BY <3>2
  <2>4. ASSUME d <= Len(t) PROVE t[d] \notin class
    <3>1. CASE d < e
      <4>1. d \in (z + 1)..(e - 1)
        BY <1>2, <2>1, <2>2, <3>1
      <4> QED
        BY <1>1, <4>1 DEF EntryText
    <3>2. CASE d = e
      BY <1>1, <2>4, <3>2 DEF EntryText
    <3> QED
      BY <2>1, <2>2, <3>1, <3>2
  <2> QED
    BY <2>1, <2>2, <2>3, <2>4, RunEndUnique
<1> QED
  BY <1>2

\* What of a plain text the scanners look for begins a value, but for the key words.
LEMMA PlainPlaces ==
  ASSUME NEW t \in Seq(Lexeme), PlainText(t), NEW k \in 1..Len(t)
  PROVE  /\ t[k] \notin {"bearer", "begin", "scheme"}
         /\ t[k] \in {"prefix", "jwt"} =>
              \E b, p, r, q, z, e : b \in Begins(Chars(t)) /\ b \in Nat /\ PlainEntry(t, b, p, r, q, k, z, e)
         /\ t[k] = "key" =>
              \E b, p, r, q, v, z, e :
                b \in Begins(Chars(t)) /\ b \in Nat /\ PlainEntry(t, b, p, r, q, v, z, e) /\ k \in p..r
<1> SUFFICES ASSUME t[k] \in {"bearer", "begin", "scheme", "prefix", "jwt", "key"}
             PROVE  /\ t[k] \notin {"bearer", "begin", "scheme"}
                    /\ t[k] \in {"prefix", "jwt"} =>
                         \E b, p, r, q, z, e : b \in Begins(Chars(t)) /\ b \in Nat /\ PlainEntry(t, b, p, r, q, k, z, e)
                    /\ t[k] = "key" =>
                         \E b, p, r, q, v, z, e :
                           b \in Begins(Chars(t)) /\ b \in Nat /\ PlainEntry(t, b, p, r, q, v, z, e) /\ k \in p..r
  OBVIOUS
<1>1. PICK b \in Begins(Chars(t)), e \in Nat :
           /\ b \in Nat /\ b <= k /\ k < e
           /\ \/ PlainRest(t, b, e)
              \/ \E p, r, q, v, z : PlainEntry(t, b, p, r, q, v, z, e)
  <2>1. t[k] # "nl"
    OBVIOUS
  <2> QED
    BY <2>1, OnLine
<1>2. k \in b..(e - 1)
  BY <1>1
<1>3. ~PlainRest(t, b, e)
  <2>1. t[k] \notin {"#", Blank, "w", "x"}
    BY DEF Blank
  <2> QED
    BY <1>2, <2>1 DEF PlainRest
<1>4. PICK p, r, q, v, z : PlainEntry(t, b, p, r, q, v, z, e)
  BY <1>1, <1>3
<1>5. EntryText(t, b, p, r, q, v, z, e)
  BY <1>4, EntryTextIs
<1>6. \/ k \in b..(p - 1) \/ k \in p..r \/ k \in (r + 1)..(q - 1) \/ k = q \/ k \in (q + 1)..(v - 1)
      \/ k = v \/ k \in (v + 1)..z \/ k \in (z + 1)..(e - 1)
  BY <1>1, <1>2, <1>5 DEF EntryText
<1>7. t[k] # Blank /\ t[k] # "=" /\ t[k] \notin {"w", "x"}
  BY DEF Blank
<1>8. (k \in p..r /\ t[k] = "key") \/ (k = v /\ t[k] \in {"prefix", "jwt"})
  <2>1. CASE k \in p..r
    <3>1. t[k] \in {"w", "key"}
      BY <1>5, <2>1 DEF EntryText
    <3> QED
      BY <1>7, <2>1, <3>1
  <2>2. CASE k = v
    <3>1. t[k] \in {"w", "x", "prefix", "jwt"}
      BY <1>5, <2>2 DEF EntryText
    <3> QED
      BY <1>7, <2>2, <3>1
  <2> QED
    BY <1>5, <1>6, <1>7, <2>1, <2>2 DEF EntryText
<1>9. CASE k \in p..r /\ t[k] = "key"
  BY <1>1, <1>4, <1>9
<1>10. CASE k = v /\ t[k] \in {"prefix", "jwt"}
  BY <1>1, <1>4, <1>10
<1> QED
  BY <1>8, <1>9, <1>10

\* From a key word in a name on, the run of other characters than separators is the rest
\* of the name, and the separators and quotes after it end where the value begins.
LEMMA KeyRun ==
  ASSUME NEW t \in Seq(Lexeme), NEW b, NEW p, NEW r, NEW q, NEW v, NEW z, NEW e,
         PlainEntry(t, b, p, r, q, v, z, e), NEW k \in p..r
  PROVE  /\ FirstFrom(t, k, Separators) = r + 1
         /\ RunEnd(t, r + 1, Separators \cup Quotes) = v
<1>1. EntryText(t, b, p, r, q, v, z, e) /\ Len(t) \in Nat
  BY EntryTextIs, LenProperties
<1>2. /\ p \in Nat /\ r \in Nat /\ q \in Nat /\ v \in Nat /\ z \in Nat /\ e \in Nat
      /\ 1 <= p /\ p <= r /\ r < q /\ q < v /\ v <= z /\ z < e /\ e <= Len(t) + 1
  BY <1>1 DEF EntryText
<1>3. ASSUME NEW s, s = r + 1
      PROVE  RunEnd(t, k, Lexeme \ Separators) = s /\ RunEnd(t, s, Separators \cup Quotes) = v
  <2>1. s \in Nat /\ k \in Nat /\ s \in k..(Len(t) + 1) /\ v \in s..(Len(t) + 1)
    BY <1>1, <1>2, <1>3
  <2>2. \A j \in k..(s - 1) : t[j] \in Lexeme \ Separators
    <3> TAKE j \in k..(s - 1)
    <3>1. j \in p..r
      BY <1>2, <1>3
    <3>2. t[j] \in {"w", "key"}
      BY <1>1, <3>1 DEF EntryText
    <3> QED
      BY <3>2 DEF Lexeme, Separators, Blank
  <2>3. t[s] \notin Lexeme \ Separators
    <3>1. s = q \/ s \in (r + 1)..(q - 1)
      BY <1>2, <1>3
    <3>2. t[s] = "=" \/ t[s] = Blank
      BY <1>1, <3>1 DEF EntryText
    <3> QED
      BY <3>2 DEF Separators
  <2>4. RunEnd(t, k, Lexeme \ Separators) = s
    <3> DEFINE class == Lexeme \ Separators
    <3>1. (\A j \in k..(s - 1) : t[j] \in class) /\ t[s] \notin class
      BY <2>2, <2>3
    <3> HIDE DEF class
    <3>2. RunEnd(t, k, class) = s
      BY <2>1, <3>1, RunEndUnique
    <3> QED
      BY <3>2 DEF class
  <2>5. \A j \in s..(v - 1) : t[j] \in Separators \cup Quotes
    <3> TAKE j \in s..(v - 1)
    <3>1. j = q \/ j \in (r + 1)..(q - 1) \/ j \in (q + 1)..(v - 1)
      BY <1>2, <1>3
    <3>2. t[j] = "=" \/ t[j] = Blank
      BY <1>1, <3>1 DEF EntryText
    <3> QED
      BY <3>2 DEF Separators
  <2>6. t[v] \notin Separators \cup Quotes
    <3>1. t[v] \in {"w", "x", "prefix", "jwt"}
      BY <1>1 DEF EntryText
    <3> QED
      BY <3>1 DEF Separators, Quotes, Blank
  <2>7. RunEnd(t, s, Separators \cup Quotes) = v
    <3> DEFINE class == Separators \cup Quotes
    <3>1. (\A j \in s..(v - 1) : t[j] \in class) /\ t[v] \notin class
      BY <2>5, <2>6
    <3> HIDE DEF class
    <3>2. RunEnd(t, s, class) = v
      BY <2>1, <3>1, RunEndUnique
    <3> QED
      BY <3>2 DEF class
  <2> QED
    BY <2>4, <2>7
<1> QED
  BY <1>3 DEF FirstFrom

\* Of a plain text only values are sealed, and those whole.
LEMMA PlainFindings ==
  ASSUME NEW t \in Seq(Lexeme), PlainText(t), NEW m, ~m.aggressive,
         NEW f \in Findings(t), ShouldSeal(f.confidence, m)
  PROVE  ValueStretch(t, f.from, f.to)
<1>0. Len(t) \in Nat
  BY LenProperties
<1>1. CASE f \in Prefixed(t)
  <2> DEFINE to == [i \in 1..Len(t) |-> RunEnd(t, i, TokenChars)]
  <2>1. PICK h \in Hits(Positions(t, "prefix"), to, Len(t)) :
          f = Finding("prefixed", h, to[h], "high")
    BY <1>1 DEF Prefixed
  <2>2. h \in 1..Len(t) /\ t[h] = "prefix"
    BY HitsAre DEF Positions
  <2>3. PICK b, p, r, q, z, e : b \in Begins(Chars(t)) /\ b \in Nat /\ PlainEntry(t, b, p, r, q, h, z, e)
    BY <2>2, PlainPlaces
  <2>4. RunEnd(t, h, TokenChars) = z + 1
    <3>1. {"w", "x", "prefix", "jwt"} \subseteq TokenChars /\ Blank \notin TokenChars /\ "nl" \notin TokenChars
      BY DEF TokenChars, Blank
    <3> QED
      BY <2>3, <3>1, ValueRun
  <2>5. f.from = h /\ f.to = z + 1
    BY <2>1, <2>2, <2>4 DEF Finding
  <2> QED
    BY <2>3, <2>5 DEF ValueStretch
<1>2. CASE f \in Jwt(t)
  <2> DEFINE class == TokenChars \ {"=", ":"}
             to == [i \in 1..Len(t) |-> RunEnd(t, i, TokenChars \ {"=", ":"})]
  <2>1. PICK h \in Hits(Positions(t, "jwt"), to, Len(t)) :
          f = Finding("jwt", h, to[h], "medium")
    BY <1>2 DEF Jwt
  <2>2. h \in 1..Len(t) /\ t[h] = "jwt"
    BY HitsAre DEF Positions
  <2>3. PICK b, p, r, q, z, e : b \in Begins(Chars(t)) /\ b \in Nat /\ PlainEntry(t, b, p, r, q, h, z, e)
    BY <2>2, PlainPlaces
  <2>4. RunEnd(t, h, class) = z + 1
    <3>1. {"w", "x", "prefix", "jwt"} \subseteq class /\ Blank \notin class /\ "nl" \notin class
      BY DEF TokenChars, Blank
    <3> HIDE DEF class
    <3> QED
      BY <2>3, <3>1, ValueRun
  <2>5. f.from = h /\ f.to = z + 1
    BY <2>1, <2>2, <2>4 DEF Finding
  <2> QED
    BY <2>3, <2>5 DEF ValueStretch
<1>3. CASE f \in Assignment(t)
  <2> DEFINE from(i) == RunEnd(t, FirstFrom(t, i, Separators), Separators \cup Quotes)
             to(i) == RunEnd(t, from(i), TokenChars)
  <2>1. PICK k \in Positions(t, "key") : f = Finding("assignment", from(k), to(k), "high")
    BY <1>3 DEF Assignment
  <2>2. k \in 1..Len(t) /\ t[k] = "key"
    BY DEF Positions
  <2>3. PICK b, p, r, q, v, z, e :
          b \in Begins(Chars(t)) /\ b \in Nat /\ PlainEntry(t, b, p, r, q, v, z, e) /\ k \in p..r
    BY <2>2, PlainPlaces
  <2>4. from(k) = v
    <3>1. FirstFrom(t, k, Separators) = r + 1 /\ RunEnd(t, r + 1, Separators \cup Quotes) = v
      BY <2>3, KeyRun
    <3> QED
      BY <3>1
  <2>5. RunEnd(t, v, TokenChars) = z + 1
    <3>1. {"w", "x", "prefix", "jwt"} \subseteq TokenChars /\ Blank \notin TokenChars /\ "nl" \notin TokenChars
      BY DEF TokenChars, Blank
    <3> QED
      BY <2>3, <3>1, ValueRun
  <2>6. f.from = v /\ f.to = z + 1
    BY <2>1, <2>4, <2>5 DEF Finding
  <2> QED
    BY <2>3, <2>6 DEF ValueStretch
<1>4. CASE f \in Bearer(t)
  <2>1. PICK h \in Followed(t, "bearer", Blank) : TRUE
    BY <1>4, HitsAre DEF Bearer, BearerHits
  <2>2. h \in 1..Len(t) /\ t[h] = "bearer"
    BY <2>1 DEF Followed, Positions
  <2> QED
    BY <2>2, PlainPlaces
<1>5. CASE f \in Block(t)
  <2>1. PICK h \in Followed(t, "begin", Blank) : TRUE
    BY <1>5, HitsAre DEF Block
  <2>2. h \in 1..Len(t) /\ t[h] = "begin"
    BY <2>1 DEF Followed, Positions
  <2> QED
    BY <2>2, PlainPlaces
<1>6. CASE f \in Url(t)
  <2>1. PICK h \in Followed(t, "scheme", ":") : TRUE
    BY <1>6, HitsAre DEF Url
  <2>2. h \in 1..Len(t) /\ t[h] = "scheme"
    BY <2>1 DEF Followed, Positions
  <2> QED
    BY <2>2, PlainPlaces
<1>7. CASE f \in Entropy(t)
  <2>1. f.confidence = "low"
    BY <1>7 DEF Entropy, Finding
  <2> QED
    BY <2>1 DEF ShouldSeal
<1> QED
  BY <1>1, <1>2, <1>3, <1>4, <1>5, <1>6, <1>7 DEF Findings

-----------------------------------------------------------------------------
(* The sealed file beside the text: mu says where in the text each of its  *)
(* characters begins.                                                      *)

CopiedAt(a, t, mu, k) == a[k] = Char(t[mu[k]]) /\ mu[k + 1] = mu[k] + 1
SealedAt(a, t, mu, k) ==
  /\ a[k] = [sealed |-> TRUE, is |-> Slice(t, mu[k], mu[k + 1])]
  /\ ValueStretch(t, mu[k], mu[k + 1])

Aligned(a, t, n, mu) ==
  /\ a \in Seq(FileChar) /\ mu \in [1..(Len(a) + 1) -> Nat]
  /\ mu[1] = 1 /\ mu[Len(a) + 1] = n
  /\ \A k \in 1..Len(a) : mu[k] \in 1..Len(t) /\ (CopiedAt(a, t, mu, k) \/ SealedAt(a, t, mu, k))

LEMMA ValueStretchIs ==
  ASSUME NEW t \in Seq(Lexeme), NEW v, NEW w, ValueStretch(t, v, w)
  PROVE  /\ v \in 1..Len(t) /\ w \in Nat /\ v < w /\ w <= Len(t) + 1
         /\ \A i \in v..(w - 1) : t[i] \in {"w", "x", "prefix", "jwt"}
<1>1. PICK b, p, r, q, z, e :
        b \in Begins(Chars(t)) /\ b \in Nat /\ PlainEntry(t, b, p, r, q, v, z, e) /\ w = z + 1
  BY DEF ValueStretch
<1>2. EntryText(t, b, p, r, q, v, z, e) /\ Len(t) \in Nat
  BY <1>1, EntryTextIs, LenProperties
<1>3. v \in Nat /\ z \in Nat /\ e \in Nat /\ 1 <= v /\ v <= z /\ z < e /\ e <= Len(t) + 1
  BY <1>2 DEF EntryText
<1>4. \A i \in v..(w - 1) : t[i] \in {"w", "x", "prefix", "jwt"}
  <2> TAKE i \in v..(w - 1)
  <2>1. i = v \/ i \in (v + 1)..z
    BY <1>1, <1>3
  <2> QED
    BY <1>2, <2>1 DEF EntryText
<1> QED
  BY <1>1, <1>2, <1>3, <1>4

LEMMA AlignedBy ==
  ASSUME NEW t \in Seq(Lexeme), NEW a, NEW n, NEW mu, Aligned(a, t, n, mu),
         NEW c \in Seq(FileChar), NEW m, NEW nu \in [1..(Len(c) + 1) -> Nat],
         nu[1] = n, nu[Len(c) + 1] = m,
         \A k \in 1..Len(c) : nu[k] \in 1..Len(t) /\ (CopiedAt(c, t, nu, k) \/ SealedAt(c, t, nu, k))
  PROVE  \E pi : Aligned(a \o c, t, m, pi)
<1> DEFINE l == Len(a)
           h == Len(c)
           d == a \o c
           pi == [k \in 1..(l + h + 1) |-> IF k <= l THEN mu[k] ELSE nu[k - l]]
<1>1. /\ d \in Seq(FileChar) /\ Len(d) = l + h /\ l \in Nat /\ h \in Nat
      /\ \A i \in 1..l : d[i] = a[i]
      /\ \A i \in 1..h : d[l + i] = c[i]
  <2>1. a \in Seq(FileChar)
    BY DEF Aligned
  <2>2. ASSUME NEW s \in Seq(FileChar), NEW u \in Seq(FileChar)
        PROVE  /\ s \o u \in Seq(FileChar) /\ Len(s \o u) = Len(s) + Len(u)
               /\ Len(s) \in Nat /\ Len(u) \in Nat
               /\ \A i \in 1..Len(s) : (s \o u)[i] = s[i]
               /\ \A i \in 1..Len(u) : (s \o u)[Len(s) + i] = u[i]
    BY ConcatIs
  <2> QED
    BY <2>1, <2>2
<1>2. /\ mu \in [1..(l + 1) -> Nat] /\ mu[1] = 1 /\ mu[l + 1] = n
      /\ \A k \in 1..l : mu[k] \in 1..Len(t) /\ (CopiedAt(a, t, mu, k) \/ SealedAt(a, t, mu, k))
  BY DEF Aligned
<1>3. /\ nu \in [1..(h + 1) -> Nat] /\ nu[1] = n /\ nu[h + 1] = m
      /\ \A k \in 1..h : nu[k] \in 1..Len(t) /\ (CopiedAt(c, t, nu, k) \/ SealedAt(c, t, nu, k))
  OBVIOUS
<1> HIDE DEF l, h, d
<1>4. \A k \in 1..(l + 1) : pi[k] = mu[k]
  <2> TAKE k \in 1..(l + 1)
  <2>1. CASE k <= l
    BY <1>1, <2>1
  <2>2. CASE k = l + 1
    <3>1. k \in 1..(l + h + 1) /\ ~(k <= l) /\ k - l = 1
      BY <1>1, <2>2
    <3> QED
      BY <1>2, <1>3, <2>2, <3>1
  <2> QED
    BY <1>1, <2>1, <2>2
<1>5. \A k \in 1..(h + 1) : pi[l + k] = nu[k]
  <2> TAKE k \in 1..(h + 1)
  <2>1. l + k \in 1..(l + h + 1) /\ ~(l + k <= l) /\ (l + k) - l = k
    BY <1>1
  <2> QED
    BY <2>1
<1>6. pi \in [1..(l + h + 1) -> Nat]
  <2>1. ASSUME NEW k \in 1..(l + h + 1) PROVE (IF k <= l THEN mu[k] ELSE nu[k - l]) \in Nat
    <3>1. CASE k <= l
      <4>1. k \in 1..(l + 1)
        BY <1>1, <3>1
      <4> QED
        BY <1>2, <3>1, <4>1
    <3>2. CASE ~(k <= l)
      <4>1. k - l \in 1..(h + 1)
        BY <1>1, <3>2
      <4> QED
        BY <1>3, <3>2, <4>1
    <3> QED
      BY <3>1, <3>2
  <2> QED
    BY <2>1
<1> HIDE DEF pi
<1>7. pi[1] = 1 /\ pi[(l + h) + 1] = m
  <2>1. 1 \in 1..(l + 1) /\ h + 1 \in 1..(h + 1) /\ l + (h + 1) = (l + h) + 1
    BY <1>1
  <2> QED
    BY <1>2, <1>3, <1>4, <1>5, <2>1
<1>8. ASSUME NEW k \in 1..(l + h)
      PROVE  pi[k] \in 1..Len(t) /\ (CopiedAt(d, t, pi, k) \/ SealedAt(d, t, pi, k))
  <2>1. CASE k <= l
    <3>1. k \in 1..l /\ k \in 1..(l + 1) /\ k + 1 \in 1..(l + 1)
      BY <1>1, <2>1
    <3>2. pi[k] = mu[k] /\ pi[k + 1] = mu[k + 1] /\ d[k] = a[k]
      BY <1>1, <1>4, <3>1
    <3> QED
      BY <1>2, <3>1, <3>2 DEF CopiedAt, SealedAt
  <2>2. CASE ~(k <= l)
    <3> DEFINE j == k - l
    <3>1. j \in 1..h /\ j \in 1..(h + 1) /\ j + 1 \in 1..(h + 1) /\ l + j = k /\ l + (j + 1) = k + 1
      BY <1>1, <2>2
    <3> HIDE DEF j
    <3>2. pi[k] = nu[j] /\ pi[k + 1] = nu[j + 1] /\ d[k] = c[j]
      BY <1>1, <1>5, <3>1
    <3>3. nu[j] \in 1..Len(t) /\ (CopiedAt(c, t, nu, j) \/ SealedAt(c, t, nu, j))
      BY <1>3, <3>1
    <3> QED
      BY <3>2, <3>3 DEF CopiedAt, SealedAt
  <2> QED
    BY <2>1, <2>2
<1>9. Aligned(d, t, m, pi)
  BY <1>1, <1>6, <1>7, <1>8 DEF Aligned
<1> QED
  BY <1>9 DEF d

LEMMA CopyAligned ==
  ASSUME NEW t \in Seq(Lexeme), NEW a, NEW n, NEW mu, Aligned(a, t, n, mu),
         NEW to, Bounds(Lexeme, t, n, to)
  PROVE  /\ Chars(Slice(t, n, to)) \in Seq(FileChar)
         /\ \E pi : Aligned(a \o Chars(Slice(t, n, to)), t, to, pi)
<1> DEFINE s == Slice(t, n, to)
           c == Chars(s)
           nu == [k \in 1..(to - n + 1) |-> n + k - 1]
<1>1. /\ n \in Nat /\ to \in Nat /\ 1 <= n /\ n <= to /\ to <= Len(t) + 1 /\ Len(t) \in Nat
  BY LenProperties DEF Bounds
<1>2. s \in Seq(Lexeme) /\ Len(s) = to - n /\ \A i \in 1..(to - n) : s[i] = t[n + i - 1]
  BY SliceIs DEF Sliced
<1> HIDE DEF s
<1>3. c \in Seq(FileChar) /\ Len(c) = to - n /\ \A i \in 1..(to - n) : c[i] = Char(s[i])
  BY <1>2, CharsIs
<1> HIDE DEF c
<1>4. nu \in [1..(Len(c) + 1) -> Nat] /\ nu[1] = n /\ nu[Len(c) + 1] = to
  BY <1>1, <1>3
<1>5. ASSUME NEW k \in 1..Len(c) PROVE nu[k] \in 1..Len(t) /\ CopiedAt(c, t, nu, k)
  <2>1. k \in 1..(to - n) /\ k \in 1..(to - n + 1) /\ k + 1 \in 1..(to - n + 1)
    BY <1>1, <1>3
  <2>2. nu[k] = n + k - 1 /\ nu[k + 1] = n + (k + 1) - 1
    BY <2>1
  <2>3. nu[k] \in 1..Len(t) /\ nu[k + 1] = nu[k] + 1
    BY <1>1, <2>1, <2>2
  <2>4. c[k] = Char(t[nu[k]])
    BY <1>2, <1>3, <2>1, <2>2
  <2> QED
    BY <2>3, <2>4 DEF CopiedAt
<1> HIDE DEF nu
<1>6. \E pi : Aligned(a \o c, t, to, pi)
  BY <1>3, <1>4, <1>5, AlignedBy
<1> QED
  BY <1>3, <1>6 DEF c, s

LEMMA SealAligned ==
  ASSUME NEW t \in Seq(Lexeme), NEW a, NEW n, NEW mu, Aligned(a, t, n, mu),
         NEW to, ValueStretch(t, n, to)
  PROVE  /\ << [sealed |-> TRUE, is |-> Slice(t, n, to)] >> \in Seq(FileChar)
         /\ \E pi : Aligned(a \o << [sealed |-> TRUE, is |-> Slice(t, n, to)] >>, t, to, pi)
<1> DEFINE x == [sealed |-> TRUE, is |-> Slice(t, n, to)]
           c == <<x>>
           nu == [k \in 1..2 |-> IF k = 1 THEN n ELSE to]
<1>1. n \in 1..Len(t) /\ to \in Nat /\ n < to /\ to <= Len(t) + 1 /\ Len(t) \in Nat
  BY ValueStretchIs, LenProperties
<1>2. x \in FileChar
  <2>1. n \in Nat /\ 1 <= n /\ n <= to
    BY <1>1
  <2>2. Bounds(Lexeme, t, n, to)
    BY <1>1, <2>1 DEF Bounds
  <2>3. Slice(t, n, to) \in Seq(Lexeme)
    BY <2>2, SliceIs DEF Sliced
  <2> QED
    BY <2>3 DEF FileChar
<1> HIDE DEF x
<1>3. c \in Seq(FileChar) /\ Len(c) = 1 /\ c[1] = x
  BY <1>2
<1> HIDE DEF c
<1>4. nu \in [1..2 -> Nat] /\ nu[1] = n /\ nu[2] = to
  BY <1>1
<1> HIDE DEF nu
<1>5. SealedAt(c, t, nu, 1)
  <2>1. 1 + 1 = 2
    OBVIOUS
  <2> QED
    BY <1>3, <1>4, <2>1 DEF SealedAt, x
<1>6. /\ nu \in [1..(Len(c) + 1) -> Nat] /\ nu[1] = n /\ nu[Len(c) + 1] = to
      /\ \A k \in 1..Len(c) : nu[k] \in 1..Len(t) /\ (CopiedAt(c, t, nu, k) \/ SealedAt(c, t, nu, k))
  BY <1>1, <1>3, <1>4, <1>5
<1>7. \E pi : Aligned(a \o c, t, to, pi)
  BY <1>3, <1>6, AlignedBy
<1> QED
  BY <1>3, <1>7 DEF c, x

-----------------------------------------------------------------------------
(* The output of replace_with_handles.                                     *)

Replacement(t, piece) ==
  LET stretch == Slice(t, piece.from, piece.to) IN
  IF piece.sealed THEN << [sealed |-> TRUE, is |-> stretch] >> ELSE Chars(stretch)

Replacements(t, ps) == [i \in DOMAIN ps |-> Replacement(t, ps[i])]

\* The pieces make up the text, and those sealed are values of plain entries.
PlainPieces(t, ps) ==
  /\ Joined(ps) /\ ps # <<>> /\ CursorOf(ps) = Len(t) + 1
  /\ \A i \in 1..Len(ps) : ps[i].sealed => ValueStretch(t, ps[i].from, ps[i].to)

LEMMA PieceIs ==
  ASSUME NEW t \in Seq(Lexeme), NEW ps, PlainPieces(t, ps)
  PROVE  /\ Len(ps) \in Nat /\ Len(ps) >= 1 /\ DOMAIN ps = 1..Len(ps)
         /\ \A i \in 1..Len(ps) : /\ ps[i] \in Stretches
                                  /\ Bounds(Lexeme, t, ps[i].from, ps[i].to)
<1> DEFINE n == Len(ps)
           m == Len(t) + 1
<1>1. ps \in Seq(Stretches) /\ n \in Nat /\ m \in Nat /\ DOMAIN ps = 1..n
  BY LenProperties DEF PlainPieces, Joined
<1>2. n >= 1 /\ ps[n].to = m
  <2>1. n # 0
    BY <1>1, EmptySeq DEF PlainPieces
  <2> QED
    BY <1>1, <2>1 DEF PlainPieces, CursorOf
<1>3. \A i \in 1..n : ps[i] \in Stretches
  BY <1>1, ElementOfSeq
<1>4. \A i \in 1..n : ps[i].from \in Nat /\ ps[i].to \in Nat
  BY <1>3 DEF Stretches
<1>5. \A i \in 1..n : ps[i].from <= ps[i].to /\ ps[i].from = IF i = 1 THEN 1 ELSE ps[i - 1].to
  BY DEF PlainPieces, Joined
<1> HIDE DEF n, m
<1>6. ASSUME NEW i \in 1..n PROVE 1 <= ps[i].from
  <2> DEFINE S == {j \in 0..n : j >= 1 => 1 <= ps[j].from}
  <2>1. 0 \in S
    BY <1>1
  <2>2. ASSUME NEW j \in 1..n, j - 1 \in S PROVE j \in S
    <3>1. CASE j = 1
      BY <1>1, <1>5, <3>1
    <3>2. CASE j # 1
      <4>1. j - 1 \in 1..n /\ 1 <= ps[j - 1].from /\ j \in 0..n
        BY <1>1, <2>2, <3>2
      <4>2. ps[j].from = ps[j - 1].to
        BY <1>5, <3>2
      <4> QED
        BY <1>4, <1>5, <4>1, <4>2
    <3> QED
      BY <3>1, <3>2
  <2> HIDE DEF S
  <2>3. S = 0..n
    <3>1. S \in SUBSET (0..n)
      BY DEF S
    <3> QED
      BY <1>1, <2>1, <2>2, <3>1, UpToAll
  <2>4. i \in S /\ i >= 1
    BY <1>1, <2>3
  <2> QED
    BY <2>4 DEF S
<1>7. ASSUME NEW i \in 1..n PROVE ps[i].to <= m
  <2> DEFINE S == {j \in 0..n : j < n => ps[n - j].to <= m}
  <2>1. 0 \in S
    <3>1. n - 0 = n /\ 0 \in 0..n
      BY <1>1
    <3> QED
      BY <1>1, <1>2, <3>1
  <2>2. ASSUME NEW j \in 1..n, j - 1 \in S PROVE j \in S
    <3>1. CASE j = n
      BY <1>1, <3>1
    <3>2. CASE j # n
      <4> DEFINE k == n - j
      <4>1. k \in 1..n /\ k + 1 \in 1..n /\ k + 1 # 1 /\ (k + 1) - 1 = k /\ n - (j - 1) = k + 1 /\ j - 1 < n
        BY <1>1, <3>2
      <4> HIDE DEF k
      <4>2. ps[k + 1].to <= m
        BY <2>2, <4>1
      <4>3. ps[k + 1].from = ps[k].to /\ ps[k + 1].from <= ps[k + 1].to
        BY <1>5, <4>1
      <4>4. ps[k].to <= m
        BY <1>1, <1>4, <4>1, <4>2, <4>3
      <4> QED
        BY <4>4 DEF k
    <3> QED
      BY <3>1, <3>2
  <2> HIDE DEF S
  <2>3. S = 0..n
    <3>1. S \in SUBSET (0..n)
      BY DEF S
    <3> QED
      BY <1>1, <2>1, <2>2, <3>1, UpToAll
  <2>4. n - i \in S /\ n - i < n /\ n - (n - i) = i
    BY <1>1, <2>3
  <2> QED
    BY <2>4 DEF S
<1>8. \A i \in 1..n : Bounds(Lexeme, t, ps[i].from, ps[i].to)
  BY <1>4, <1>5, <1>6, <1>7 DEF Bounds, m
<1> QED
  BY <1>1, <1>2, <1>3, <1>8 DEF n

LEMMA ReplacementAligned ==
  ASSUME NEW t \in Seq(Lexeme), NEW a, NEW piece, NEW mu, Aligned(a, t, piece.from, mu),
         Bounds(Lexeme, t, piece.from, piece.to),
         piece.sealed => ValueStretch(t, piece.from, piece.to)
  PROVE  \E pi : Aligned(a \o Replacement(t, piece), t, piece.to, pi)
<1>1. CASE piece.sealed
  <2>1. ValueStretch(t, piece.from, piece.to)
    BY <1>1
  <2>2. \E pi : Aligned(a \o << [sealed |-> TRUE, is |-> Slice(t, piece.from, piece.to)] >>,
                        t, piece.to, pi)
    BY <2>1, SealAligned
  <2> QED
    BY <1>1, <2>2 DEF Replacement
<1>2. CASE ~piece.sealed
  <2>1. \E pi : Aligned(a \o Chars(Slice(t, piece.from, piece.to)), t, piece.to, pi)
    BY CopyAligned
  <2> QED
    BY <1>2, <2>1 DEF Replacement
<1> QED
  BY <1>1, <1>2

LEMMA ReplacementIs ==
  ASSUME NEW t \in Seq(Lexeme), NEW piece, Bounds(Lexeme, t, piece.from, piece.to)
  PROVE  Replacement(t, piece) \in Seq(FileChar)
<1> DEFINE s == Slice(t, piece.from, piece.to)
<1>1. s \in Seq(Lexeme)
  BY SliceIs DEF Sliced
<1> HIDE DEF s
<1>2. Chars(s) \in Seq(FileChar)
  BY <1>1, CharsIs
<1>3. [sealed |-> TRUE, is |-> s] \in FileChar
  BY <1>1 DEF FileChar
<1>4. << [sealed |-> TRUE, is |-> s] >> \in Seq(FileChar)
  BY <1>3
<1> QED
  BY <1>2, <1>4 DEF Replacement, s

LEMMA EmptyAligned ==
  ASSUME NEW t \in Seq(Lexeme)
  PROVE  \E mu : Aligned(<<>>, t, 1, mu)
<1> DEFINE mu == [k \in 1..1 |-> 1]
           a == <<>>
<1>1. a \in Seq(FileChar) /\ Len(a) = 0
  OBVIOUS
<1> HIDE DEF a
<1>2. mu \in [1..(Len(a) + 1) -> Nat] /\ mu[1] = 1 /\ mu[Len(a) + 1] = 1
  BY <1>1
<1> HIDE DEF mu
<1>3. Aligned(a, t, 1, mu)
  BY <1>1, <1>2 DEF Aligned
<1> QED
  BY <1>3 DEF a

\* What replace_with_handles has put out is the text, place by place.
LEMMA ReplacementsAligned ==
  ASSUME NEW t \in Seq(Lexeme), NEW ps, PlainPieces(t, ps)
  PROVE  \E mu : Aligned(FlattenSeq(Replacements(t, ps)), t, Len(t) + 1, mu)
<1> DEFINE n == Len(ps)
           seqs == Replacements(t, ps)
           At(i) == IF i = 0 THEN 1 ELSE ps[i].to
<1>1. n \in Nat /\ n >= 1 /\ DOMAIN ps = 1..n
  BY PieceIs
<1>2. \A i \in 1..n : Bounds(Lexeme, t, ps[i].from, ps[i].to)
  BY PieceIs
<1>3. \A i \in 1..n : ps[i].from = At(i - 1)
  <2>1. \A i \in 1..n : ps[i].from = IF i = 1 THEN 1 ELSE ps[i - 1].to
    BY DEF PlainPieces, Joined
  <2> QED
    BY <1>1, <2>1
<1>4. \A i \in 1..n : ps[i].sealed => ValueStretch(t, ps[i].from, ps[i].to)
  BY DEF PlainPieces
<1>5. At(n) = Len(t) + 1
  <2>1. ps[n].to = Len(t) + 1
    BY DEF PlainPieces, CursorOf
  <2> QED
    BY <1>1, <2>1
<1>6. seqs = [i \in 1..n |-> Replacement(t, ps[i])]
  BY <1>1 DEF Replacements
<1> HIDE DEF n, seqs, At
<1>7. seqs \in Seq(Seq(FileChar)) /\ Len(seqs) = n
  <2>1. \A i \in 1..n : Replacement(t, ps[i]) \in Seq(FileChar)
    BY <1>2, ReplacementIs
  <2> QED
    BY <1>1, <1>6, <2>1, SeqDef, LenProperties
<1>8. PICK f \in [0..n -> Seq(FileChar)] :
        /\ f[0] = <<>> /\ FlattenSeq(seqs) = f[n]
        /\ \A i \in 1..n : f[i] = f[i - 1] \o seqs[i]
  BY <1>7, FlattenIs
<1> DEFINE S == {i \in 0..n : \E mu : Aligned(f[i], t, At(i), mu)}
<1>9. 0 \in S
  <2>1. At(0) = 1 /\ 0 \in 0..n
    BY <1>1 DEF At
  <2> QED
    BY <1>8, <2>1, EmptyAligned
<1>10. ASSUME NEW i \in 1..n, i - 1 \in S PROVE i \in S
  <2>1. PICK mu : Aligned(f[i - 1], t, At(i - 1), mu)
    BY <1>10
  <2>2. At(i - 1) = ps[i].from /\ At(i) = ps[i].to
    BY <1>3, <1>1 DEF At
  <2>3. f[i] = f[i - 1] \o Replacement(t, ps[i])
    BY <1>6, <1>8
  <2>4. \E pi : Aligned(f[i - 1] \o Replacement(t, ps[i]), t, ps[i].to, pi)
    <3>1. Bounds(Lexeme, t, ps[i].from, ps[i].to) /\ Aligned(f[i - 1], t, ps[i].from, mu)
      BY <1>2, <2>1, <2>2
    <3> QED
      BY <1>4, <3>1, ReplacementAligned
  <2>5. i \in 0..n
    BY <1>1
  <2> QED
    BY <2>2, <2>3, <2>4, <2>5
<1> HIDE DEF S
<1>11. n \in S
  <2>1. S \in SUBSET (0..n)
    BY DEF S
  <2>2. S = 0..n
    BY <1>1, <1>9, <1>10, <2>1, UpToAll
  <2> QED
    BY <1>1, <2>2
<1> QED
  BY <1>5, <1>8, <1>11 DEF S, seqs

-----------------------------------------------------------------------------
(* The sealed file and the text, place by place, to the end of the text.   *)

Words == {"w", "x", "prefix", "jwt"}

Twin(a, t, mu) ==
  /\ a \in Seq(FileChar) /\ t \in Seq(Lexeme)
  /\ Len(a) \in Nat /\ Len(t) \in Nat
  /\ mu \in [1..(Len(a) + 1) -> 1..(Len(t) + 1)]
  /\ mu[1] = 1 /\ mu[Len(a) + 1] = Len(t) + 1
  /\ \A j, k \in 1..(Len(a) + 1) : j < k => mu[j] < mu[k]
  /\ \A k \in 1..Len(a) : mu[k] \in 1..Len(t) /\ (CopiedAt(a, t, mu, k) \/ SealedAt(a, t, mu, k))

LEMMA TwinIs ==
  ASSUME NEW t \in Seq(Lexeme), NEW a, NEW mu, Aligned(a, t, Len(t) + 1, mu)
  PROVE  Twin(a, t, mu)
<1> DEFINE l == Len(a)
           h == Len(t)
<1>1. a \in Seq(FileChar) /\ l \in Nat /\ h \in Nat
  BY LenProperties DEF Aligned
<1>2. /\ mu \in [1..(l + 1) -> Nat] /\ mu[1] = 1 /\ mu[l + 1] = h + 1
      /\ \A k \in 1..l : mu[k] \in 1..h /\ (CopiedAt(a, t, mu, k) \/ SealedAt(a, t, mu, k))
  BY DEF Aligned
<1>3. \A k \in 1..l : mu[k] < mu[k + 1]
  <2> TAKE k \in 1..l
  <2>1. CASE CopiedAt(a, t, mu, k)
    BY <1>1, <1>2, <2>1 DEF CopiedAt
  <2>2. CASE SealedAt(a, t, mu, k)
    <3>1. ValueStretch(t, mu[k], mu[k + 1])
      BY <2>2 DEF SealedAt
    <3> QED
      BY <3>1, ValueStretchIs
  <2> QED
    BY <1>2, <2>1, <2>2
<1> HIDE DEF l, h
<1>4. \A k \in 1..(l + 1) : mu[k] \in 1..(h + 1)
  <2> TAKE k \in 1..(l + 1)
  <2>1. k \in 1..l \/ k = l + 1
    BY <1>1
  <2> QED
    BY <1>1, <1>2, <2>1
<1>5. mu \in [1..(l + 1) -> 1..(h + 1)]
  BY <1>2, <1>4
<1>6. ASSUME NEW j \in 1..(l + 1), NEW k \in 1..(l + 1), j < k PROVE mu[j] < mu[k]
  <2> DEFINE S == {i \in 0..(l + 1) : i > j => mu[j] < mu[i]}
  <2>1. 0 \in S
    BY <1>1
  <2>2. ASSUME NEW i \in 1..(l + 1), i - 1 \in S PROVE i \in S
    <3>1. i \in 0..(l + 1)
      BY <1>1
    <3>2. CASE i > j
      <4>1. i - 1 \in 1..l /\ (i - 1) + 1 = i
        BY <1>1, <3>2
      <4>2. mu[i - 1] < mu[i]
        BY <1>3, <4>1
      <4>3. mu[j] \in Nat /\ mu[i - 1] \in Nat /\ mu[i] \in Nat
        BY <1>1, <1>4, <4>1
      <4>4. i - 1 = j \/ mu[j] < mu[i - 1]
        <5>1. i - 1 = j \/ i - 1 > j
          BY <1>1, <3>2
        <5> QED
          BY <2>2, <5>1
      <4> QED
        BY <3>1, <4>2, <4>3, <4>4
    <3> QED
      BY <3>1, <3>2
  <2> HIDE DEF S
  <2>3. S = 0..(l + 1)
    <3>1. S \in SUBSET (0..(l + 1)) /\ l + 1 \in Nat
      BY <1>1 DEF S
    <3> QED
      BY <2>1, <2>2, <3>1, UpToAll
  <2>4. k \in S /\ k > j
    BY <1>1, <1>6, <2>3
  <2> QED
    BY <2>4 DEF S
<1> QED
  BY <1>1, <1>2, <1>5, <1>6 DEF Twin, l, h

LEMMA TwinChar ==
  ASSUME NEW a, NEW t, NEW mu, Twin(a, t, mu), NEW k \in 1..Len(a)
  PROVE  /\ mu[k] \in 1..Len(t) /\ mu[k + 1] \in Nat
         /\ \/ CopiedAt(a, t, mu, k) /\ a[k].sealed = FALSE
            \/ SealedAt(a, t, mu, k) /\ a[k].sealed = TRUE /\ t[mu[k]] \in Words
<1>1. /\ k \in Nat /\ t \in Seq(Lexeme) /\ k + 1 \in 1..(Len(a) + 1)
      /\ mu[k] \in 1..Len(t) /\ (CopiedAt(a, t, mu, k) \/ SealedAt(a, t, mu, k))
  BY DEF Twin
<1>2. mu[k + 1] \in Nat
  <2>1. mu \in [1..(Len(a) + 1) -> 1..(Len(t) + 1)]
    BY DEF Twin
  <2> QED
    BY <1>1, <2>1
<1>3. CASE CopiedAt(a, t, mu, k)
  <2>1. a[k] = Char(t[mu[k]])
    BY <1>3 DEF CopiedAt
  <2> QED
    BY <1>1, <1>2, <1>3, <2>1, CharIs
<1>4. CASE SealedAt(a, t, mu, k)
  <2>1. a[k].sealed = TRUE /\ ValueStretch(t, mu[k], mu[k + 1])
    BY <1>4 DEF SealedAt
  <2>2. t[mu[k]] \in Words
    <3>1. mu[k] < mu[k + 1] /\ \A i \in mu[k]..(mu[k + 1] - 1) : t[i] \in Words
      BY <1>1, <2>1, ValueStretchIs DEF Words
    <3>2. mu[k] \in mu[k]..(mu[k + 1] - 1)
      BY <1>1, <1>2, <3>1
    <3> QED
      BY <3>1, <3>2
  <2> QED
    BY <1>1, <1>2, <1>4, <2>1, <2>2
<1> QED
  BY <1>1, <1>3, <1>4

LEMMA TwinIsChar ==
  ASSUME NEW a, NEW t, NEW mu, Twin(a, t, mu), NEW k \in 1..Len(a), NEW c, c \notin Words
  PROVE  a[k] = Char(c) <=> t[mu[k]] = c
<1>1. CASE CopiedAt(a, t, mu, k)
  <2>1. a[k] = Char(t[mu[k]])
    BY <1>1 DEF CopiedAt
  <2> QED
    BY <2>1, CharIs
<1>2. CASE ~CopiedAt(a, t, mu, k)
  <2>1. a[k].sealed = TRUE /\ t[mu[k]] \in Words
    BY <1>2, TwinChar
  <2>2. a[k] # Char(c)
    BY <2>1, CharIs
  <2> QED
    BY <2>1, <2>2
<1> QED
  BY <1>1, <1>2

\* Every place of the text that is in no value, and its end, has a place in the file.
LEMMA TwinHit ==
  ASSUME NEW a, NEW t, NEW mu, Twin(a, t, mu), NEW c \in 1..(Len(t) + 1),
         c <= Len(t) => t[c] \notin Words
  PROVE  \E k \in 1..(Len(a) + 1) : mu[k] = c
<1> DEFINE l == Len(a)
           S == {k \in 1..(l + 1) : mu[k] <= c}
<1>1. /\ l \in Nat /\ Len(t) \in Nat /\ t \in Seq(Lexeme)
      /\ mu \in [1..(l + 1) -> 1..(Len(t) + 1)]
      /\ mu[1] = 1 /\ mu[l + 1] = Len(t) + 1
  BY DEF Twin
<1>2. 1 \in S /\ S \in SUBSET (1..(l + 1)) /\ l + 1 \in Nat
  BY <1>1
<1> HIDE DEF S
<1>3. PICK k \in S : \A j \in S : j <= k
  BY <1>2, GreatestExists
<1>4. k \in 1..(l + 1) /\ mu[k] <= c /\ mu[k] \in Nat /\ c \in Nat
  BY <1>1, <1>2 DEF S
<1>5. CASE k = l + 1
  BY <1>1, <1>4, <1>5
<1>6. CASE k # l + 1
  <2>1. k \in 1..l /\ k + 1 \in 1..(l + 1) /\ ~(k + 1 <= k)
    BY <1>1, <1>4, <1>6
  <2>2. k + 1 \notin S
    BY <1>3, <2>1
  <2>3. ~(mu[k + 1] <= c) /\ mu[k + 1] \in Nat /\ mu[k + 1] <= Len(t) + 1
    BY <1>1, <2>1, <2>2 DEF S
  <2>4. c \in mu[k]..(mu[k + 1] - 1) /\ c <= Len(t)
    BY <1>1, <1>4, <2>3
  <2>5. CASE CopiedAt(a, t, mu, k)
    <3>1. mu[k + 1] = mu[k] + 1
      BY <2>5 DEF CopiedAt
    <3> QED
      BY <1>4, <2>4, <3>1
  <2>6. CASE SealedAt(a, t, mu, k)
    <3>1. ValueStretch(t, mu[k], mu[k + 1])
      BY <2>6 DEF SealedAt
    <3>2. t[c] \in Words
      BY <1>1, <2>4, <3>1, ValueStretchIs DEF Words
    <3> QED
      BY <2>4, <3>2
  <2>7. CopiedAt(a, t, mu, k) \/ SealedAt(a, t, mu, k)
    BY <2>1 DEF Twin
  <2> QED
    BY <2>5, <2>6, <2>7
<1> QED
  BY <1>5, <1>6

LEMMA TwinBegins ==
  ASSUME NEW a, NEW t, NEW mu, Twin(a, t, mu)
  PROVE  /\ Begins(a) \subseteq 1..(Len(a) + 1)
         /\ \A b \in Begins(a) : mu[b] \in Begins(Chars(t))
         /\ \A c \in Begins(Chars(t)) : \E b \in Begins(a) : mu[b] = c
<1> DEFINE l == Len(a)
           h == Len(t)
<1>1. /\ l \in Nat /\ h \in Nat /\ t \in Seq(Lexeme) /\ a \in Seq(FileChar)
      /\ mu \in [1..(l + 1) -> 1..(h + 1)]
      /\ mu[1] = 1 /\ mu[l + 1] = h + 1
      /\ \A j, k \in 1..(l + 1) : j < k => mu[j] < mu[k]
  BY DEF Twin
<1>2. /\ Chars(t) \in Seq(FileChar) /\ Len(Chars(t)) = h
      /\ \A i \in 1..h : Chars(t)[i] = Char(t[i])
  BY <1>1, CharsIs
<1>3. DOMAIN a = 1..l /\ DOMAIN Chars(t) = 1..h
  BY <1>1, <1>2, LenProperties
<1>4. \A i \in 1..h : Chars(t)[i] = Char("nl") <=> t[i] = "nl"
  BY <1>2, CharIs
<1>5. \A k \in 1..l : a[k] = Char("nl") <=> t[mu[k]] = "nl"
  <2>1. "nl" \notin Words
    BY DEF Words
  <2> QED
    BY <2>1, TwinIsChar
<1>6. /\ \A k \in 1..l : a[k] = Char("nl") => k + 1 \in Begins(a)
      /\ \A b \in Begins(a) : b = 1 \/ \E k \in 1..l : b = k + 1 /\ a[k] = Char("nl")
      /\ 1 \in Begins(a)
  BY <1>3 DEF Begins, Places
<1>7. /\ \A k \in 1..h : t[k] = "nl" => k + 1 \in Begins(Chars(t))
      /\ \A b \in Begins(Chars(t)) : b = 1 \/ \E k \in 1..h : b = k + 1 /\ t[k] = "nl"
      /\ 1 \in Begins(Chars(t))
  BY <1>3, <1>4 DEF Begins, Places
<1>8. \A k \in 1..l : a[k] = Char("nl") => mu[k] \in 1..h /\ mu[k + 1] = mu[k] + 1
  <2> TAKE k \in 1..l
  <2> HAVE a[k] = Char("nl")
  <2>1. t[mu[k]] = "nl" /\ "nl" \notin Words
    BY <1>5 DEF Words
  <2>2. CopiedAt(a, t, mu, k) /\ mu[k] \in 1..h
    <3>1. k \in 1..Len(a) /\ t[mu[k]] \notin Words
      BY <2>1
    <3> QED
      BY <3>1, TwinChar
  <2> QED
    BY <2>2 DEF CopiedAt
<1> HIDE DEF l, h
<1>9. \A b \in Begins(a) : b \in 1..(l + 1) /\ mu[b] \in Begins(Chars(t))
  <2> TAKE b \in Begins(a)
  <2>1. CASE b = 1
    BY <1>1, <1>7, <2>1
  <2>2. CASE b # 1
    <3>1. PICK k \in 1..l : b = k + 1 /\ a[k] = Char("nl")
      BY <1>6, <2>2
    <3>2. t[mu[k]] = "nl" /\ mu[k] \in 1..h /\ mu[b] = mu[k] + 1
      BY <1>5, <1>8, <3>1
    <3> QED
      BY <1>1, <1>7, <3>1, <3>2
  <2> QED
    BY <2>1, <2>2
<1>10. \A c \in Begins(Chars(t)) : \E b \in Begins(a) : mu[b] = c
  <2> TAKE c \in Begins(Chars(t))
  <2>1. CASE c = 1
    BY <1>1, <1>6, <2>1
  <2>2. CASE c # 1
    <3>1. PICK i \in 1..h : c = i + 1 /\ t[i] = "nl"
      BY <1>7, <2>2
    <3>2. i \in 1..(h + 1) /\ t[i] \notin Words
      BY <1>1, <3>1 DEF Words
    <3>3. PICK k \in 1..(l + 1) : mu[k] = i
      BY <3>2, TwinHit DEF l, h
    <3>4. k \in 1..l
      <4>1. k # l + 1
        BY <1>1, <3>3
      <4> QED
        BY <1>1, <4>1
    <3>5. a[k] = Char("nl")
      BY <1>5, <3>1, <3>3, <3>4
    <3>6. k + 1 \in Begins(a) /\ mu[k + 1] = i + 1
      BY <1>6, <1>8, <3>3, <3>4, <3>5
    <3> QED
      BY <3>1, <3>6
  <2> QED
    BY <2>1, <2>2
<1> QED
  BY <1>9, <1>10 DEF l

LEMMA TwinLine ==
  ASSUME NEW a, NEW t, NEW mu, Twin(a, t, mu), NEW b \in 1..(Len(a) + 1),
         NEW E, Line(Chars(t), mu[b], E)
  PROVE  \E e \in 1..(Len(a) + 1) : b <= e /\ mu[e] = E /\ Line(a, b, e)
<1> DEFINE l == Len(a)
           h == Len(t)
           B == mu[b]
<1>1. /\ l \in Nat /\ h \in Nat /\ t \in Seq(Lexeme) /\ a \in Seq(FileChar)
      /\ mu \in [1..(l + 1) -> 1..(h + 1)]
      /\ mu[1] = 1 /\ mu[l + 1] = h + 1
      /\ \A j, k \in 1..(l + 1) : j < k => mu[j] < mu[k]
  BY DEF Twin
<1>2. /\ Len(Chars(t)) = h
      /\ \A i \in 1..h : Chars(t)[i] = Char(t[i])
  BY <1>1, CharsIs
<1>3. \A k \in 1..l : a[k] = Char("nl") <=> t[mu[k]] = "nl"
  <2>1. "nl" \notin Words
    BY DEF Words
  <2> QED
    BY <2>1, TwinIsChar
<1>4. /\ B \in Nat /\ E \in Nat /\ 1 <= B /\ B <= E /\ E <= h + 1
      /\ E <= h => t[E] = "nl"
      /\ \A i \in B..(E - 1) : t[i] # "nl"
  <2>1. B \in Nat /\ E \in Nat /\ 1 <= B /\ B <= E /\ E <= h + 1
    BY <1>2 DEF Line, Bounds
  <2>2. E <= h => Chars(t)[E] = Char("nl")
    BY <1>2 DEF Line
  <2>3. \A i \in B..(E - 1) : Chars(t)[i] # Char("nl")
    BY DEF Line
  <2> HIDE DEF B, l, h
  <2>4. E <= h => t[E] = "nl"
    <3> HAVE E <= h
    <3>1. E \in 1..h
      BY <2>1, <1>1
    <3> QED
      BY <1>2, <2>2, <3>1, CharIs
  <2>5. \A i \in B..(E - 1) : t[i] # "nl"
    <3> TAKE i \in B..(E - 1)
    <3>1. i \in 1..h
      BY <2>1, <1>1
    <3> QED
      BY <1>2, <2>3, <3>1
  <2> QED
    BY <2>1, <2>4, <2>5
<1>5. PICK e \in 1..(l + 1) : mu[e] = E
  <2>1. E \in 1..(h + 1) /\ (E <= h => t[E] \notin Words)
    BY <1>1, <1>4 DEF Words
  <2> QED
    BY <2>1, TwinHit
<1> HIDE DEF l, h
<1>6. b \in 1..(l + 1) /\ B = mu[b]
  BY DEF l
<1> HIDE DEF B
<1>7. b <= e
  <2> SUFFICES ASSUME e < b PROVE FALSE
    BY <1>1, <1>5, <1>6
  <2>1. mu[e] < mu[b]
    BY <1>1, <1>5, <1>6
  <2> QED
    BY <1>4, <1>5, <1>6, <2>1
<1>8. Bounds(FileChar, a, b, e)
  <2>1. b \in Nat /\ e \in Nat /\ 1 <= b /\ e <= l + 1
    BY <1>1, <1>5, <1>6
  <2> QED
    BY <1>1, <1>7, <2>1 DEF Bounds, l
<1>9. e <= l => a[e] = Char("nl")
  <2> HAVE e <= l
  <2>1. e \in 1..l /\ l + 1 \in 1..(l + 1) /\ e < l + 1
    BY <1>1, <1>5
  <2>2. mu[e] < mu[l + 1]
    BY <1>1, <1>5, <2>1
  <2>3. E <= h
    BY <1>1, <1>4, <1>5, <2>2
  <2> QED
    BY <1>3, <1>4, <1>5, <2>1, <2>3
<1>10. \A i \in b..(e - 1) : a[i] # Char("nl")
  <2> TAKE i \in b..(e - 1)
  <2>1. i \in 1..l /\ i \in 1..(l + 1) /\ i < e /\ (i = b \/ b < i)
    BY <1>1, <1>5, <1>6
  <2>2. mu[i] < E /\ B <= mu[i] /\ mu[i] \in Nat
    BY <1>1, <1>4, <1>5, <1>6, <2>1
  <2>3. mu[i] \in B..(E - 1)
    BY <1>4, <2>2
  <2> QED
    BY <1>3, <1>4, <2>1, <2>3
<1>11. Line(a, b, e)
  BY <1>8, <1>9, <1>10 DEF Line, l
<1> QED
  BY <1>5, <1>7, <1>11 DEF l

\* A stretch without handles.
LEMMA TwinRun ==
  ASSUME NEW a, NEW t, NEW mu, Twin(a, t, mu), NEW b \in 1..(Len(a) + 1), NEW e \in 1..(Len(a) + 1),
         b <= e, \A k \in b..(e - 1) : CopiedAt(a, t, mu, k)
  PROVE  /\ \A i \in b..e : mu[i] = mu[b] + (i - b)
         /\ mu[e] - mu[b] = e - b
         /\ Slice(a, b, e) = Slice(Chars(t), mu[b], mu[e])
         /\ Bounds(FileChar, a, b, e) /\ Bounds(FileChar, Chars(t), mu[b], mu[e])
<1> DEFINE l == Len(a)
           h == Len(t)
           n == e - b
           S == {j \in 0..n : mu[b + j] = mu[b] + j}
<1>1. /\ l \in Nat /\ h \in Nat /\ t \in Seq(Lexeme) /\ a \in Seq(FileChar)
      /\ mu \in [1..(l + 1) -> 1..(h + 1)]
  BY DEF Twin
<1>2. /\ Len(Chars(t)) = h /\ Chars(t) \in Seq(FileChar)
      /\ \A i \in 1..h : Chars(t)[i] = Char(t[i])
  BY <1>1, CharsIs
<1>3. /\ b \in Nat /\ e \in Nat /\ n \in Nat /\ e = b + n /\ 1 <= b /\ e <= l + 1
      /\ mu[b] \in Nat /\ 1 <= mu[b] /\ mu[e] \in Nat /\ mu[e] <= h + 1
  BY <1>1
<1>4. \A k \in b..(e - 1) : a[k] = Char(t[mu[k]]) /\ mu[k + 1] = mu[k] + 1 /\ mu[k] \in 1..h
  <2> TAKE k \in b..(e - 1)
  <2>1. CopiedAt(a, t, mu, k) /\ k \in 1..l
    BY <1>3
  <2>2. mu[k] \in 1..h
    BY <2>1, TwinChar
  <2> QED
    BY <2>1, <2>2 DEF CopiedAt
<1> HIDE DEF l, h, n
<1>5. 0 \in S
  <2>1. b + 0 = b /\ mu[b] + 0 = mu[b] /\ 0 \in 0..n
    BY <1>3
  <2> QED
    BY <2>1
<1>6. ASSUME NEW j \in 1..n, j - 1 \in S PROVE j \in S
  <2> DEFINE k == b + (j - 1)
  <2>1. k \in b..(e - 1) /\ k + 1 = b + j /\ j \in 0..n
    BY <1>3
  <2>2. mu[k] = mu[b] + (j - 1)
    BY <1>6
  <2> HIDE DEF k
  <2>3. mu[k + 1] = mu[k] + 1
    BY <1>4, <2>1
  <2>4. mu[b + j] = mu[b] + j
    BY <1>3, <2>1, <2>2, <2>3
  <2> QED
    BY <2>1, <2>4
<1> HIDE DEF S
<1>7. \A j \in 0..n : mu[b + j] = mu[b] + j
  <2>1. S \in SUBSET (0..n)
    BY DEF S
  <2>2. S = 0..n
    BY <1>3, <1>5, <1>6, <2>1, UpToAll
  <2> QED
    BY <2>2 DEF S
<1>8. \A i \in b..e : mu[i] = mu[b] + (i - b)
  <2> TAKE i \in b..e
  <2>1. i - b \in 0..n /\ b + (i - b) = i
    BY <1>3
  <2> QED
    BY <1>7, <2>1
<1>9. mu[e] = mu[b] + n
  <2>1. n \in 0..n /\ b + n = e
    BY <1>3
  <2> QED
    BY <1>7, <2>1
<1>10. Bounds(FileChar, a, b, e)
  BY <1>1, <1>3 DEF Bounds, l
<1>11. Bounds(FileChar, Chars(t), mu[b], mu[e])
  <2>1. mu[b] <= mu[e]
    BY <1>3, <1>9
  <2> QED
    BY <1>2, <1>3, <2>1 DEF Bounds
<1>12. e - b = mu[e] - mu[b]
  BY <1>3, <1>9
<1>13. \A j \in 0..(e - b - 1) : a[b + j] = Chars(t)[mu[b] + j]
  <2> TAKE j \in 0..(e - b - 1)
  <2>1. b + j \in b..(e - 1) /\ j \in 0..n
    BY <1>3
  <2>2. a[b + j] = Char(t[mu[b + j]]) /\ mu[b + j] = mu[b] + j /\ mu[b + j] \in 1..h
    BY <1>4, <1>7, <2>1
  <2> QED
    BY <1>2, <2>2
<1>14. Slice(a, b, e) = Slice(Chars(t), mu[b], mu[e])
  BY <1>10, <1>11, <1>12, <1>13, SliceEqual
<1> QED
  BY <1>8, <1>10, <1>11, <1>12, <1>14

-----------------------------------------------------------------------------
(* The lines of the two.                                                   *)

LEMMA BeginsIs ==
  ASSUME NEW t \in Seq(Lexeme), NEW b \in Begins(Chars(t))
  PROVE  b = 1 \/ (b - 1 \in 1..Len(t) /\ t[b - 1] = "nl" /\ b \in Nat)
<1>1. /\ Chars(t) \in Seq(FileChar) /\ Len(Chars(t)) = Len(t) /\ Len(t) \in Nat
      /\ \A i \in 1..Len(t) : Chars(t)[i] = Char(t[i])
  BY CharsIs
<1>2. CASE b # 1
  <2>1. PICK k \in DOMAIN Chars(t) : b = k + 1 /\ Chars(t)[k] = Char("nl")
    BY <1>2 DEF Begins, Places
  <2>2. k \in 1..Len(t)
    BY <1>1, <2>1, LenProperties
  <2>3. t[k] = "nl"
    BY <1>1, <2>1, <2>2, CharAt
  <2>4. b - 1 = k /\ b \in Nat
    BY <1>1, <2>1, <2>2
  <2> QED
    BY <2>2, <2>3, <2>4
<1> QED
  BY <1>2

\* A line of the text begins at b and goes up to e at least.
OneLine(t, b, e) ==
  /\ b \in Begins(Chars(t)) /\ b \in Nat /\ e \in Nat
  /\ \A i \in b..(e - 1) : t[i] # "nl"

LEMMA SameBegin ==
  ASSUME NEW t \in Seq(Lexeme), NEW b, NEW e, OneLine(t, b, e), NEW c, NEW d, OneLine(t, c, d),
         NEW k \in Nat, b <= k, k < e, c <= k, k < d
  PROVE  b = c
<1>0. /\ b \in Begins(Chars(t)) /\ b \in Nat /\ e \in Nat
      /\ \A i \in b..(e - 1) : t[i] # "nl"
      /\ c \in Begins(Chars(t)) /\ c \in Nat /\ d \in Nat
      /\ \A i \in c..(d - 1) : t[i] # "nl"
  BY DEF OneLine
<1>1. b = 1 \/ (b - 1 \in 1..Len(t) /\ t[b - 1] = "nl")
  BY <1>0, BeginsIs
<1>2. c = 1 \/ (c - 1 \in 1..Len(t) /\ t[c - 1] = "nl")
  BY <1>0, BeginsIs
<1>3. Len(t) \in Nat
  BY LenProperties
<1>4. ~(b < c)
  <2> SUFFICES ASSUME b < c PROVE FALSE
    OBVIOUS
  <2>1. b >= 1
    BY <1>0, <1>1, <1>3
  <2>2. c # 1 /\ c - 1 \in b..(e - 1)
    BY <1>0, <2>1
  <2> QED
    BY <1>0, <1>2, <2>2
<1>5. ~(c < b)
  <2> SUFFICES ASSUME c < b PROVE FALSE
    OBVIOUS
  <2>1. c >= 1
    BY <1>0, <1>2, <1>3
  <2>2. b # 1 /\ b - 1 \in c..(d - 1)
    BY <1>0, <2>1
  <2> QED
    BY <1>0, <1>1, <2>2
<1> QED
  BY <1>0, <1>4, <1>5

LEMMA EntryOnLine ==
  ASSUME NEW t, NEW b, NEW p, NEW r, NEW q, NEW v, NEW z, NEW e,
         EntryText(t, b, p, r, q, v, z, e)
  PROVE  \A i \in b..(e - 1) : t[i] # "nl"
<1>1. /\ b \in Nat /\ p \in Nat /\ r \in Nat /\ q \in Nat /\ v \in Nat /\ z \in Nat /\ e \in Nat
      /\ \A i \in b..(p - 1) : t[i] = Blank
      /\ \A i \in p..r : t[i] \in {"w", "key"}
      /\ \A i \in (r + 1)..(q - 1) : t[i] = Blank
      /\ t[q] = "="
      /\ \A i \in (q + 1)..(v - 1) : t[i] = Blank
      /\ t[v] \in {"w", "x", "prefix", "jwt"} /\ \A i \in (v + 1)..z : t[i] \in {"w", "x"}
      /\ \A i \in (z + 1)..(e - 1) : t[i] = Blank
  BY DEF EntryText
<1> TAKE i \in b..(e - 1)
<1>2. \/ i \in b..(p - 1) \/ i \in p..r \/ i \in (r + 1)..(q - 1) \/ i = q
      \/ i \in (q + 1)..(v - 1) \/ i = v \/ i \in (v + 1)..z \/ i \in (z + 1)..(e - 1)
  BY <1>1
<1>3. Blank # "nl"
  BY DEF Blank
<1> QED
  BY <1>1, <1>2, <1>3

\* A line has one value.
LEMMA SameValue ==
  ASSUME NEW t \in Seq(Lexeme),
         NEW b \in Begins(Chars(t)), NEW p, NEW r, NEW q, NEW v, NEW z, NEW e,
         b \in Nat, PlainEntry(t, b, p, r, q, v, z, e),
         NEW c \in Begins(Chars(t)), NEW p2, NEW r2, NEW q2, NEW v2, NEW z2, NEW e2,
         c \in Nat, PlainEntry(t, c, p2, r2, q2, v2, z2, e2),
         b <= v2, v2 < e
  PROVE  v2 = v /\ z2 = z
<1>1. EntryText(t, b, p, r, q, v, z, e) /\ EntryText(t, c, p2, r2, q2, v2, z2, e2)
  BY EntryTextIs
<1>2. /\ p \in Nat /\ r \in Nat /\ q \in Nat /\ v \in Nat /\ z \in Nat /\ e \in Nat
      /\ b <= p /\ p <= r /\ r < q /\ q < v /\ v <= z /\ z < e /\ e <= Len(t) + 1
      /\ \A i \in b..(p - 1) : t[i] = Blank
      /\ \A i \in p..r : t[i] \in {"w", "key"}
      /\ \A i \in (r + 1)..(q - 1) : t[i] = Blank
      /\ t[q] = "="
      /\ \A i \in (q + 1)..(v - 1) : t[i] = Blank
      /\ t[v] \in Words /\ \A i \in (v + 1)..z : t[i] \in Words
      /\ \A i \in (z + 1)..(e - 1) : t[i] = Blank
      /\ e <= Len(t) => t[e] = "nl"
  BY <1>1 DEF EntryText, Words
<1>3. /\ p2 \in Nat /\ r2 \in Nat /\ q2 \in Nat /\ v2 \in Nat /\ z2 \in Nat /\ e2 \in Nat
      /\ c <= p2 /\ p2 <= r2 /\ r2 < q2 /\ q2 < v2 /\ v2 <= z2 /\ z2 < e2 /\ e2 <= Len(t) + 1
      /\ \A i \in c..(p2 - 1) : t[i] = Blank
      /\ \A i \in p2..r2 : t[i] \in {"w", "key"}
      /\ \A i \in (r2 + 1)..(q2 - 1) : t[i] = Blank
      /\ t[q2] = "="
      /\ \A i \in (q2 + 1)..(v2 - 1) : t[i] = Blank
      /\ t[v2] \in Words /\ \A i \in (v2 + 1)..z2 : t[i] \in Words
      /\ \A i \in (z2 + 1)..(e2 - 1) : t[i] = Blank
      /\ e2 <= Len(t) => t[e2] = "nl"
  BY <1>1 DEF EntryText, Words
<1>4. (\A i \in b..(e - 1) : t[i] # "nl") /\ (\A i \in c..(e2 - 1) : t[i] # "nl")
  BY <1>1, EntryOnLine
<1>5. c = b
  <2>1. c <= v2 /\ v2 < e2
    BY <1>3
  <2>2. OneLine(t, b, e) /\ OneLine(t, c, e2)
    BY <1>2, <1>3, <1>4 DEF OneLine
  <2> QED
    BY <1>3, <2>1, <2>2, SameBegin
<1>6. Blank \notin Words /\ Blank # "=" /\ "=" \notin {"w", "key"}
  BY DEF Blank, Words
<1>7. Len(t) \in Nat
  BY LenProperties
<1>8. e2 = e
  <2>1. ~(e2 < e)
    <3> SUFFICES ASSUME e2 < e PROVE FALSE
      OBVIOUS
    <3>1. e2 \in b..(e - 1) /\ e2 <= Len(t)
      BY <1>2, <1>3, <1>5, <1>7
    <3> QED
      BY <1>3, <1>4, <3>1
  <2>2. ~(e < e2)
    <3> SUFFICES ASSUME e < e2 PROVE FALSE
      OBVIOUS
    <3>1. e \in c..(e2 - 1) /\ e <= Len(t)
      BY <1>2, <1>3, <1>5, <1>7
    <3> QED
      BY <1>2, <1>4, <3>1
  <2> QED
    BY <1>2, <1>3, <2>1, <2>2
<1>9. q2 = q
  <2>1. ~(q2 < q)
    <3> SUFFICES ASSUME q2 < q PROVE FALSE
      OBVIOUS
    <3>1. q2 \in b..(p - 1) \/ q2 \in p..r \/ q2 \in (r + 1)..(q - 1)
      BY <1>2, <1>3, <1>5
    <3> QED
      BY <1>2, <1>3, <1>6, <3>1
  <2>2. ~(q < q2)
    <3> SUFFICES ASSUME q < q2 PROVE FALSE
      OBVIOUS
    <3>1. q \in c..(p2 - 1) \/ q \in p2..r2 \/ q \in (r2 + 1)..(q2 - 1)
      BY <1>2, <1>3, <1>5
    <3> QED
      BY <1>2, <1>3, <1>6, <3>1
  <2> QED
    BY <1>2, <1>3, <2>1, <2>2
<1>10. v2 = v
  <2>1. ~(v2 < v)
    <3> SUFFICES ASSUME v2 < v PROVE FALSE
      OBVIOUS
    <3>1. v2 \in (q + 1)..(v - 1)
      BY <1>2, <1>3, <1>9
    <3> QED
      BY <1>2, <1>3, <1>6, <3>1
  <2>2. ~(v < v2)
    <3> SUFFICES ASSUME v < v2 PROVE FALSE
      OBVIOUS
    <3>1. v \in (q2 + 1)..(v2 - 1)
      BY <1>2, <1>3, <1>9
    <3> QED
      BY <1>2, <1>3, <1>6, <3>1
  <2> QED
    BY <1>2, <1>3, <2>1, <2>2
<1>11. t[z] \in Words /\ t[z2] \in Words
  <2>1. (z = v \/ z \in (v + 1)..z) /\ (z2 = v2 \/ z2 \in (v2 + 1)..z2)
    <3>1. /\ v \in Nat /\ z \in Nat /\ v <= z
          /\ v2 \in Nat /\ z2 \in Nat /\ v2 <= z2
      BY <1>2, <1>3
    <3> QED
      BY <3>1
  <2> QED
    BY <1>2, <1>3, <2>1
<1>12. z2 = z
  <2>1. ~(z2 < z)
    <3> SUFFICES ASSUME z2 < z PROVE FALSE
      OBVIOUS
    <3>1. z \in (z2 + 1)..(e2 - 1)
      BY <1>2, <1>3, <1>8
    <3> QED
      BY <1>3, <1>6, <1>11, <3>1
  <2>2. ~(z < z2)
    <3> SUFFICES ASSUME z < z2 PROVE FALSE
      OBVIOUS
    <3>1. z2 \in (z + 1)..(e - 1)
      BY <1>2, <1>3, <1>8
    <3> QED
      BY <1>2, <1>6, <1>11, <3>1
  <2> QED
    BY <1>2, <1>3, <2>1, <2>2
<1> QED
  BY <1>10, <1>12

\* A line that is no entry has none.
LEMMA NoValue ==
  ASSUME NEW t \in Seq(Lexeme),
         NEW b \in Begins(Chars(t)), NEW e, b \in Nat, e \in Nat, PlainRest(t, b, e),
         NEW c \in Begins(Chars(t)), NEW p2, NEW r2, NEW q2, NEW v2, NEW z2, NEW e2,
         c \in Nat, PlainEntry(t, c, p2, r2, q2, v2, z2, e2),
         b <= v2, v2 < e
  PROVE  FALSE
<1>1. EntryText(t, c, p2, r2, q2, v2, z2, e2)
  BY EntryTextIs
<1>2. /\ p2 \in Nat /\ r2 \in Nat /\ q2 \in Nat /\ v2 \in Nat /\ z2 \in Nat /\ e2 \in Nat
      /\ c <= p2 /\ p2 <= r2 /\ r2 < q2 /\ q2 < v2 /\ v2 <= z2 /\ z2 < e2
      /\ t[q2] = "="
  BY <1>1 DEF EntryText
<1>3. \A i \in b..(e - 1) : t[i] \in {"#", Blank, "w", "x"}
  BY DEF PlainRest
<1>4. (\A i \in b..(e - 1) : t[i] # "nl") /\ (\A i \in c..(e2 - 1) : t[i] # "nl")
  BY <1>1, <1>3, EntryOnLine DEF Blank
<1>5. c = b
  <2>1. c <= v2 /\ v2 < e2
    BY <1>2
  <2>2. OneLine(t, b, e) /\ OneLine(t, c, e2)
    BY <1>2, <1>4 DEF OneLine
  <2> QED
    BY <1>2, <2>1, <2>2, SameBegin
<1>6. q2 \in b..(e - 1)
  BY <1>2, <1>5
<1> QED
  BY <1>2, <1>3, <1>6 DEF Blank

-----------------------------------------------------------------------------
(* The entries of the two.                                                 *)

LEMMA CharsSlice ==
  ASSUME NEW t, NEW v, NEW w, Bounds(Lexeme, t, v, w)
  PROVE  /\ Bounds(FileChar, Chars(t), v, w)
         /\ Slice(Chars(t), v, w) = Chars(Slice(t, v, w))
<1> DEFINE s == Slice(t, v, w)
<1>1. /\ t \in Seq(Lexeme) /\ v \in Nat /\ w \in Nat /\ 1 <= v /\ v <= w /\ w <= Len(t) + 1
  BY DEF Bounds
<1>2. /\ Chars(t) \in Seq(FileChar) /\ Len(Chars(t)) = Len(t) /\ Len(t) \in Nat
      /\ \A i \in 1..Len(t) : Chars(t)[i] = Char(t[i])
  BY <1>1, CharsIs
<1>3. Bounds(FileChar, Chars(t), v, w)
  BY <1>1, <1>2 DEF Bounds
<1>4. s \in Seq(Lexeme) /\ Len(s) = w - v /\ \A i \in 1..(w - v) : s[i] = t[v + i - 1]
  BY SliceIs DEF Sliced
<1> HIDE DEF s
<1>5. /\ Chars(s) \in Seq(FileChar) /\ Len(Chars(s)) = w - v
      /\ \A i \in 1..(w - v) : Chars(s)[i] = Char(s[i])
  BY <1>4, CharsIs
<1>6. Slice(Chars(s), 1, w - v + 1) = Chars(s)
  BY <1>5, SliceFull
<1>7. Bounds(FileChar, Chars(s), 1, w - v + 1)
  BY <1>1, <1>5 DEF Bounds
<1>8. \A k \in 0..(w - v - 1) : Chars(t)[v + k] = Chars(s)[1 + k]
  <2> TAKE k \in 0..(w - v - 1)
  <2>1. 1 + k \in 1..(w - v) /\ v + (1 + k) - 1 = v + k /\ v + k \in 1..Len(t)
    BY <1>1, <1>2
  <2> QED
    BY <1>2, <1>4, <1>5, <2>1
<1>9. w - v = (w - v + 1) - 1
  BY <1>1
<1>10. Slice(Chars(t), v, w) = Slice(Chars(s), 1, w - v + 1)
  BY <1>3, <1>7, <1>8, <1>9, SliceEqual
<1> QED
  BY <1>3, <1>6, <1>10 DEF s

LEMMA ResolvedPlain ==
  ASSUME NEW t, NEW v, NEW w, Bounds(Lexeme, t, v, w)
  PROVE  Resolved(Slice(Chars(t), v, w)) = Slice(Chars(t), v, w)
<1> DEFINE s == Slice(t, v, w)
<1>1. s \in Seq(Lexeme)
  BY SliceIs DEF Sliced
<1>2. Slice(Chars(t), v, w) = Chars(s)
  BY CharsSlice
<1> HIDE DEF s
<1>3. Len(Chars(s)) = 1 => Chars(s)[1].sealed = FALSE
  <2> HAVE Len(Chars(s)) = 1
  <2>1. 1 \in 1..Len(s) /\ Chars(s)[1] = Char(s[1])
    BY <1>1, CharsIs
  <2> QED
    BY <2>1, CharIs
<1> QED
  BY <1>2, <1>3 DEF Resolved

\* Where the only handle of a line stands for its value.
OneHandle(a, t, mu, b, k, e) ==
  /\ Twin(a, t, mu) /\ Line(a, b, e) /\ b \in 1..(Len(a) + 1) /\ e \in 1..(Len(a) + 1)
  /\ k \in b..(e - 1) /\ SealedAt(a, t, mu, k)
  /\ \A i \in b..(e - 1) : i # k => CopiedAt(a, t, mu, i)

HandleFor(a, t, mu, b, k, e, p, r, q, z) ==
  /\ OneHandle(a, t, mu, b, k, e)
  /\ PlainEntry(t, mu[b], p, r, q, mu[k], z, mu[e]) /\ mu[k + 1] = z + 1

LEMMA ValueTwin ==
  ASSUME NEW a, NEW t, NEW mu, NEW b, NEW k, NEW e, NEW p, NEW r, NEW q, NEW z,
         HandleFor(a, t, mu, b, k, e, p, r, q, z)
  PROVE  \E i, j, o : /\ EntryShape(a, b, i, j, o, k, k, e)
                      /\ Slice(a, i, j + 1) = Slice(Chars(t), p, r + 1)
<1> DEFINE l == Len(a)
           h == Len(t)
           B == mu[b]
           E == mu[e]
           v == mu[k]
<1>0. /\ OneHandle(a, t, mu, b, k, e)
      /\ PlainEntry(t, B, p, r, q, v, z, E) /\ mu[k + 1] = z + 1
  BY DEF HandleFor
<1>1. /\ l \in Nat /\ h \in Nat /\ t \in Seq(Lexeme) /\ a \in Seq(FileChar)
      /\ mu \in [1..(l + 1) -> 1..(h + 1)]
      /\ \A x, y \in 1..(l + 1) : x < y => mu[x] < mu[y]
  BY <1>0 DEF Twin, OneHandle
<1>2. /\ Line(a, b, e) /\ b \in 1..(l + 1) /\ e \in 1..(l + 1) /\ k \in b..(e - 1)
      /\ SealedAt(a, t, mu, k)
      /\ \A x \in b..(e - 1) : x # k => CopiedAt(a, t, mu, x)
  BY <1>0 DEF OneHandle
<1>3. EntryText(t, B, p, r, q, v, z, E)
  BY <1>0, <1>1, EntryTextIs
<1>4. /\ B \in Nat /\ p \in Nat /\ r \in Nat /\ q \in Nat /\ v \in Nat /\ z \in Nat /\ E \in Nat
      /\ 1 <= B /\ B <= p /\ p <= r /\ r < q /\ q < v /\ v <= z /\ z < E /\ E <= h + 1
      /\ \A x \in B..(p - 1) : t[x] = Blank
      /\ \A x \in p..r : t[x] \in {"w", "key"}
      /\ \A x \in (r + 1)..(q - 1) : t[x] = Blank
      /\ t[q] = "="
      /\ \A x \in (q + 1)..(v - 1) : t[x] = Blank
      /\ \A x \in (z + 1)..(E - 1) : t[x] = Blank
  BY <1>3 DEF EntryText
<1>5. \A x \in b..(e - 1) : \A c : c \notin Words => (a[x] = Char(c) <=> t[mu[x]] = c)
  <2> SUFFICES ASSUME NEW x \in b..(e - 1), NEW c, c \notin Words
               PROVE  a[x] = Char(c) <=> t[mu[x]] = c
    OBVIOUS
  <2>1. x \in 1..l
    BY <1>1, <1>2
  <2> QED
    BY <1>0, <2>1, TwinIsChar DEF OneHandle
<1>6. Blank \notin Words /\ "=" \notin Words /\ "#" \notin Words /\ Blank # "="
  BY DEF Words, Blank
<1>7. b \in Nat /\ k \in Nat /\ e \in Nat /\ 1 <= b /\ b <= k /\ k < e /\ e <= l + 1
  BY <1>1, <1>2
<1>8. /\ \A x \in b..k : mu[x] = B + (x - b)
      /\ v - B = k - b
  <2>1. k \in 1..(l + 1) /\ \A x \in b..(k - 1) : CopiedAt(a, t, mu, x)
    BY <1>2, <1>7
  <2> QED
    BY <1>2, <1>7, <2>1, <1>0, TwinRun DEF OneHandle
<1>9. a[k] # Char(Blank)
  <2>1. a[k].sealed = TRUE
    BY <1>2 DEF SealedAt
  <2> QED
    BY <2>1, CharIs
<1>10. \A x \in (k + 1)..(e - 1) : a[x] = Char(Blank)
  <2> TAKE x \in (k + 1)..(e - 1)
  <2>1. x \in b..(e - 1) /\ x \in 1..(l + 1) /\ k + 1 \in 1..(l + 1) /\ x < e /\ (x = k + 1 \/ k + 1 < x)
    BY <1>7
  <2>2. mu[x] < E /\ mu[x] \in Nat
    BY <1>1, <1>2, <2>1
  <2>4. z + 1 <= mu[x]
    <3>1. CASE x = k + 1
      BY <1>0, <1>4, <3>1
    <3>2. CASE k + 1 < x
      <4>1. mu[k + 1] < mu[x]
        BY <1>1, <2>1, <3>2
      <4> QED
        BY <1>0, <1>4, <2>2, <4>1
    <3> QED
      BY <2>1, <3>1, <3>2
  <2>3. mu[x] \in (z + 1)..(E - 1)
    BY <1>4, <2>2, <2>4
  <2> QED
    BY <1>4, <1>5, <1>6, <2>1, <2>3
<1> DEFINE i == p - B + b
           j == r - B + b
           o == q - B + b
<1> HIDE DEF l, h, B, E, v
<1>11. /\ i \in Nat /\ j \in Nat /\ o \in Nat /\ b <= i /\ i <= j /\ j < o /\ o < k
       /\ B + (i - b) = p /\ B + (j - b) = r /\ B + (o - b) = q
       /\ i \in b..k /\ j \in b..k /\ j + 1 \in b..k /\ o \in b..k
       /\ B + (j + 1 - b) = r + 1
  BY <1>4, <1>7, <1>8
<1> HIDE DEF i, j, o
<1>12. mu[i] = p /\ mu[j] = r /\ mu[o] = q /\ mu[j + 1] = r + 1
  <2>1. \A x \in b..k : mu[x] = B + (x - b)
    BY <1>8
  <2>2. mu[i] = B + (i - b) /\ mu[j] = B + (j - b) /\ mu[o] = B + (o - b)
    BY <1>11, <2>1
  <2>3. ASSUME NEW x \in b..k, x = j + 1 PROVE mu[x] = r + 1
    <3>1. mu[x] = B + (x - b)
      BY <2>1
    <3> QED
      BY <1>4, <1>7, <1>11, <2>3, <3>1
  <2> QED
    BY <1>11, <2>2, <2>3
<1>13. \A x \in b..(k - 1) : \A c : c \notin Words => (a[x] = Char(c) <=> t[B + (x - b)] = c)
  <2> TAKE x \in b..(k - 1)
  <2>1. x \in b..k /\ x \in b..(e - 1)
    BY <1>7
  <2> QED
    BY <1>5, <1>8, <2>1
<1>14. a[o] = Char("=")
  <2>1. o \in b..(k - 1)
    BY <1>7, <1>11
  <2> QED
    BY <1>4, <1>6, <1>11, <1>13, <2>1
<1>15. \A x \in b..(o - 1) : a[x] # Char("=")
  <2> TAKE x \in b..(o - 1)
  <2> DEFINE y == B + (x - b)
  <2>1. x \in b..(k - 1)
    BY <1>7, <1>11
  <2>2. y \in B..(p - 1) \/ y \in p..r \/ y \in (r + 1)..(q - 1)
    BY <1>4, <1>7, <1>11
  <2> HIDE DEF y
  <2>3. t[y] # "="
    BY <1>4, <1>6, <2>2
  <2> QED
    BY <1>6, <1>13, <2>1, <2>3 DEF y
<1>16. Bounds(FileChar, a, b, o) /\ Bounds(FileChar, a, o + 1, e)
  <2>1. o <= e /\ o <= l + 1 /\ o + 1 \in Nat /\ 1 <= o + 1 /\ o + 1 <= e
    BY <1>1, <1>7, <1>11
  <2> QED
    BY <1>1, <1>7, <1>11, <2>1 DEF Bounds, l
<1>17. Divided(a, b, o, e)
  <2>1. o \in b..(e - 1)
    BY <1>7, <1>11
  <2> QED
    BY <1>2, <1>14, <1>15, <2>1 DEF Divided
<1>18. /\ a[i] # Char(Blank) /\ a[j] # Char(Blank) /\ a[i] # Char("#")
  <2>1. i \in b..(k - 1) /\ j \in b..(k - 1) /\ p \in p..r /\ r \in p..r
    BY <1>4, <1>7, <1>11
  <2>2. t[p] # Blank /\ t[r] # Blank /\ t[p] # "#"
    BY <1>4, <2>1 DEF Blank
  <2> QED
    BY <1>6, <1>11, <1>13, <2>1, <2>2
<1>19. /\ \A x \in b..(i - 1) : a[x] = Char(Blank)
       /\ \A x \in (j + 1)..(o - 1) : a[x] = Char(Blank)
       /\ \A x \in (o + 1)..(k - 1) : a[x] = Char(Blank)
  <2>1. ASSUME NEW x \in b..(i - 1) PROVE a[x] = Char(Blank)
    <3>1. x \in b..(k - 1) /\ B + (x - b) \in B..(p - 1)
      BY <1>4, <1>7, <1>11
    <3> QED
      BY <1>4, <1>6, <1>13, <3>1
  <2>2. ASSUME NEW x \in (j + 1)..(o - 1) PROVE a[x] = Char(Blank)
    <3>1. x \in b..(k - 1) /\ B + (x - b) \in (r + 1)..(q - 1)
      BY <1>4, <1>7, <1>11
    <3> QED
      BY <1>4, <1>6, <1>13, <3>1
  <2>3. ASSUME NEW x \in (o + 1)..(k - 1) PROVE a[x] = Char(Blank)
    <3>1. x \in b..(k - 1) /\ B + (x - b) \in (q + 1)..(v - 1)
      BY <1>4, <1>7, <1>8, <1>11
    <3> QED
      BY <1>4, <1>6, <1>13, <3>1
  <2> QED
    BY <2>1, <2>2, <2>3
<1>20. Trimmed(a, b, i, j, o)
  BY <1>11, <1>16, <1>18, <1>19 DEF Trimmed
<1>21. Trimmed(a, o + 1, k, k, e)
  <2>1. o + 1 <= k /\ k <= k
    BY <1>7, <1>11
  <2> QED
    BY <1>7, <1>9, <1>10, <1>16, <1>19, <2>1 DEF Trimmed
<1>22. EntryShape(a, b, i, j, o, k, k, e)
  BY <1>17, <1>18, <1>20, <1>21 DEF EntryShape
<1>23. Slice(a, i, j + 1) = Slice(Chars(t), p, r + 1)
  <2>1. i \in 1..(l + 1) /\ j + 1 \in 1..(l + 1) /\ i <= j + 1
    BY <1>1, <1>7, <1>11
  <2>2. \A x \in i..((j + 1) - 1) : CopiedAt(a, t, mu, x)
    <3> TAKE x \in i..((j + 1) - 1)
    <3>1. x \in b..(e - 1) /\ x # k
      BY <1>7, <1>11
    <3> QED
      BY <1>2, <3>1
  <2>3. Slice(a, i, j + 1) = Slice(Chars(t), mu[i], mu[j + 1])
    BY <2>1, <2>2, <1>0, TwinRun DEF OneHandle, l
  <2> QED
    BY <1>12, <2>3
<1> QED
  BY <1>22, <1>23

LEMMA HandleOnLine ==
  ASSUME NEW a, NEW t, NEW mu, Twin(a, t, mu), NEW b \in 1..(Len(a) + 1), NEW e \in 1..(Len(a) + 1),
         NEW k \in b..(e - 1), SealedAt(a, t, mu, k)
  PROVE  /\ k \in 1..Len(a) /\ mu[b] <= mu[k] /\ mu[k] < mu[e]
         /\ \E c, p, r, q, z, d :
              c \in Begins(Chars(t)) /\ c \in Nat /\ PlainEntry(t, c, p, r, q, mu[k], z, d) /\ mu[k + 1] = z + 1
<1>1. /\ Len(a) \in Nat /\ mu \in [1..(Len(a) + 1) -> 1..(Len(t) + 1)] /\ Len(t) \in Nat
      /\ \A j, i \in 1..(Len(a) + 1) : j < i => mu[j] < mu[i]
  BY DEF Twin
<1>2. k \in 1..Len(a) /\ k \in 1..(Len(a) + 1) /\ k < e /\ (k = b \/ b < k)
  BY <1>1
<1>3. mu[b] <= mu[k] /\ mu[k] < mu[e]
  <2>1. mu[k] \in Nat /\ mu[b] \in Nat
    BY <1>1, <1>2
  <2>2. mu[k] < mu[e]
    BY <1>1, <1>2
  <2>3. k = b \/ mu[b] < mu[k]
    BY <1>1, <1>2
  <2> QED
    BY <2>1, <2>2, <2>3
<1>4. ValueStretch(t, mu[k], mu[k + 1])
  BY DEF SealedAt
<1> QED
  BY <1>2, <1>3, <1>4 DEF ValueStretch

LEMMA EntryTwin ==
  ASSUME NEW a, NEW t, NEW mu, Twin(a, t, mu), PlainText(t), NEW b \in Begins(a)
  PROVE  /\ IsEntry(LineAt(a, b)) <=> IsEntry(LineAt(Chars(t), mu[b]))
         /\ Entry(LineAt(a, b)).key = Entry(LineAt(Chars(t), mu[b])).key
         /\ Resolved(Entry(LineAt(a, b)).value) = Resolved(Entry(LineAt(Chars(t), mu[b])).value)
<1> DEFINE l == Len(a)
           B == mu[b]
<1>1. /\ l \in Nat /\ Len(t) \in Nat /\ t \in Seq(Lexeme) /\ a \in Seq(FileChar)
      /\ mu \in [1..(l + 1) -> 1..(Len(t) + 1)]
      /\ \A x, y \in 1..(l + 1) : x < y => mu[x] < mu[y]
  BY DEF Twin
<1>2. b \in 1..(l + 1) /\ B \in Begins(Chars(t)) /\ B \in 1..(Len(t) + 1)
  BY <1>1, TwinBegins
<1>3. PlainLine(LineAt(Chars(t), B))
  BY <1>2 DEF PlainText
<1>4. PICK E : PlainRest(t, B, E) \/ \E p, r, q, v, z : PlainEntry(t, B, p, r, q, v, z, E)
  BY <1>1, <1>2, <1>3, PlainLineIs
<1>5. Line(Chars(t), B, E)
  BY <1>4 DEF PlainRest, PlainEntry, EntryShape, Divided
<1>6. PICK e \in 1..(l + 1) : b <= e /\ mu[e] = E /\ Line(a, b, e)
  BY <1>2, <1>5, TwinLine
<1>7. E \in Nat /\ B \in Nat
  BY <1>1, <1>2, <1>6
<1>8. LineAt(a, b) = Slice(a, b, e) /\ LineAt(Chars(t), B) = Slice(Chars(t), B, E)
  BY <1>5, <1>6, LineAtIs
<1>9. CASE \A k \in b..(e - 1) : CopiedAt(a, t, mu, k)
  <2>1. Slice(a, b, e) = Slice(Chars(t), mu[b], mu[e])
    BY <1>2, <1>6, <1>9, TwinRun
  <2>2. LineAt(a, b) = LineAt(Chars(t), B)
    BY <1>6, <1>8, <2>1
  <2> QED
    BY <2>2
<1>10. ASSUME NEW k \in b..(e - 1), ~CopiedAt(a, t, mu, k)
       PROVE  /\ IsEntry(LineAt(a, b)) /\ IsEntry(LineAt(Chars(t), B))
              /\ Entry(LineAt(a, b)).key = Entry(LineAt(Chars(t), B)).key
              /\ Resolved(Entry(LineAt(a, b)).value) = Resolved(Entry(LineAt(Chars(t), B)).value)
  <2>1. \A x \in b..(e - 1) : x \in 1..l /\ (CopiedAt(a, t, mu, x) \/ SealedAt(a, t, mu, x))
    <3> TAKE x \in b..(e - 1)
    <3>1. x \in 1..l
      BY <1>1, <1>2
    <3> QED
      BY <3>1 DEF Twin
  <2>2. SealedAt(a, t, mu, k)
    BY <1>10, <2>1
  <2>3. CASE PlainRest(t, B, E)
    <3>1. PICK c, p, r, q, z, d :
            c \in Begins(Chars(t)) /\ c \in Nat /\ PlainEntry(t, c, p, r, q, mu[k], z, d) /\ mu[k + 1] = z + 1
      BY <1>2, <2>2, HandleOnLine
    <3>2. B <= mu[k] /\ mu[k] < E
      BY <1>2, <1>6, <2>2, HandleOnLine
    <3> QED
      BY <1>1, <1>2, <1>7, <2>3, <3>1, <3>2, NoValue
  <2>4. CASE \E p, r, q, v, z : PlainEntry(t, B, p, r, q, v, z, E)
    <3>1. PICK p, r, q, v, z : PlainEntry(t, B, p, r, q, v, z, E)
      BY <2>4
    <3>2. ASSUME NEW x \in b..(e - 1), ~CopiedAt(a, t, mu, x)
          PROVE  mu[x] = v /\ mu[x + 1] = z + 1
      <4>1. SealedAt(a, t, mu, x)
        BY <2>1, <3>2
      <4>2. PICK c, p2, r2, q2, z2, d :
              c \in Begins(Chars(t)) /\ c \in Nat /\ PlainEntry(t, c, p2, r2, q2, mu[x], z2, d) /\ mu[x + 1] = z2 + 1
        BY <1>2, <4>1, HandleOnLine
      <4>3. B <= mu[x] /\ mu[x] < E
        BY <1>2, <1>6, <4>1, HandleOnLine
      <4>4. mu[x] = v /\ z2 = z
        BY <1>1, <1>2, <1>7, <3>1, <4>2, <4>3, SameValue
      <4> QED
        BY <4>2, <4>4
    <3>3. mu[k] = v /\ mu[k + 1] = z + 1
      BY <1>10, <3>2
    <3>4. \A x \in b..(e - 1) : x # k => CopiedAt(a, t, mu, x)
      <4> SUFFICES ASSUME NEW x \in b..(e - 1), x # k, ~CopiedAt(a, t, mu, x) PROVE FALSE
        OBVIOUS
      <4>1. mu[x] = v
        BY <3>2
      <4>2. x \in 1..(l + 1) /\ k \in 1..(l + 1) /\ (x < k \/ k < x) /\ x \in Nat /\ k \in Nat
        BY <1>1, <1>2
      <4>3. mu[x] < mu[k] \/ mu[k] < mu[x]
        BY <1>1, <4>2
      <4>4. mu[x] \in Nat
        BY <1>1, <4>2
      <4> QED
        BY <3>3, <4>1, <4>3, <4>4
    <3>5. OneHandle(a, t, mu, b, k, e)
      BY <1>2, <1>6, <2>2, <3>4 DEF OneHandle
    <3>6. HandleFor(a, t, mu, b, k, e, p, r, q, z)
      BY <1>6, <3>1, <3>3, <3>5 DEF HandleFor
    <3>7. PICK i, j, o : /\ EntryShape(a, b, i, j, o, k, k, e)
                         /\ Slice(a, i, j + 1) = Slice(Chars(t), p, r + 1)
      BY <3>6, ValueTwin
    <3>8. /\ IsEntry(LineAt(a, b))
          /\ Entry(LineAt(a, b)) = [key |-> Slice(a, i, j + 1), value |-> Slice(a, k, k + 1)]
      BY <3>7, EntryIs
    <3>9. /\ IsEntry(LineAt(Chars(t), B))
          /\ Entry(LineAt(Chars(t), B)) =
               [key |-> Slice(Chars(t), p, r + 1), value |-> Slice(Chars(t), v, z + 1)]
      <4>1. EntryShape(Chars(t), B, p, r, q, v, z, E)
        BY <3>1 DEF PlainEntry
      <4> QED
        BY <4>1, EntryIs
    <3>10. Bounds(Lexeme, t, v, z + 1)
      <4>1. EntryText(t, B, p, r, q, v, z, E)
        BY <1>1, <3>1, EntryTextIs
      <4>2. v \in Nat /\ z \in Nat /\ 1 <= v /\ v <= z /\ z + 1 <= Len(t) + 1
        BY <4>1, <1>1 DEF EntryText
      <4> QED
        BY <1>1, <4>2 DEF Bounds
    <3>11. Resolved(Slice(Chars(t), v, z + 1)) = Chars(Slice(t, v, z + 1))
      BY <3>10, CharsSlice, ResolvedPlain
    <3>12. Resolved(Slice(a, k, k + 1)) = Chars(Slice(t, v, z + 1))
      <4>1. k \in Nat /\ 1 <= k /\ k <= k + 1 /\ k + 1 <= l + 1 /\ k + 1 \in Nat /\ (k + 1) - k = 1
        BY <1>1, <2>1
      <4>2. Bounds(FileChar, a, k, k + 1)
        BY <1>1, <4>1 DEF Bounds
      <4>3. /\ Len(Slice(a, k, k + 1)) = (k + 1) - k
            /\ \A y \in 1..((k + 1) - k) : Slice(a, k, k + 1)[y] = a[k + y - 1]
        <5>1. Sliced(FileChar, a, k, k + 1)
          BY <4>2, SliceIs
        <5> QED
          BY <5>1 DEF Sliced
      <4>4. Len(Slice(a, k, k + 1)) = 1 /\ Slice(a, k, k + 1)[1] = a[k]
        <5>1. 1 \in 1..((k + 1) - k) /\ k + 1 - 1 = k
          BY <4>1
        <5> QED
          BY <4>1, <4>3, <5>1
      <4>5. a[k] = [sealed |-> TRUE, is |-> Slice(t, v, z + 1)]
        BY <2>2, <3>3 DEF SealedAt
      <4>6. a[k].sealed = TRUE /\ a[k].is = Slice(t, v, z + 1)
        BY <4>5
      <4> QED
        BY <4>4, <4>6 DEF Resolved
    <3> QED
      BY <3>7, <3>8, <3>9, <3>11, <3>12
  <2> QED
    BY <1>4, <2>3, <2>4
<1> QED
  BY <1>9, <1>10

\* The sealed file and the text give a program the same environment.
LEMMA TwinEnv ==
  ASSUME NEW a, NEW t, NEW mu, Twin(a, t, mu), PlainText(t)
  PROVE  EnvOf(a) = EnvOf(Chars(t))
<1> DEFINE n == Len(a) + 1
           F(file) == [b \in DOMAIN Entries(file) |-> [Entries(file)[b] EXCEPT !.value = Resolved(@)]]
           E == F(a)
           G == F(Chars(t))
<1>1. \A file : DOMAIN Entries(file) = {c \in Begins(file) : IsEntry(LineAt(file, c))}
  BY DEF Entries
<1>2. \A file : \A b \in DOMAIN Entries(file) :
        Entries(file)[b] = [key |-> Entry(LineAt(file, b)).key, value |-> Entry(LineAt(file, b)).value]
  BY DEF Entries, Entry
<1>3. \A file : /\ DOMAIN F(file) = {c \in Begins(file) : IsEntry(LineAt(file, c))}
                /\ \A b \in DOMAIN F(file) :
                     /\ F(file)[b].key = Entry(LineAt(file, b)).key
                     /\ F(file)[b].value = Resolved(Entry(LineAt(file, b)).value)
  BY <1>1, <1>2
<1>4. /\ n \in Nat /\ Len(a) \in Nat
      /\ mu \in [1..n -> 1..(Len(t) + 1)]
      /\ \A x, y \in 1..n : x < y => mu[x] < mu[y]
  BY DEF Twin
<1>5. /\ Begins(a) \subseteq 1..n
      /\ \A b \in Begins(a) : mu[b] \in Begins(Chars(t))
      /\ \A c \in Begins(Chars(t)) : \E b \in Begins(a) : mu[b] = c
  BY TwinBegins
<1>6. EnvOf(a) = AsMap(E) /\ EnvOf(Chars(t)) = AsMap(G)
  BY DEF EnvOf
<1>7. /\ DOMAIN E = {c \in Begins(a) : IsEntry(LineAt(a, c))}
      /\ DOMAIN G = {c \in Begins(Chars(t)) : IsEntry(LineAt(Chars(t), c))}
  BY <1>3
<1>8. /\ \A b \in DOMAIN E : /\ E[b].key = Entry(LineAt(a, b)).key
                             /\ E[b].value = Resolved(Entry(LineAt(a, b)).value)
      /\ \A b \in DOMAIN G : /\ G[b].key = Entry(LineAt(Chars(t), b)).key
                             /\ G[b].value = Resolved(Entry(LineAt(Chars(t), b)).value)
  BY <1>3
<1> HIDE DEF n, F, E, G
<1>9. DOMAIN E \in SUBSET (1..n)
  BY <1>5, <1>7
<1>10. \A b \in DOMAIN E : /\ mu[b] \in DOMAIN G /\ mu[b] \in Nat
                           /\ E[b].key = G[mu[b]].key /\ E[b].value = G[mu[b]].value
  <2> TAKE b \in DOMAIN E
  <2>1. b \in Begins(a) /\ IsEntry(LineAt(a, b)) /\ mu[b] \in Begins(Chars(t)) /\ mu[b] \in Nat
    BY <1>4, <1>5, <1>7
  <2>2. /\ IsEntry(LineAt(Chars(t), mu[b]))
        /\ Entry(LineAt(a, b)).key = Entry(LineAt(Chars(t), mu[b])).key
        /\ Resolved(Entry(LineAt(a, b)).value) = Resolved(Entry(LineAt(Chars(t), mu[b])).value)
    BY <2>1, EntryTwin
  <2>3. mu[b] \in DOMAIN G
    BY <1>7, <2>1, <2>2
  <2> QED
    BY <1>8, <2>1, <2>2, <2>3
<1>11. \A c \in DOMAIN G : \E b \in DOMAIN E : mu[b] = c
  <2> TAKE c \in DOMAIN G
  <2>1. c \in Begins(Chars(t)) /\ IsEntry(LineAt(Chars(t), c))
    BY <1>7
  <2>2. PICK b \in Begins(a) : mu[b] = c
    BY <1>5, <2>1
  <2>3. IsEntry(LineAt(a, b))
    BY <2>1, <2>2, EntryTwin
  <2> QED
    BY <1>7, <2>2, <2>3
<1>12. \A b, c \in DOMAIN E : b < c => mu[b] < mu[c]
  BY <1>4, <1>9
<1>13. AsMap(E) = AsMap(G)
  BY <1>4, <1>9, <1>10, <1>11, <1>12, AsMapSame
<1> QED
  BY <1>6, <1>13

LEMMA SealedTheSame ==
  ASSUME NEW t \in Seq(Lexeme), PlainText(t), NEW ps, PlainPieces(t, ps)
  PROVE  EnvOf(FlattenSeq(Replacements(t, ps))) = EnvOf(Chars(t))
<1>1. PICK mu : Aligned(FlattenSeq(Replacements(t, ps)), t, Len(t) + 1, mu)
  BY ReplacementsAligned
<1>2. Twin(FlattenSeq(Replacements(t, ps)), t, mu)
  BY <1>1, TwinIs
<1> QED
  BY <1>2, TwinEnv

-----------------------------------------------------------------------------
(* The invariant of the commands.                                          *)

\* Nothing is sealed but what was found and should be.
SealedAreFound ==
  \A i \in 1..Len(pieces) : pieces[i].sealed =>
    \E f \in Findings(text) :
      ShouldSeal(f.confidence, mode) /\ pieces[i].from = f.from /\ pieces[i].to = f.to

OutputInv ==
  /\ pc = "scan" => rest = {}
  /\ pc = "replace" => \A f \in clean : ShouldSeal(f.confidence, mode)
  /\ SealedAreFound
  /\ pc \in {"done", "ran"} => pieces # <<>> /\ Cursor = Len(text) + 1

\* What was read is what the file is read as, and the file is what was exported.
ReadInv ==
  /\ pc = "ran" => read = EnvOf(SealedFile)
  /\ pc = "imported" => read = Stored(ImportDotenv(Chars(text)))
  /\ exported # Nothing => exported \in Secrets /\ text = ExportDotenv(exported)

EnvInv == SealInv /\ OutputInv /\ ReadInv

LEMMA EnvBegins ==
  Init => EnvInv
<1> SUFFICES ASSUME Init PROVE EnvInv
  OBVIOUS
<1>1. SealInv
  BY SealBegins DEF Init
<1>2. pc = "scan" /\ rest = {} /\ clean = {} /\ pieces = <<>> /\ exported = Nothing
  BY DEF Init, SealInit
<1>3. Len(pieces) = 0
  BY <1>2, EmptySeq
<1>4. OutputInv
  BY <1>2, <1>3 DEF OutputInv, SealedAreFound
<1>5. ReadInv
  BY <1>2 DEF ReadInv
<1> QED
  BY <1>1, <1>4, <1>5 DEF EnvInv

LEMMA ReplaceOutput ==
  ASSUME SealInv, OutputInv, Replace
  PROVE  SealedAreFound'
<1> DEFINE f == FirstOf(clean)
           copied == Piece(Cursor, f.from, FALSE)
           handle == Piece(f.from, f.to, TRUE)
           n == Len(pieces)
           two == <<copied, handle>>
<1>1. /\ pc = "replace" /\ clean # {} /\ pieces' = pieces \o two
      /\ UNCHANGED <<text, mode, pc, rest>>
  BY DEF Replace, Replaced
<1>2. f \in clean /\ Stretch(f, text)
  BY <1>1, FirstOfIs, TextIs DEF SealInv
<1>3. Cursor \in Nat /\ pieces \in Seq(Stretches)
  BY TextIs DEF SealInv, PiecesInv, Joined
<1>4. f \in Findings(text) /\ ShouldSeal(f.confidence, mode)
  BY <1>1, <1>2 DEF SealInv, OutputInv
<1> HIDE DEF f
<1>5. /\ copied \in Stretches /\ copied.sealed = FALSE
      /\ handle \in Stretches /\ handle.from = f.from /\ handle.to = f.to
  BY <1>2, <1>3 DEF Stretch, Stretches, Piece
<1> HIDE DEF copied, handle
<1>6. two \in Seq(Stretches) /\ Len(two) = 2 /\ two[1] = copied /\ two[2] = handle
  BY <1>5
<1> HIDE DEF two
<1>7. /\ n \in Nat /\ Len(pieces \o two) = n + Len(two)
      /\ \A i \in 1..n : (pieces \o two)[i] = pieces[i]
      /\ \A i \in 1..Len(two) : (pieces \o two)[n + i] = two[i]
  <2>1. ASSUME NEW s \in Seq(Stretches), NEW u \in Seq(Stretches)
        PROVE  /\ Len(s) \in Nat /\ Len(s \o u) = Len(s) + Len(u)
               /\ \A i \in 1..Len(s) : (s \o u)[i] = s[i]
               /\ \A i \in 1..Len(u) : (s \o u)[Len(s) + i] = u[i]
    BY ConcatIs
  <2> QED
    BY <1>3, <1>6, <2>1
<1> DEFINE ps == pieces \o two
<1> HIDE DEF n, ps
<1>8. /\ n \in Nat /\ Len(ps) = n + 2 /\ \A i \in 1..n : ps[i] = pieces[i]
      /\ ps[n + 1] = copied /\ ps[n + 2] = handle
  <2>1. 1 \in 1..Len(two) /\ 2 \in 1..Len(two)
    BY <1>6
  <2> QED
    BY <1>6, <1>7, <2>1 DEF ps
<1>9. pieces' = ps
  BY <1>1 DEF ps
<1> SUFFICES ASSUME NEW i \in 1..Len(ps), ps[i].sealed
             PROVE  \E g \in Findings(text) :
                      ShouldSeal(g.confidence, mode) /\ ps[i].from = g.from /\ ps[i].to = g.to
  BY <1>1, <1>9 DEF SealedAreFound
<1>10. i \in 1..n \/ i = n + 1 \/ i = n + 2
  BY <1>8
<1>11. CASE i \in 1..n
  BY <1>8, <1>11 DEF OutputInv, SealedAreFound, n
<1>12. CASE i = n + 1
  BY <1>5, <1>8, <1>12
<1>13. CASE i = n + 2
  BY <1>4, <1>5, <1>8, <1>13
<1> QED
  BY <1>10, <1>11, <1>12, <1>13

LEMMA FinishOutput ==
  ASSUME SealInv, OutputInv, Finish
  PROVE  SealedAreFound'
<1> DEFINE last == Piece(Cursor, Len(text) + 1, FALSE)
           ps == Append(pieces, last)
           n == Len(pieces)
<1>1. pieces' = ps /\ UNCHANGED <<text, mode>>
  BY DEF Finish
<1>2. last \in Stretches /\ pieces \in Seq(Stretches) /\ last.sealed = FALSE
  BY TextIs DEF SealInv, PiecesInv, Joined, Piece, Stretches
<1> HIDE DEF last
<1>3. n \in Nat /\ Len(ps) = n + 1 /\ ps[n + 1] = last /\ \A i \in 1..n : ps[i] = pieces[i]
  BY <1>2, AppendProperties, LenProperties
<1> HIDE DEF ps, n
<1> SUFFICES ASSUME NEW i \in 1..Len(ps), ps[i].sealed
             PROVE  \E g \in Findings(text) :
                      ShouldSeal(g.confidence, mode) /\ ps[i].from = g.from /\ ps[i].to = g.to
  BY <1>1 DEF SealedAreFound
<1>4. i \in 1..n
  BY <1>2, <1>3
<1> QED
  BY <1>3, <1>4 DEF OutputInv, SealedAreFound, n

LEMMA SealOutput ==
  ASSUME SealInv, OutputInv, SealNext
  PROVE  OutputInv'
<1>1. CASE Scan
  <2>1. pc = "scan" /\ pc' \in {"panicked", "normalize"} /\ UNCHANGED <<text, mode, pieces>>
    BY <1>1 DEF Scan
  <2> QED
    BY <2>1 DEF OutputInv, SealedAreFound
<1>2. CASE Normalize
  <2>1. pc = "normalize" /\ UNCHANGED <<text, mode, pc, pieces>>
    BY <1>2 DEF Normalize
  <2> QED
    BY <2>1 DEF OutputInv, SealedAreFound
<1>3. CASE Filter
  <2>1. /\ pc' = "replace" /\ UNCHANGED <<text, mode, pieces>>
        /\ clean' = {f \in clean : ShouldSeal(f.confidence, mode)}
    BY <1>3 DEF Filter
  <2> QED
    BY <2>1 DEF OutputInv, SealedAreFound
<1>4. CASE Replace
  <2>1. /\ pc = "replace" /\ pc' = "replace" /\ clean' \subseteq clean /\ mode' = mode
    BY <1>4 DEF Replace
  <2>2. SealedAreFound'
    BY <1>4, ReplaceOutput
  <2> QED
    BY <2>1, <2>2 DEF OutputInv
<1>5. CASE Finish
  <2>1. pc' = "done"
    BY <1>5 DEF Finish
  <2>2. SealedAreFound'
    BY <1>5, FinishOutput
  <2>3. pieces' # <<>> /\ Cursor' = Len(text') + 1
    BY <1>5, <2>1, FinishKeeps DEF SealInv, PiecesInv
  <2> QED
    BY <2>1, <2>2, <2>3 DEF OutputInv
<1> QED
  BY <1>1, <1>2, <1>3, <1>4, <1>5 DEF SealNext

\* env seal reads no file and does not change the one it reads.
LEMMA EnvSealKeeps ==
  ASSUME EnvInv, EnvSeal
  PROVE  EnvInv'
<1>1. SealNext /\ UNCHANGED <<exported, read>>
  BY DEF EnvSeal
<1>2. SealInv'
  BY <1>1, SealKeeps DEF EnvInv
<1>3. OutputInv'
  BY <1>1, SealOutput DEF EnvInv
<1>4. text' = text /\ pc' \notin {"ran", "imported"}
  BY <1>1 DEF SealNext, Scan, Normalize, Filter, Replace, Finish
<1>5. ReadInv'
  BY <1>1, <1>4 DEF EnvInv, ReadInv
<1> QED
  BY <1>2, <1>3, <1>5 DEF EnvInv

\* ... the readers change nothing of it.
LEMMA SealStays ==
  ASSUME SealInv, UNCHANGED <<text, mode, rest, clean, pieces>>, pc' \in {"ran", "imported"}
  PROVE  SealInv' /\ (SealedAreFound => SealedAreFound')
<1>1. pc' \notin {"scan", "normalize", "replace", "done"}
  OBVIOUS
<1>2. Cursor' = Cursor
  BY DEF Cursor
<1>3. PiecesInv'
  BY <1>1, <1>2 DEF SealInv, PiecesInv
<1>4. CoverInv'
  BY <1>1 DEF CoverInv
<1>5. SealInv'
  BY <1>1, <1>3, <1>4 DEF SealInv
<1> QED
  BY <1>5 DEF SealedAreFound

LEMMA EnvRunKeeps ==
  ASSUME EnvInv, EnvRun
  PROVE  EnvInv'
<1>1. /\ pc = "done" /\ read' = EnvOf(SealedFile) /\ pc' = "ran"
      /\ UNCHANGED <<text, mode, rest, clean, pieces, exported>>
  BY DEF EnvRun
<1>2. SealInv' /\ SealedAreFound'
  BY <1>1, SealStays DEF EnvInv, OutputInv
<1>3. SealedFile' = SealedFile /\ Cursor' = Cursor
  BY <1>1 DEF SealedFile, Cursor
<1>4. OutputInv'
  BY <1>1, <1>2, <1>3 DEF EnvInv, OutputInv
<1>5. ReadInv'
  BY <1>1, <1>3 DEF EnvInv, ReadInv
<1> QED
  BY <1>2, <1>4, <1>5 DEF EnvInv

LEMMA EnvImportKeeps ==
  ASSUME EnvInv, Import
  PROVE  EnvInv'
<1>1. /\ pc = "scan" /\ read' = Stored(ImportDotenv(Chars(text))) /\ pc' = "imported"
      /\ UNCHANGED <<text, mode, rest, clean, pieces, exported>>
  BY DEF Import
<1>2. SealInv' /\ SealedAreFound'
  BY <1>1, SealStays DEF EnvInv, OutputInv
<1>3. OutputInv'
  BY <1>1, <1>2 DEF OutputInv
<1>4. ReadInv'
  BY <1>1 DEF EnvInv, ReadInv
<1> QED
  BY <1>2, <1>3, <1>4 DEF EnvInv

\* What is exported is a text, and nothing has been made of the one before.
LEMMA ExportKeeps ==
  ASSUME EnvInv, NEW s \in Secrets, Export(s)
  PROVE  EnvInv'
<1>1. /\ pc = "scan" /\ exported' = s /\ text' = ExportDotenv(s)
      /\ UNCHANGED <<mode, pc, rest, clean, pieces, read>>
  BY DEF Export
<1>2. text' \in Seq(Lexeme) /\ Len(text') \in Nat
  BY <1>1, ExportIs, LenProperties
<1>3. rest = {} /\ clean = {} /\ pieces = <<>>
  BY <1>1 DEF EnvInv, SealInv, PiecesInv, OutputInv
<1>4. Cursor' = 1
  BY <1>1, <1>3 DEF Cursor
<1>5. PiecesInv'
  <2>1. Joined(pieces)'
    BY <1>1 DEF EnvInv, SealInv, PiecesInv
  <2>2. (Cursor <= Len(text) + 1)'
    BY <1>2, <1>4
  <2> QED
    BY <1>1, <1>3, <2>1, <2>2 DEF PiecesInv
<1>6. CoverInv'
  BY <1>1 DEF CoverInv
<1>7. SealInv'
  BY <1>1, <1>2, <1>3, <1>5, <1>6 DEF SealInv, Disjoint
<1>8. OutputInv'
  <2>1. Len(pieces') = 0
    BY <1>1, <1>3, EmptySeq
  <2>2. SealedAreFound'
    BY <2>1 DEF SealedAreFound
  <2> QED
    BY <1>1, <1>3, <2>2 DEF OutputInv
<1>9. ReadInv'
  BY <1>1 DEF ReadInv
<1> QED
  BY <1>7, <1>8, <1>9 DEF EnvInv

LEMMA EnvStays ==
  ASSUME EnvInv, UNCHANGED vars
  PROVE  EnvInv'
<1>1. UNCHANGED <<text, mode, pc, rest, clean, pieces, exported, read>>
  BY DEF vars
<1>2. SealInv'
  <2>1. UNCHANGED sealVars
    BY <1>1 DEF sealVars
  <2> QED
    BY <2>1, SealKeeps DEF EnvInv
<1>3. SealedFile' = SealedFile /\ Cursor' = Cursor
  BY <1>1 DEF SealedFile, Cursor
<1>4. OutputInv'
  BY <1>1, <1>3 DEF EnvInv, OutputInv, SealedAreFound
<1>5. ReadInv'
  BY <1>1, <1>3 DEF EnvInv, ReadInv
<1> QED
  BY <1>2, <1>4, <1>5 DEF EnvInv

LEMMA EnvHolds ==
  Spec => []EnvInv
<1>1. EnvInv /\ [Next]_vars => EnvInv'
  BY EnvSealKeeps, EnvRunKeeps, EnvImportKeeps, ExportKeeps, EnvStays DEF Next
<1> QED
  BY <1>1, EnvBegins, PTL DEF Spec

\* seal_text on the files that `secret export` and `sync dotenv` write, as on any other: no
\* slice is out of range, nothing is lost, and findings that only nest are hidden.
THEOREM FilesAreSealedWhole ==
  Spec => [](KeptInOrder /\ NothingIsLost /\ NestedAreHidden)
<1>1. EnvInv => KeptInOrder /\ NothingIsLost /\ NestedAreHidden
  BY InOrder, NoneLost, NestedHidden DEF EnvInv
<1> QED
  BY <1>1, EnvHolds, PTL

\* docs/QUICKSTART.md:67-69, env seal and then env run: whatever the file, if its lines are
\* plain the program gets from the sealed file the environment of the file before.
THEOREM SealedAlwaysRunsTheSame ==
  Spec => []SealedRunsTheSame
<1>1. EnvInv => SealedRunsTheSame
  <2> SUFFICES ASSUME EnvInv, pc = "ran", ~mode.aggressive, PlainText(text)
               PROVE  read = EnvOf(Chars(text))
    BY DEF SealedRunsTheSame, PlainText
  <2>1. text \in Seq(Lexeme) /\ Joined(pieces) /\ read = EnvOf(SealedFile)
    BY DEF EnvInv, SealInv, PiecesInv, ReadInv
  <2>2. \A i \in 1..Len(pieces) : pieces[i].sealed => ValueStretch(text, pieces[i].from, pieces[i].to)
    <3> SUFFICES ASSUME NEW i \in 1..Len(pieces), pieces[i].sealed
                 PROVE  ValueStretch(text, pieces[i].from, pieces[i].to)
      OBVIOUS
    <3>1. PICK f \in Findings(text) :
            ShouldSeal(f.confidence, mode) /\ pieces[i].from = f.from /\ pieces[i].to = f.to
      BY DEF EnvInv, OutputInv, SealedAreFound
    <3>2. ValueStretch(text, f.from, f.to)
      BY <2>1, <3>1, PlainFindings
    <3> QED
      BY <3>1, <3>2
  <2>3. PlainPieces(text, pieces)
    BY <2>1, <2>2 DEF PlainPieces, EnvInv, OutputInv, Cursor, CursorOf
  <2>4. SealedFile = FlattenSeq(Replacements(text, pieces))
    BY DEF SealedFile, Replacements, Replacement, Slice
  <2> QED
    BY <2>1, <2>3, <2>4, SealedTheSame
<1> QED
  BY <1>1, EnvHolds, PTL

\* export_dotenv and import_dotenv, main.rs:504-510: whatever the names and values that were
\* exported, the file gives them back.
THEOREM ImportedAlwaysAsExported ==
  Spec => []ImportedAsExported
<1>1. EnvInv => ImportedAsExported
  <2> SUFFICES ASSUME EnvInv, pc = "imported", exported # Nothing,
                      \A i \in DOMAIN exported :
                        /\ "=" \notin ToSet(exported[i].key) /\ Head(exported[i].key) # "#"
                        /\ "nl" \notin ToSet(exported[i].value)
               PROVE  read = AsMap([i \in DOMAIN exported |->
                               [key |-> Chars(exported[i].key), value |-> Chars(exported[i].value)]])
    BY DEF ImportedAsExported
  <2>1. /\ exported \in Secrets /\ text = ExportDotenv(exported)
        /\ read = Stored(ImportDotenv(Chars(text)))
    BY DEF EnvInv, ReadInv
  <2>2. \A i \in DOMAIN exported :
          PlainName(exported[i].key) /\ "nl" \notin ToSet(exported[i].value)
    BY <2>1, SecretsAssumption DEF PlainName
  <2> QED
    BY <2>1, <2>2, ImportIs
<1> QED
  BY <1>1, EnvHolds, PTL
=============================================================================
