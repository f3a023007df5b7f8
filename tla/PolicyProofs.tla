---------------------------- MODULE PolicyProofs ----------------------------
(***************************************************************************)
(* Theorems about Policy, for every pattern, host rule, preset and request: *)
(* the loop of wildcard_match decides what its pattern means, a request    *)
(* that leaves was asked for, one that was asked for is not denied, and    *)
(* the secret arrives in its header.                                       *)
(***************************************************************************)
EXTENDS Policy, SequenceTheorems, FiniteSetTheorems, WellFoundedInduction, TLAPS

-----------------------------------------------------------------------------
(* Induction up to a number, over a set, and functions defined that way.   *)

\* The initial segments of a set of naturals are finite, and strict inclusion of finite
\* sets is well-founded.
LEMMA LeastExists ==
  ASSUME NEW S \in SUBSET Nat, S # {}
  PROVE  \E a \in S : \A b \in S : a <= b
<1> DEFINE Upto(k) == {m \in S : m <= k}
           T == {Upto(k) : k \in S}
           R == StrictSubsetOrdering(Nat)
<1>1. \A k \in S : IsFiniteSet(Upto(k))
  <2> TAKE k \in S
  <2> HIDE DEF Upto
  <2>1. Upto(k) \in SUBSET Nat /\ \A m \in Upto(k) : m <= k
    BY DEF Upto
  <2> QED
    BY <2>1, FS_BoundedSetOfNaturals
<1>2. T \subseteq FiniteSubsetsOf(Nat) /\ T # {}
  BY <1>1 DEF FiniteSubsetsOf
<1>3. IsWellFoundedOn(R, FiniteSubsetsOf(Nat))
  BY FS_StrictSubsetOrderingWellFounded
<1>4. \E X \in T : \A Y \in T : ~(<<Y, X>> \in R)
  <2> HIDE DEF T, R
  <2> QED
    BY <1>2, <1>3, WFMin
<1>5. PICK a \in S : \A b \in S : ~(<<Upto(b), Upto(a)>> \in R)
  BY <1>4
<1>6. ASSUME NEW b \in S, ~(a <= b) PROVE FALSE
  <2>1. a \in Nat /\ b \in Nat /\ b < a /\ \A m \in S : m <= b => m <= a
    BY <1>6
  <2>2. Upto(b) \subseteq Upto(a) /\ a \in Upto(a) /\ a \notin Upto(b)
    <3>1. Upto(b) \subseteq Upto(a)
      BY <2>1
    <3>2. a <= a /\ ~(a <= b)
      BY <2>1
    <3> QED
      BY <3>1, <3>2
  <2>3. <<Upto(b), Upto(a)>> \in R
    BY <2>2 DEF StrictSubsetOrdering
  <2> QED
    BY <1>5, <2>3
<1> QED
  BY <1>6

\* Induction, with the set of the numbers that a claim holds of in place of the claim.
LEMMA UpTo ==
  ASSUME NEW n \in Nat, NEW S \in SUBSET (0..n), 0 \in S,
         \A i \in 1..n : i - 1 \in S => i \in S
  PROVE  S = 0..n
<1> SUFFICES ASSUME S # 0..n PROVE FALSE
  OBVIOUS
<1> DEFINE T == (0..n) \ S
<1>1. T \in SUBSET Nat /\ T # {}
  <2>1. \A i \in T : i \in Nat
    OBVIOUS
  <2>2. \E i \in 0..n : i \notin S
    OBVIOUS
  <2> QED
    BY <2>1, <2>2
<1>2. PICK a \in T : \A b \in T : a <= b
  <2> HIDE DEF T
  <2> QED
    BY <1>1, LeastExists
<1>3. a \in 1..n /\ a - 1 \in 0..n /\ ~(a <= a - 1)
  BY <1>2
<1> QED
  BY <1>2, <1>3

Follows(f, n, a, step) == f[0] = a /\ \A i \in 1..n : f[i] = step[i][f[i - 1]]

LEMMA FunctionExists ==
  ASSUME NEW n \in Nat, NEW S, NEW a \in S, NEW step \in [1..n -> [S -> S]]
  PROVE  \E f \in [0..n -> S] : Follows(f, n, a, step)
<1> DEFINE Fits(k, f) == f[0] = a /\ \A i \in 1..k : f[i] = step[i][f[i - 1]]
           G == {k \in 0..n : \E f \in [0..k -> S] : Fits(k, f)}
<1>1. 0 \in G
  <2> DEFINE f == [i \in 0..0 |-> a]
  <2>1. f \in [0..0 -> S] /\ Fits(0, f)
    OBVIOUS
  <2> HIDE DEF f, Fits
  <2> QED
    BY <2>1
<1>2. ASSUME NEW k \in 1..n, k - 1 \in G PROVE k \in G
  <2>1. PICK f \in [0..(k - 1) -> S] : Fits(k - 1, f)
    BY <1>2
  <2> DEFINE last == step[k][f[k - 1]]
             g == [i \in 0..k |-> IF i = k THEN last ELSE f[i]]
  <2>2. last \in S
    <3>1. f[k - 1] \in S /\ step[k] \in [S -> S]
      OBVIOUS
    <3> QED
      BY <3>1
  <2>3. g \in [0..k -> S]
    BY <2>2
  <2>4. \A i \in 0..(k - 1) : g[i] = f[i]
    OBVIOUS
  <2>5. g[k] = step[k][g[k - 1]]
    <3>1. g[k] = last /\ k - 1 \in 0..(k - 1)
      OBVIOUS
    <3> HIDE DEF g
    <3>2. g[k - 1] = f[k - 1]
      BY <2>4, <3>1
    <3> QED
      BY <3>1, <3>2
  <2>6. \A i \in 1..(k - 1) : g[i] = step[i][g[i - 1]]
    <3> HIDE DEF g
    <3> QED
      BY <2>1, <2>4
  <2>7. Fits(k, g)
    <3> HIDE DEF g
    <3>1. g[0] = a
      BY <2>1, <2>4
    <3>2. \A i \in 1..k : i = k \/ i \in 1..(k - 1)
      OBVIOUS
    <3> QED
      BY <2>5, <2>6, <3>1, <3>2
  <2> HIDE DEF g, Fits
  <2> QED
    BY <2>3, <2>7
<1>3. G = 0..n
  <2>1. G \in SUBSET (0..n)
    OBVIOUS
  <2> HIDE DEF G
  <2> QED
    BY <1>1, <1>2, <2>1, UpTo
<1>4. n \in G
  BY <1>3
<1> QED
  BY <1>4 DEF Follows

\* The last number up to n that is in S, or 0.
LEMMA LastExists ==
  ASSUME NEW n \in Nat, NEW S
  PROVE  \E k \in 0..n : (k > 0 => k \in S) /\ \A m \in (k + 1)..n : m \notin S
<1> DEFINE Is(j, k) == (k > 0 => k \in S) /\ \A m \in (k + 1)..j : m \notin S
           G == {j \in 0..n : \E k \in 0..j : Is(j, k)}
<1>1. 0 \in G
  <2>1. Is(0, 0)
    OBVIOUS
  <2> QED
    BY <2>1
<1>2. ASSUME NEW j \in 1..n, j - 1 \in G PROVE j \in G
  <2>1. CASE j \in S
    <3>1. Is(j, j)
      BY <2>1
    <3> QED
      BY <3>1
  <2>2. CASE j \notin S
    <3>1. PICK k \in 0..(j - 1) : Is(j - 1, k)
      BY <1>2
    <3>2. \A m \in (k + 1)..j : m = j \/ m \in (k + 1)..(j - 1)
      OBVIOUS
    <3>3. Is(j, k)
      BY <2>2, <3>1, <3>2
    <3> QED
      BY <3>3
  <2> QED
    BY <2>1, <2>2
<1>3. G = 0..n
  <2>1. G \in SUBSET (0..n)
    OBVIOUS
  <2> HIDE DEF G
  <2> QED
    BY <1>1, <1>2, <2>1, UpTo
<1>4. n \in G
  BY <1>3
<1> QED
  BY <1>4

-----------------------------------------------------------------------------
(* Texts.                                                                  *)

LEMMA TextIs ==
  ASSUME NEW s \in Text
  PROVE  Len(s) \in Nat /\ \A i \in 1..Len(s) : s[i] \in Char
BY LenProperties DEF Text

LEMMA PieceIs ==
  ASSUME NEW s \in Text, NEW m \in Nat, NEW n \in Nat, n <= Len(s), m <= n
  PROVE  LET t == SubSeq(s, m + 1, n) IN
         t \in Text /\ Len(t) = n - m /\ \A i \in 1..(n - m) : t[i] = s[m + i]
<1> DEFINE t == SubSeq(s, m + 1, n)
<1>1. m + 1 \in Int /\ n \in Int /\ \A i \in (m + 1)..n : s[i] \in Char
  BY TextIs
<1>2. /\ t \in Text /\ Len(t) = IF m + 1 <= n THEN n - (m + 1) + 1 ELSE 0
      /\ \A i \in 1..(n - (m + 1) + 1) : t[i] = s[(m + 1) + i - 1]
  <2> HIDE DEF t
  <2> QED
    BY <1>1, SubSeqProperties DEF t, Text
<1> QED
  <2> HIDE DEF t
  <2>1. Len(t) = n - m
    BY <1>2
  <2>2. \A i \in 1..(n - m) : t[i] = s[m + i]
    <3> TAKE i \in 1..(n - m)
    <3>1. (m + 1) + i - 1 = m + i /\ i \in 1..(n - (m + 1) + 1)
      OBVIOUS
    <3> QED
      BY <1>2, <3>1
  <2> QED
    BY <1>2, <2>1, <2>2 DEF t

\* A stretch of a text is a given one when its characters are.
LEMMA PieceEquals ==
  ASSUME NEW s \in Text, NEW t \in Text, NEW k \in Nat, k + Len(t) <= Len(s)
  PROVE  SubSeq(s, k + 1, k + Len(t)) = t <=> \A m \in 1..Len(t) : s[k + m] = t[m]
<1> DEFINE u == SubSeq(s, k + 1, k + Len(t))
<1>0. Len(t) \in Nat /\ Len(s) \in Nat
  BY TextIs
<1>1. u \in Text /\ Len(u) = Len(t) /\ \A m \in 1..Len(t) : u[m] = s[k + m]
  <2>1. k + Len(t) \in Nat /\ k <= k + Len(t) /\ (k + Len(t)) - k = Len(t)
    BY <1>0
  <2> QED
    BY <2>1, PieceIs
<1> HIDE DEF u
<1>2. (\A m \in 1..Len(t) : u[m] = t[m]) => u = t
  BY <1>1, SeqEqual DEF Text
<1> QED
  BY <1>1, <1>2 DEF u

LEMMA StartsWithIs ==
  ASSUME NEW s \in Text, NEW t \in Text
  PROVE  StartsWith(s, t) <=> Len(t) <= Len(s) /\ \A m \in 1..Len(t) : s[m] = t[m]
<1>1. Len(t) \in Nat /\ Len(s) \in Nat
  BY TextIs
<1>2. ASSUME Len(t) <= Len(s)
      PROVE  SubSeq(s, 1, Len(t)) = t <=> \A m \in 1..Len(t) : s[m] = t[m]
  <2>1. 0 + Len(t) <= Len(s) /\ 0 + 1 = 1 /\ 0 + Len(t) = Len(t)
    BY <1>1, <1>2
  <2>2. \A m \in 1..Len(t) : 0 + m = m
    OBVIOUS
  <2>3. SubSeq(s, 0 + 1, 0 + Len(t)) = t <=> \A m \in 1..Len(t) : s[0 + m] = t[m]
    BY <2>1, PieceEquals
  <2> QED
    BY <2>1, <2>2, <2>3
<1> QED
  BY <1>2 DEF StartsWith

LEMMA EndsWithIs ==
  ASSUME NEW s \in Text, NEW t \in Text
  PROVE  EndsWith(s, t) <=>
           Len(t) <= Len(s) /\ \A m \in 1..Len(t) : s[(Len(s) - Len(t)) + m] = t[m]
<1>1. Len(t) \in Nat /\ Len(s) \in Nat
  BY TextIs
<1>2. ASSUME Len(t) <= Len(s)
      PROVE  From(s, Len(s) - Len(t)) = t <=>
               \A m \in 1..Len(t) : s[(Len(s) - Len(t)) + m] = t[m]
  <2> DEFINE k == Len(s) - Len(t)
  <2>1. k \in Nat /\ k + Len(t) = Len(s)
    BY <1>1, <1>2
  <2> HIDE DEF k
  <2>2. SubSeq(s, k + 1, Len(s)) = t <=> \A m \in 1..Len(t) : s[k + m] = t[m]
    <3>1. k + Len(t) <= Len(s)
      BY <1>1, <2>1
    <3>2. SubSeq(s, k + 1, k + Len(t)) = t <=> \A m \in 1..Len(t) : s[k + m] = t[m]
      BY <2>1, <3>1, PieceEquals
    <3> QED
      BY <2>1, <3>2
  <2> QED
    BY <2>2 DEF k, From
<1> QED
  BY <1>2 DEF EndsWith

\* The same behind a cursor.
LEMMA EndsBehind ==
  ASSUME NEW s \in Text, NEW t \in Text, NEW c \in 0..Len(s)
  PROVE  EndsWith(From(s, c), t) <=>
           c + Len(t) <= Len(s) /\ \A m \in 1..Len(t) : s[(Len(s) - Len(t)) + m] = t[m]
<1> DEFINE u == From(s, c)
<1>1. Len(t) \in Nat /\ Len(s) \in Nat
  BY TextIs
<1>2. u \in Text /\ Len(u) = Len(s) - c /\ \A i \in 1..(Len(s) - c) : u[i] = s[c + i]
  BY <1>1, PieceIs DEF From
<1> HIDE DEF u
<1>3. ASSUME Len(t) <= Len(u), NEW m \in 1..Len(t)
      PROVE  u[(Len(u) - Len(t)) + m] = s[(Len(s) - Len(t)) + m]
  <2>1. (Len(u) - Len(t)) + m \in 1..(Len(s) - c)
    BY <1>1, <1>2, <1>3
  <2>2. c + ((Len(u) - Len(t)) + m) = (Len(s) - Len(t)) + m
    BY <1>1, <1>2
  <2> QED
    BY <1>2, <2>1, <2>2
<1>4. Len(t) <= Len(u) <=> c + Len(t) <= Len(s)
  BY <1>1, <1>2
<1>5. EndsWith(u, t) <=> Len(t) <= Len(u) /\ \A m \in 1..Len(t) : u[(Len(u) - Len(t)) + m] = t[m]
  BY <1>2, EndsWithIs
<1>6. EndsWith(u, t) <=>
        Len(t) <= Len(u) /\ \A m \in 1..Len(t) : s[(Len(s) - Len(t)) + m] = t[m]
  BY <1>3, <1>5
<1> QED
  BY <1>4, <1>6 DEF u

-----------------------------------------------------------------------------
(* The parts of a pattern.                                                 *)

LEMMA LastStarIs ==
  ASSUME NEW p \in Text, NEW i \in 1..(Len(p) + 1)
  PROVE  /\ LastStar(p, i) \in 0..(i - 1)
         /\ LastStar(p, i) > 0 => p[LastStar(p, i)] = "*"
         /\ \A m \in (LastStar(p, i) + 1)..(i - 1) : p[m] # "*"
<1> DEFINE S == {m \in 0..(i - 1) : p[m] = "*"}
<1>1. i - 1 \in Nat
  BY TextIs
<1>2. \E k \in 0..(i - 1) : (k > 0 => k \in S) /\ \A m \in (k + 1)..(i - 1) : m \notin S
  <2> HIDE DEF S
  <2> QED
    BY <1>1, LastExists
<1>3. \E k \in 0..(i - 1) : /\ k > 0 => p[k] = "*"
                            /\ \A m \in (k + 1)..(i - 1) : p[m] # "*"
  <2>1. PICK k \in 0..(i - 1) : (k > 0 => k \in S) /\ \A m \in (k + 1)..(i - 1) : m \notin S
    BY <1>2
  <2>2. \A m \in (k + 1)..(i - 1) : m \in 0..(i - 1)
    BY <1>1
  <2> QED
    BY <2>1, <2>2
<1> QED
  BY <1>3, Zenon DEF LastStar

LEMMA LastStarSame ==
  ASSUME NEW p \in Text, NEW i \in 1..Len(p)
  PROVE  LastStar(p, i + 1) = IF p[i] = "*" THEN i ELSE LastStar(p, i)
<1> DEFINE s == LastStar(p, i)
           t == LastStar(p, i + 1)
<1>1. i \in 1..(Len(p) + 1) /\ i + 1 \in 1..(Len(p) + 1) /\ (i + 1) - 1 = i /\ i \in Nat
  BY TextIs
<1>2. s \in 0..(i - 1) /\ (s > 0 => p[s] = "*") /\ \A m \in (s + 1)..(i - 1) : p[m] # "*"
  BY <1>1, LastStarIs
<1>3. t \in 0..i /\ (t > 0 => p[t] = "*") /\ \A m \in (t + 1)..i : p[m] # "*"
  BY <1>1, LastStarIs
<1> HIDE DEF s, t
<1>4. CASE p[i] = "*"
  <2>1. ~(i \in (t + 1)..i)
    BY <1>3, <1>4
  <2> QED
    BY <1>1, <1>3, <1>4, <2>1 DEF t
<1>5. CASE p[i] # "*"
  <2>1. t # i
    BY <1>1, <1>3, <1>5
  <2>2. ~(t < s)
    <3> SUFFICES ASSUME t < s PROVE FALSE
      OBVIOUS
    <3>1. s \in (t + 1)..i /\ s > 0
      BY <1>1, <1>2, <1>3
    <3> QED
      BY <1>2, <1>3, <3>1
  <2>3. ~(s < t)
    <3> SUFFICES ASSUME s < t PROVE FALSE
      OBVIOUS
    <3>1. t \in (s + 1)..(i - 1) /\ t > 0
      BY <1>1, <1>2, <1>3, <2>1
    <3> QED
      BY <1>2, <1>3, <3>1
  <2>4. s = t
    BY <1>1, <1>2, <1>3, <2>2, <2>3
  <2> QED
    BY <1>5, <2>4 DEF s, t
<1> QED
  BY <1>4, <1>5

LEMMA PartIs ==
  ASSUME NEW p \in Text, NEW i \in 1..(Len(p) + 1)
  PROVE  LET s == LastStar(p, i)
             part == PartBefore(p, i) IN
         /\ part \in Text /\ Len(part) = (i - 1) - s
         /\ \A m \in 1..Len(part) : part[m] = p[s + m]
<1> DEFINE s == LastStar(p, i)
<1>1. s \in 0..(i - 1)
  BY LastStarIs
<1> HIDE DEF s
<1>2. s \in Nat /\ i - 1 \in Nat /\ i - 1 <= Len(p) /\ s <= i - 1
  BY <1>1, TextIs
<1> DEFINE part == SubSeq(p, s + 1, i - 1)
<1>3. part \in Text /\ Len(part) = (i - 1) - s /\ \A m \in 1..((i - 1) - s) : part[m] = p[s + m]
  BY <1>2, PieceIs
<1>4. PartBefore(p, i) = part
  BY DEF s, PartBefore
<1> HIDE DEF part
<1> QED
  BY <1>3, <1>4 DEF s

LEMMA PlacesAre ==
  ASSUME NEW part \in Text, NEW v \in Text, NEW c \in Nat
  PROVE  /\ Places(part, v, c) \in SUBSET Nat
         /\ \A k : k \in Places(part, v, c) <=>
              /\ k \in c..(Len(v) - Len(part))
              /\ \A m \in 1..Len(part) : v[k + m] = part[m]
<1>1. Len(part) \in Nat /\ Len(v) \in Nat
  BY TextIs
<1>2. ASSUME NEW k \in c..(Len(v) - Len(part))
      PROVE  k \in Nat /\ (SubSeq(v, k + 1, k + Len(part)) = part <=>
                             \A m \in 1..Len(part) : v[k + m] = part[m])
  <2>1. k \in Nat /\ k + Len(part) <= Len(v)
    BY <1>1
  <2> QED
    BY <2>1, PieceEquals
<1> QED
  BY <1>2 DEF Places

FoundAt(part, v, k) == \A m \in 1..Len(part) : v[k + m] = part[m]

\* The cursor behind a star: from where on what the parts up to it, found behind the
\* cursor before, leave.
LEMMA BehindIs ==
  ASSUME NEW p \in Text, NEW v \in Text, NEW i \in 1..Len(p), NEW c \in 0..Fail(v)
  PROVE  /\ Behind(p, i, v, c) \in 0..Fail(v)
         /\ \A k \in 0..Len(v) :
              Behind(p, i, v, c) <= k <=>
                IF LastStar(p, i) = 0
                THEN Len(PartBefore(p, i)) <= k /\ FoundAt(PartBefore(p, i), v, 0)
                ELSE \E j \in c..Len(v) : /\ j + Len(PartBefore(p, i)) <= k
                                         /\ FoundAt(PartBefore(p, i), v, j)
<1> DEFINE s == LastStar(p, i)
           part == PartBefore(p, i)
           Found(k) == FoundAt(part, v, k)
           places == Places(part, v, c)
<1>1. i \in 1..(Len(p) + 1) /\ Len(v) \in Nat /\ Fail(v) = Len(v) + 1 /\ c \in Nat
  BY TextIs DEF Fail
<1>2. part \in Text /\ Len(part) \in Nat
  BY <1>1, PartIs, TextIs
<1>3. CASE s = 0
  <2>1. Behind(p, i, v, c) = IF StartsWith(v, part) THEN Len(part) ELSE Fail(v)
    BY <1>3 DEF Behind
  <2>2. StartsWith(v, part) <=> Len(part) <= Len(v) /\ \A m \in 1..Len(part) : v[m] = part[m]
    BY <1>2, StartsWithIs
  <2>3. Found(0) <=> \A m \in 1..Len(part) : v[m] = part[m]
    <3>1. \A m \in 1..Len(part) : 0 + m = m
      OBVIOUS
    <3> QED
      BY <3>1 DEF FoundAt
  <2> HIDE DEF s, part, Found
  <2> QED
    BY <1>1, <1>2, <1>3, <2>1, <2>2, <2>3 DEF s, part, Found
<1>4. CASE s # 0
  <2>1. places \in SUBSET Nat /\ \A k : k \in places <=> k \in c..(Len(v) - Len(part)) /\ Found(k)
    BY <1>1, <1>2, PlacesAre DEF FoundAt
  <2> DEFINE first == CHOOSE k \in places : \A m \in places : k <= m
  <2>2. Behind(p, i, v, c) = IF places = {} THEN Fail(v) ELSE first + Len(part)
    BY <1>4 DEF Behind
  <2>3. places # {} => first \in places /\ \A m \in places : first <= m
    <3> SUFFICES ASSUME places # {} PROVE first \in places /\ \A m \in places : first <= m
      OBVIOUS
    <3>1. \E k \in places : \A m \in places : k <= m
      <4> HIDE DEF places
      <4> QED
        BY <2>1, LeastExists
    <3> HIDE DEF places
    <3> QED
      BY <3>1, Zenon
  <2> HIDE DEF s, part, Found, places, first
  <2>4. \A k \in 0..Len(v) : (\E j \in c..Len(v) : j + Len(part) <= k /\ Found(j)) <=>
                             \E j \in places : j + Len(part) <= k
    BY <1>1, <1>2, <2>1
  <2>5. CASE places = {}
    <3>1. Behind(p, i, v, c) = Len(v) + 1
      BY <1>1, <2>2, <2>5
    <3>2. \A k \in 0..Len(v) : ~(Behind(p, i, v, c) <= k)
      BY <1>1, <3>1
    <3> QED
      BY <1>1, <1>4, <2>4, <2>5, <3>1, <3>2 DEF s, part, Found
  <2>6. CASE places # {}
    <3>1. Behind(p, i, v, c) = first + Len(part) /\ first \in places
      BY <2>2, <2>3, <2>6
    <3>2. first \in c..(Len(v) - Len(part))
      BY <2>1, <3>1
    <3>3. Behind(p, i, v, c) \in 0..Fail(v)
      BY <1>1, <1>2, <3>1, <3>2
    <3>4. \A k \in 0..Len(v) : Behind(p, i, v, c) <= k <=> \E j \in places : j + Len(part) <= k
      BY <1>1, <1>2, <2>1, <2>3, <2>6, <3>1, <3>2
    <3> QED
      BY <1>4, <2>4, <3>3, <3>4 DEF s, part, Found
  <2> QED
    BY <2>5, <2>6
<1> QED
  BY <1>3, <1>4

-----------------------------------------------------------------------------
(* wildcard_match.                                                         *)

\* The recursive definitions define functions.
LEMMA CursorIs ==
  ASSUME NEW p \in Text, NEW v \in Text
  PROVE  /\ Cursor(p, v) \in [0..Len(p) -> 0..Fail(v)]
         /\ Cursor(p, v)[0] = 0
         /\ \A i \in 1..Len(p) :
              Cursor(p, v)[i] = IF p[i] = "*" THEN Behind(p, i, v, Cursor(p, v)[i - 1])
                                ELSE Cursor(p, v)[i - 1]
<1> DEFINE n == Len(p)
           S == 0..Fail(v)
           next(i, c) == IF p[i] = "*" THEN Behind(p, i, v, c) ELSE c
           step == [i \in 1..n |-> [c \in S |-> next(i, c)]]
           Is(f) == f = [i \in 0..n |-> CASE i = 0 -> 0
                                          [] i > 0 /\ p[i] = "*" -> Behind(p, i, v, f[i - 1])
                                          [] OTHER -> f[i - 1]]
<1>1. n \in Nat /\ 0 \in S
  BY TextIs DEF Fail
<1>2. \A i \in 1..n, c \in S : next(i, c) \in S
  BY BehindIs
<1>3. step \in [1..n -> [S -> S]]
  <2> HIDE DEF next, S
  <2> QED
    BY <1>2
<1>4. \A i \in 1..n, c \in S : step[i][c] = next(i, c)
  <2> HIDE DEF next, S
  <2> QED
    OBVIOUS
<1> HIDE DEF step, S, next
<1>5. PICK f \in [0..n -> S] : Follows(f, n, 0, step)
  BY <1>1, <1>3, FunctionExists
<1>6. \A i \in 1..n : f[i] = next(i, f[i - 1])
  <2> TAKE i \in 1..n
  <2>1. i - 1 \in 0..n
    BY <1>1
  <2> QED
    BY <1>4, <1>5, <2>1 DEF Follows
<1>7. Is(f)
  <2> DEFINE g == [i \in 0..n |-> CASE i = 0 -> 0
                                    [] i > 0 /\ p[i] = "*" -> Behind(p, i, v, f[i - 1])
                                    [] OTHER -> f[i - 1]]
  <2>1. \A i \in 0..n : f[i] = g[i]
    <3> TAKE i \in 0..n
    <3>1. CASE i = 0
      BY <1>5, <3>1 DEF Follows
    <3>2. CASE i # 0
      <4>1. i \in 1..n /\ i > 0
        BY <1>1, <3>2
      <4> QED
        BY <1>6, <3>2, <4>1 DEF next
    <3> QED
      BY <3>1, <3>2
  <2> QED
    BY <2>1
<1>8. Cursor(p, v) = CHOOSE g : Is(g)
  BY DEF Cursor
<1>9. Is(Cursor(p, v))
  <2> HIDE DEF Is
  <2> QED
    BY <1>7, <1>8, Zenon
<1> DEFINE c == Cursor(p, v)
<1> HIDE DEF c
<1>10. c = [i \in 0..n |-> CASE i = 0 -> 0
                            [] i > 0 /\ p[i] = "*" -> Behind(p, i, v, c[i - 1])
                            [] OTHER -> c[i - 1]]
  BY <1>9 DEF c
<1>11. c[0] = 0
  BY <1>1, <1>10
<1>12. \A i \in 1..n : c[i] = next(i, c[i - 1])
  <2> TAKE i \in 1..n
  <2>1. i \in 0..n /\ i > 0 /\ i # 0
    BY <1>1
  <2> QED
    BY <1>10, <2>1 DEF next
<1>13. \A i \in 0..n : c[i] \in S
  <2> DEFINE T == {i \in 0..n : c[i] \in S}
  <2>1. 0 \in T
    BY <1>1, <1>11
  <2>2. \A i \in 1..n : i - 1 \in T => i \in T
    BY <1>1, <1>2, <1>12
  <2>3. T = 0..n
    <3>1. T \in SUBSET (0..n)
      OBVIOUS
    <3> HIDE DEF T
    <3> QED
      BY <1>1, <2>1, <2>2, <3>1, UpTo
  <2> QED
    BY <2>3
<1>14. c \in [0..n -> S]
  BY <1>10, <1>13
<1> QED
  BY <1>11, <1>12, <1>14 DEF c, next, S

ReachedFrom(p, v, i, before) ==
  IF p[i] = "*" THEN {k \in 0..Len(v) : \E j \in before : j <= k}
  ELSE {k \in 1..Len(v) : k - 1 \in before /\ v[k] = p[i]}

LEMMA ReachedIs ==
  ASSUME NEW p \in Text, NEW v \in Text
  PROVE  /\ Reached(p, v)[0] = {0}
         /\ \A i \in 1..Len(p) :
              Reached(p, v)[i] = ReachedFrom(p, v, i, Reached(p, v)[i - 1])
<1> DEFINE n == Len(p)
           S == SUBSET (0..Len(v))
           next(i, b) == ReachedFrom(p, v, i, b)
           step == [i \in 1..n |-> [c \in S |-> next(i, c)]]
           Is(f) == f = [i \in 0..n |-> IF i = 0 THEN {0} ELSE next(i, f[i - 1])]
<1>1. n \in Nat /\ {0} \in S
  BY TextIs
<1>2. \A i \in 1..n, b \in S : next(i, b) \in S
  BY TextIs DEF ReachedFrom
<1>3. step \in [1..n -> [S -> S]]
  <2> HIDE DEF next, S
  <2> QED
    BY <1>2
<1>4. \A i \in 1..n, b \in S : step[i][b] = next(i, b)
  <2> HIDE DEF next, S
  <2> QED
    OBVIOUS
<1>5. Reached(p, v) = CHOOSE g : Is(g)
  BY DEF Reached, ReachedFrom
<1> HIDE DEF step, S, next
<1>6. PICK f \in [0..n -> S] : Follows(f, n, {0}, step)
  BY <1>1, <1>3, FunctionExists
<1>7. \A i \in 1..n : f[i] = next(i, f[i - 1])
  <2> TAKE i \in 1..n
  <2>1. i - 1 \in 0..n
    BY <1>1
  <2> QED
    BY <1>4, <1>6, <2>1 DEF Follows
<1>8. Is(f)
  <2>1. \A i \in 0..n : f[i] = IF i = 0 THEN {0} ELSE next(i, f[i - 1])
    <3> TAKE i \in 0..n
    <3>1. i = 0 \/ i \in 1..n
      BY <1>1
    <3> QED
      BY <1>6, <1>7, <3>1 DEF Follows
  <2> QED
    BY <2>1
<1>9. Is(Reached(p, v))
  <2> HIDE DEF Is
  <2> QED
    BY <1>5, <1>8, Zenon
<1> DEFINE r == Reached(p, v)
<1> HIDE DEF r
<1>10. r = [i \in 0..n |-> IF i = 0 THEN {0} ELSE next(i, r[i - 1])]
  BY <1>9 DEF r
<1>11. r[0] = {0}
  BY <1>1, <1>10
<1>12. \A i \in 1..n : r[i] = next(i, r[i - 1])
  <2> TAKE i \in 1..n
  <2>1. i \in 0..n /\ i # 0
    BY <1>1
  <2> QED
    BY <1>10, <2>1
<1> QED
  BY <1>11, <1>12 DEF r, next

\* What the first i characters of a pattern can reach, by the cursor: the part under way
\* ends there, and begins at the cursor or, behind a star, later.
Reaches(p, v, i, k) ==
  LET s == LastStar(p, i + 1) IN
  /\ IF s = 0 THEN k = i ELSE Cursor(p, v)[i] + (i - s) <= k
  /\ \A m \in (s + 1)..i : v[(k - i) + m] = p[m]

LEMMA ReachedBegins ==
  ASSUME NEW p \in Text, NEW v \in Text
  PROVE  Reached(p, v)[0] = {k \in 0..Len(v) : Reaches(p, v, 0, k)}
<1>1. LastStar(p, 0 + 1) = 0
  BY LastStarIs, TextIs
<1>2. \A k \in 0..Len(v) : Reaches(p, v, 0, k) <=> k = 0
  BY <1>1 DEF Reaches
<1>3. 0 \in 0..Len(v)
  BY TextIs
<1> QED
  BY <1>2, <1>3, ReachedIs

LEMMA ReachedStar ==
  ASSUME NEW p \in Text, NEW v \in Text, NEW i \in 1..Len(p), p[i] = "*",
         Reached(p, v)[i - 1] = {k \in 0..Len(v) : Reaches(p, v, i - 1, k)}
  PROVE  Reached(p, v)[i] = {k \in 0..Len(v) : Reaches(p, v, i, k)}
<1> DEFINE s == LastStar(p, i)
           part == PartBefore(p, i)
           Found(k) == FoundAt(part, v, k)
           c == Cursor(p, v)[i - 1]
           d == Cursor(p, v)[i]
<1>1. /\ Len(v) \in Nat /\ i \in Nat /\ i - 1 \in 0..Len(p) /\ (i - 1) + 1 = i
      /\ i \in 1..(Len(p) + 1) /\ i \in 0..Len(p)
  BY TextIs
<1>2. c \in 0..Fail(v) /\ d = Behind(p, i, v, c) /\ Fail(v) = Len(v) + 1
  BY <1>1, CursorIs DEF Fail
<1>3. /\ s \in 0..(i - 1) /\ Len(part) = (i - 1) - s
      /\ \A m \in 1..Len(part) : part[m] = p[s + m]
  BY <1>1, LastStarIs, PartIs
<1>4. /\ d \in 0..Fail(v)
      /\ \A k \in 0..Len(v) :
           d <= k <=> IF s = 0 THEN Len(part) <= k /\ Found(0)
                      ELSE \E j \in c..Len(v) : j + Len(part) <= k /\ Found(j)
  <2> HIDE DEF c, d
  <2> QED
    BY <1>2, BehindIs
<1>5. ASSUME NEW k \in 0..Len(v)
      PROVE  Reaches(p, v, i, k) <=> d <= k
  <2>1. LastStar(p, i + 1) = i
    BY LastStarSame
  <2>2. d + (i - i) = d /\ i # 0 /\ (i + 1)..i = {}
    BY <1>1, <1>2, <1>4
  <2> HIDE DEF d
  <2> QED
    BY <2>1, <2>2 DEF Reaches, d
<1>6. ASSUME NEW k \in 0..Len(v)
      PROVE  Reaches(p, v, i - 1, k) <=>
               /\ IF s = 0 THEN k = Len(part) ELSE c + Len(part) <= k
               /\ Found(k - Len(part))
  <2>1. Reaches(p, v, i - 1, k) <=>
          /\ IF s = 0 THEN k = i - 1 ELSE c + ((i - 1) - s) <= k
          /\ \A m \in (s + 1)..(i - 1) : v[(k - (i - 1)) + m] = p[m]
    BY <1>1 DEF Reaches
  <2>2. (\A m \in (s + 1)..(i - 1) : v[(k - (i - 1)) + m] = p[m]) <=> Found(k - Len(part))
    <3> HIDE DEF s, part
    <3>1. ASSUME NEW m \in (s + 1)..(i - 1)
          PROVE  /\ m - s \in 1..Len(part) /\ s + (m - s) = m
                 /\ (k - Len(part)) + (m - s) = (k - (i - 1)) + m
      BY <1>1, <1>3
    <3>2. ASSUME NEW m \in 1..Len(part)
          PROVE  /\ s + m \in (s + 1)..(i - 1)
                 /\ (k - Len(part)) + m = (k - (i - 1)) + (s + m)
      BY <1>1, <1>3
    <3>3. ASSUME \A m \in (s + 1)..(i - 1) : v[(k - (i - 1)) + m] = p[m]
          PROVE  Found(k - Len(part))
      BY <1>3, <3>2, <3>3 DEF FoundAt
    <3>4. ASSUME Found(k - Len(part)), NEW m \in (s + 1)..(i - 1)
          PROVE  v[(k - (i - 1)) + m] = p[m]
      <4>1. v[(k - Len(part)) + (m - s)] = part[m - s] /\ part[m - s] = p[s + (m - s)]
        BY <1>3, <3>1, <3>4 DEF FoundAt
      <4> QED
        BY <3>1, <4>1
    <3> QED
      BY <3>3, <3>4
  <2>3. s = 0 => Len(part) = i - 1
    BY <1>1, <1>3
  <2> HIDE DEF s, part, Found, c
  <2> QED
    BY <1>3, <2>1, <2>2, <2>3
<1>7. ASSUME NEW k \in 0..Len(v)
      PROVE  d <= k <=> \E j \in Reached(p, v)[i - 1] : j <= k
  <2> DEFINE R == Reached(p, v)[i - 1]
  <2>1. \A j : j \in R <=> /\ j \in 0..Len(v)
                           /\ IF s = 0 THEN j = Len(part) ELSE c + Len(part) <= j
                           /\ Found(j - Len(part))
    BY <1>6
  <2>2. Len(part) \in Nat
    BY <1>1, <1>3
  <2> HIDE DEF R, s, part, c, d
  <2>3. CASE s = 0
    <3>1. Len(part) - Len(part) = 0
      BY <2>2
    <3>2. ASSUME Len(part) <= k PROVE Len(part) \in R <=> Found(0)
      <4>1. Len(part) \in 0..Len(v)
        BY <1>1, <2>2, <3>2
      <4> HIDE DEF Found
      <4> QED
        BY <2>1, <2>3, <3>1, <4>1
    <3>3. \A j \in R : j = Len(part)
      BY <2>1, <2>3
    <3> HIDE DEF Found
    <3> QED
      BY <1>4, <2>3, <3>2, <3>3 DEF R
  <2>4. CASE s # 0
    <3>1. ASSUME NEW j \in R, j <= k
          PROVE  \E h \in c..Len(v) : h + Len(part) <= k /\ Found(h)
      <4> DEFINE h == j - Len(part)
      <4>1. j \in 0..Len(v) /\ c + Len(part) <= j /\ Found(h)
        BY <2>1, <2>4
      <4>2. h \in c..Len(v) /\ h + Len(part) <= k
        BY <1>1, <1>2, <2>2, <3>1, <4>1
      <4> HIDE DEF h, Found
      <4> QED
        BY <4>1, <4>2
    <3>2. ASSUME NEW h \in c..Len(v), h + Len(part) <= k, Found(h)
          PROVE  \E j \in R : j <= k
      <4> DEFINE j == h + Len(part)
      <4>1. j \in 0..Len(v) /\ c + Len(part) <= j /\ j - Len(part) = h
        BY <1>1, <1>2, <2>2, <3>2
      <4> HIDE DEF j, Found
      <4>2. j \in R
        BY <2>1, <2>4, <3>2, <4>1
      <4> QED
        BY <3>2, <4>2 DEF j
    <3> HIDE DEF Found
    <3> QED
      BY <1>4, <2>4, <3>1, <3>2 DEF R
  <2> QED
    BY <2>3, <2>4
<1>8. Reached(p, v)[i] = {k \in 0..Len(v) : \E j \in Reached(p, v)[i - 1] : j <= k}
  <2>1. Reached(p, v)[i] = ReachedFrom(p, v, i, Reached(p, v)[i - 1])
    BY ReachedIs
  <2> QED
    BY <2>1 DEF ReachedFrom
<1> HIDE DEF d
<1> QED
  BY <1>5, <1>7, <1>8

LEMMA ReachedPlain ==
  ASSUME NEW p \in Text, NEW v \in Text, NEW i \in 1..Len(p), p[i] # "*",
         Reached(p, v)[i - 1] = {k \in 0..Len(v) : Reaches(p, v, i - 1, k)}
  PROVE  Reached(p, v)[i] = {k \in 0..Len(v) : Reaches(p, v, i, k)}
<1> DEFINE s == LastStar(p, i)
           c == Cursor(p, v)[i]
<1>1. /\ Len(v) \in Nat /\ i \in Nat /\ i - 1 \in 0..Len(p) /\ (i - 1) + 1 = i
      /\ i \in 1..(Len(p) + 1) /\ i \in 0..Len(p)
  BY TextIs
<1>2. s \in 0..(i - 1) /\ LastStar(p, i + 1) = s
  BY <1>1, LastStarIs, LastStarSame
<1>3. c \in Nat /\ Cursor(p, v)[i - 1] = c
  <2>1. c = IF p[i] = "*" THEN Behind(p, i, v, Cursor(p, v)[i - 1]) ELSE Cursor(p, v)[i - 1]
    BY CursorIs
  <2>2. Cursor(p, v) \in [0..Len(p) -> 0..Fail(v)]
    BY CursorIs
  <2> QED
    BY <1>1, <2>1, <2>2 DEF Fail
<1>4. Reached(p, v)[i] = {k \in 1..Len(v) : k - 1 \in Reached(p, v)[i - 1] /\ v[k] = p[i]}
  <2>1. Reached(p, v)[i] = ReachedFrom(p, v, i, Reached(p, v)[i - 1])
    BY ReachedIs
  <2> QED
    BY <2>1 DEF ReachedFrom
<1>5. ASSUME NEW k \in 1..Len(v)
      PROVE  Reaches(p, v, i, k) <=> Reaches(p, v, i - 1, k - 1) /\ v[k] = p[i]
  <2> DEFINE A(m) == v[(k - i) + m] = p[m]
  <2>1. Reaches(p, v, i, k) <=> /\ IF s = 0 THEN k = i ELSE c + (i - s) <= k
                                /\ \A m \in (s + 1)..i : A(m)
    BY <1>2 DEF Reaches
  <2>2. Reaches(p, v, i - 1, k - 1) <=>
          /\ IF s = 0 THEN k - 1 = i - 1 ELSE c + ((i - 1) - s) <= k - 1
          /\ \A m \in (s + 1)..(i - 1) : v[((k - 1) - (i - 1)) + m] = p[m]
    BY <1>1, <1>3 DEF Reaches
  <2> HIDE DEF s, c
  <2>3. \A m \in (s + 1)..(i - 1) : ((k - 1) - (i - 1)) + m = (k - i) + m
    BY <1>1, <1>2
  <2>4. A(i) <=> v[k] = p[i]
    <3>1. (k - i) + i = k
      BY <1>1
    <3> QED
      BY <3>1
  <2>5. (\A m \in (s + 1)..i : A(m)) <=> (\A m \in (s + 1)..(i - 1) : A(m)) /\ A(i)
    <3>1. \A m : m \in (s + 1)..i <=> m \in (s + 1)..(i - 1) \/ m = i
      BY <1>1, <1>2
    <3> HIDE DEF A
    <3> QED
      BY <3>1
  <2>6. (IF s = 0 THEN k = i ELSE c + (i - s) <= k) <=>
        (IF s = 0 THEN k - 1 = i - 1 ELSE c + ((i - 1) - s) <= k - 1)
    BY <1>1, <1>2, <1>3
  <2>7. (\A m \in (s + 1)..(i - 1) : v[((k - 1) - (i - 1)) + m] = p[m]) <=>
        \A m \in (s + 1)..(i - 1) : A(m)
    BY <2>3
  <2> HIDE DEF A
  <2> QED
    BY <2>1, <2>2, <2>4, <2>5, <2>6, <2>7
<1>6. ~Reaches(p, v, i, 0)
  <2>1. Reaches(p, v, i, 0) => IF s = 0 THEN 0 = i ELSE c + (i - s) <= 0
    BY <1>2 DEF Reaches
  <2> HIDE DEF s, c
  <2> QED
    BY <1>1, <1>2, <1>3, <2>1
<1>7. \A k \in 1..Len(v) : k - 1 \in 0..Len(v)
  BY <1>1
<1>8. \A k \in 0..Len(v) : k = 0 \/ k \in 1..Len(v)
  BY <1>1
<1>9. \A k \in 1..Len(v) : k \in 0..Len(v)
  BY <1>1
<1> QED
  BY <1>4, <1>5, <1>6, <1>7, <1>8, <1>9

LEMMA ReachedAll ==
  ASSUME NEW p \in Text, NEW v \in Text
  PROVE  \A i \in 0..Len(p) : Reached(p, v)[i] = {k \in 0..Len(v) : Reaches(p, v, i, k)}
<1> DEFINE As(i) == {k \in 0..Len(v) : Reaches(p, v, i, k)}
           G == {i \in 0..Len(p) : Reached(p, v)[i] = As(i)}
<1>1. Len(p) \in Nat
  BY TextIs
<1>2. 0 \in G
  BY <1>1, ReachedBegins
<1>3. ASSUME NEW i \in 1..Len(p), i - 1 \in G PROVE i \in G
  <2>1. Reached(p, v)[i - 1] = As(i - 1) /\ i \in 0..Len(p)
    BY <1>1, <1>3
  <2>2. Reached(p, v)[i] = As(i)
    BY <2>1, ReachedPlain, ReachedStar
  <2> QED
    BY <2>1, <2>2
<1>4. G = 0..Len(p)
  <2>1. G \in SUBSET (0..Len(p))
    OBVIOUS
  <2> HIDE DEF G
  <2> QED
    BY <1>1, <1>2, <1>3, <2>1, UpTo
<1> QED
  BY <1>4

\* wildcard_match takes each part at its leftmost place and the last one at the end of what
\* is left: that decides, for every pattern and every value, what the pattern means.
THEOREM WildcardIsGlob ==
  \A p, v \in Text : WildcardMatch(p, v) <=> Glob(p, v)
<1> SUFFICES ASSUME NEW p \in Text, NEW v \in Text PROVE WildcardMatch(p, v) <=> Glob(p, v)
  OBVIOUS
<1> DEFINE n == Len(p)
           s == LastStar(p, n + 1)
           part == PartBefore(p, n + 1)
           c == Cursor(p, v)[n]
           Ends == \A m \in (s + 1)..n : v[(Len(v) - n) + m] = p[m]
<1>1. n \in Nat /\ Len(v) \in Nat /\ n + 1 \in 1..(n + 1) /\ (n + 1) - 1 = n /\ n \in 0..n
  BY TextIs
<1>2. /\ s \in 0..n /\ (s > 0 => p[s] = "*") /\ \A m \in (s + 1)..n : p[m] # "*"
  BY <1>1, LastStarIs
<1>3. /\ part \in Text /\ Len(part) = n - s
      /\ \A m \in 1..Len(part) : part[m] = p[s + m]
  BY <1>1, PartIs
<1>4. c \in 0..(Len(v) + 1) /\ Fail(v) = Len(v) + 1
  BY <1>1, CursorIs DEF Fail
<1>5. Glob(p, v) <=> (IF s = 0 THEN Len(v) = n ELSE c + (n - s) <= Len(v)) /\ Ends
  <2>1. Len(v) \in 0..Len(v)
    BY <1>1
  <2>2. Glob(p, v) <=> Reaches(p, v, n, Len(v))
    BY <1>1, <2>1, ReachedAll DEF Glob
  <2> QED
    BY <2>2 DEF Reaches
<1>6. WildcardMatch(p, v) <=> IF ~HasStar(p) THEN p = v ELSE c # Fail(v) /\ PartAtEnd(part, v, c)
  BY DEF WildcardMatch
<1>7. HasStar(p) <=> s # 0
  <2> HIDE DEF s
  <2>1. s # 0 => s \in 1..n /\ s > 0
    BY <1>1, <1>2
  <2>2. s = 0 => \A m \in 1..n : p[m] # "*"
    BY <1>1, <1>2
  <2> QED
    BY <1>2, <2>1, <2>2 DEF HasStar
<1> HIDE DEF n, s, part, c
<1>8. CASE s = 0
  <2>1. p = v => Len(v) = n /\ Ends
    <3> SUFFICES ASSUME p = v PROVE Len(v) = n /\ Ends
      OBVIOUS
    <3>1. Len(v) = n /\ \A m \in (s + 1)..n : (Len(v) - n) + m = m
      BY <1>1, <1>8 DEF n
    <3> QED
      BY <3>1
  <2>2. Len(v) = n /\ Ends => p = v
    <3> SUFFICES ASSUME Len(v) = n, Ends PROVE p = v
      OBVIOUS
    <3>1. \A m \in 1..n : m \in (s + 1)..n /\ (Len(v) - n) + m = m
      BY <1>1, <1>8
    <3>2. \A m \in 1..n : v[m] = p[m]
      BY <3>1
    <3> QED
      BY <3>2, SeqEqual DEF Text, n
  <2> HIDE DEF Ends
  <2> QED
    BY <1>5, <1>6, <1>7, <1>8, <2>1, <2>2
<1>9. CASE s # 0
  <2>1. Ends <=> \A m \in 1..Len(part) : v[(Len(v) - Len(part)) + m] = part[m]
    <3>1. ASSUME NEW m \in (s + 1)..n
          PROVE  /\ m - s \in 1..Len(part) /\ s + (m - s) = m
                 /\ (Len(v) - Len(part)) + (m - s) = (Len(v) - n) + m
      BY <1>1, <1>2, <1>3
    <3>2. ASSUME NEW m \in 1..Len(part)
          PROVE  /\ s + m \in (s + 1)..n
                 /\ (Len(v) - Len(part)) + m = (Len(v) - n) + (s + m)
      BY <1>1, <1>2, <1>3
    <3>3. ASSUME Ends, NEW m \in 1..Len(part) PROVE v[(Len(v) - Len(part)) + m] = part[m]
      <4>1. v[(Len(v) - n) + (s + m)] = p[s + m]
        BY <3>2, <3>3
      <4> QED
        BY <1>3, <3>2, <4>1
    <3>4. ASSUME \A m \in 1..Len(part) : v[(Len(v) - Len(part)) + m] = part[m],
                 NEW m \in (s + 1)..n
          PROVE  v[(Len(v) - n) + m] = p[m]
      <4>1. v[(Len(v) - Len(part)) + (m - s)] = part[m - s] /\ part[m - s] = p[s + (m - s)]
        BY <1>3, <3>1, <3>4
      <4> QED
        BY <3>1, <4>1
    <3> QED
      BY <3>3, <3>4
  <2>2. ASSUME c # Fail(v)
        PROVE  PartAtEnd(part, v, c) <=> c + (n - s) <= Len(v) /\ Ends
    <3>1. c \in 0..Len(v)
      BY <1>1, <1>4, <2>2
    <3>2. EndsWith(From(v, c), part) <=>
            /\ c + Len(part) <= Len(v)
            /\ \A m \in 1..Len(part) : v[(Len(v) - Len(part)) + m] = part[m]
      BY <1>3, <3>1, EndsBehind
    <3> QED
      BY <1>3, <2>1, <3>2 DEF PartAtEnd
  <2>3. c = Fail(v) => ~(c + (n - s) <= Len(v))
    BY <1>1, <1>2, <1>4
  <2> HIDE DEF Ends
  <2> QED
    BY <1>5, <1>6, <1>7, <1>9, <2>2, <2>3
<1> QED
  BY <1>8, <1>9

-----------------------------------------------------------------------------
(* Rules for hosts and paths.                                              *)

LEMMA FromIs ==
  ASSUME NEW s \in Text, NEW c \in 0..Len(s)
  PROVE  /\ From(s, c) \in Text /\ Len(From(s, c)) = Len(s) - c
         /\ \A i \in 1..(Len(s) - c) : From(s, c)[i] = s[c + i]
<1>1. c \in Nat /\ Len(s) \in Nat /\ c <= Len(s) /\ Len(s) <= Len(s)
  BY TextIs
<1> QED
  BY <1>1, PieceIs DEF From

LEMMA WithoutDotsIs ==
  ASSUME NEW h \in Text
  PROVE  WithoutDots(h) \in Text
<1> DEFINE S == {i \in 0..Len(h) : h[i] # "."}
           n == CHOOSE k \in 0..Len(h) : /\ k > 0 => h[k] # "."
                                         /\ \A i \in (k + 1)..Len(h) : h[i] = "."
<1>1. Len(h) \in Nat
  BY TextIs
<1>2. PICK k \in 0..Len(h) : (k > 0 => k \in S) /\ \A m \in (k + 1)..Len(h) : m \notin S
  <2> HIDE DEF S
  <2> QED
    BY <1>1, LastExists
<1>3. (k > 0 => h[k] # ".") /\ \A i \in (k + 1)..Len(h) : h[i] = "."
  <2>1. \A i \in (k + 1)..Len(h) : i \in 0..Len(h)
    BY <1>1
  <2> QED
    BY <1>2, <2>1
<1>4. n \in 0..Len(h)
  BY <1>3, Zenon
<1>5. WithoutDots(h) = SubSeq(h, 0 + 1, n)
  BY DEF WithoutDots
<1> HIDE DEF n
<1> QED
  BY <1>1, <1>4, <1>5, PieceIs

\* host_allowed tests a suffix that begins with the dot, and so only whole labels.
LEMMA HostIsMeant ==
  ASSUME NEW rule \in Text, NEW host \in Text
  PROVE  HostAllowed(rule, host) <=> HostMeant(rule, host)
<1> DEFINE name == WithoutDots(rule)
           Starred == StartsWith(name, <<"*", ".">>)
           n == Len(name)
           l == Len(host)
<1>1. name \in Text
  BY WithoutDotsIs
<1>2. HostAllowed(rule, host) <=>
        IF Starred THEN EndsWith(host, From(name, 1)) /\ host # From(name, 2) ELSE host = name
  BY DEF HostAllowed
<1>3. HostMeant(rule, host) <=>
        \/ host = name
        \/ Starred /\ \E dot \in 1..l : host[dot] = "." /\ From(host, dot) = From(name, 2)
  BY DEF HostMeant
<1>4. n \in Nat /\ l \in Nat
  BY <1>1, TextIs
<1> HIDE DEF name, Starred
<1>5. CASE ~Starred
  BY <1>2, <1>3, <1>5
<1>6. CASE Starred
  <2> DEFINE dotted == From(name, 1)
             domain == From(name, 2)
  <2>1. n >= 2 /\ name[1] = "*" /\ name[2] = "."
    <3>1. <<"*", ".">> \in Text /\ Len(<<"*", ".">>) = 2
      BY CharAssumption DEF Text
    <3>2. 2 <= n /\ \A m \in 1..2 : name[m] = <<"*", ".">>[m]
      BY <1>1, <1>6, <3>1, StartsWithIs DEF Starred
    <3>3. name[1] = <<"*", ".">>[1] /\ name[2] = <<"*", ".">>[2]
      BY <3>2
    <3> QED
      BY <1>4, <3>2, <3>3
  <2>2. dotted \in Text /\ Len(dotted) = n - 1 /\ \A i \in 1..(n - 1) : dotted[i] = name[1 + i]
    <3>1. 1 \in 0..Len(name)
      BY <1>4, <2>1 DEF n
    <3> QED
      BY <1>1, <3>1, FromIs DEF n
  <2>3. domain \in Text /\ Len(domain) = n - 2 /\ \A i \in 1..(n - 2) : domain[i] = name[2 + i]
    <3>1. 2 \in 0..Len(name)
      BY <1>4, <2>1 DEF n
    <3> QED
      BY <1>1, <3>1, FromIs DEF n
  <2>4. \A d \in 1..l : From(host, d) \in Text /\ Len(From(host, d)) = l - d
                        /\ \A i \in 1..(l - d) : From(host, d)[i] = host[d + i]
    <3>1. \A d \in 1..l : d \in 0..Len(host)
      BY <1>4 DEF l
    <3> QED
      BY <3>1, FromIs DEF l
  <2> HIDE DEF dotted, domain, n, l
  <2>5. EndsWith(host, dotted) <=>
          n - 1 <= l /\ \A m \in 1..(n - 1) : host[(l - (n - 1)) + m] = dotted[m]
    <3>1. EndsWith(host, dotted) <=>
            /\ Len(dotted) <= Len(host)
            /\ \A m \in 1..Len(dotted) : host[(Len(host) - Len(dotted)) + m] = dotted[m]
      BY <2>2, EndsWithIs
    <3>2. Len(dotted) = n - 1
      BY <2>2
    <3> QED
      BY <3>1, <3>2 DEF l
  <2>6. ASSUME EndsWith(host, dotted)
        PROVE  /\ host # domain
               /\ \E dot \in 1..l : host[dot] = "." /\ From(host, dot) = domain
    <3> DEFINE dot == (l - (n - 1)) + 1
    <3>1. n - 1 <= l /\ \A m \in 1..(n - 1) : host[(l - (n - 1)) + m] = name[1 + m]
      BY <2>2, <2>5, <2>6
    <3>2. dot \in 1..l /\ l - dot = n - 2 /\ 1 \in 1..(n - 1) /\ 1 + 1 = 2
      BY <1>4, <2>1, <3>1
    <3>3. host[dot] = "."
      BY <2>1, <3>1, <3>2
    <3>4. \A i \in 1..(n - 2) : host[dot + i] = name[2 + i]
      <4> TAKE i \in 1..(n - 2)
      <4>1. /\ i + 1 \in 1..(n - 1) /\ (l - (n - 1)) + (i + 1) = dot + i
            /\ 1 + (i + 1) = 2 + i
        BY <1>4, <2>1
      <4>2. host[(l - (n - 1)) + (i + 1)] = name[1 + (i + 1)]
        BY <3>1, <4>1
      <4> QED
        BY <4>1, <4>2
    <3> HIDE DEF dot
    <3>5. From(host, dot) = domain
      <4>1. From(host, dot) \in Text /\ Len(From(host, dot)) = n - 2
            /\ \A i \in 1..(n - 2) : From(host, dot)[i] = domain[i]
        BY <2>3, <2>4, <3>2, <3>4
      <4> QED
        BY <2>3, <4>1, SeqEqual DEF Text
    <3>6. host # domain
      BY <1>4, <2>1, <2>3, <3>1 DEF l
    <3> QED
      BY <3>2, <3>3, <3>5, <3>6
  <2>7. ASSUME NEW dot \in 1..l, host[dot] = ".", From(host, dot) = domain
        PROVE  EndsWith(host, dotted)
    <3>1. l - dot = n - 2 /\ dot = (l - (n - 1)) + 1 /\ n - 1 <= l
      <4>1. Len(From(host, dot)) = l - dot /\ Len(domain) = n - 2
        BY <2>3, <2>4
      <4>2. l - dot = n - 2
        BY <2>7, <4>1
      <4> QED
        BY <1>4, <2>1, <4>2
    <3>2. ASSUME NEW m \in 1..(n - 1) PROVE host[(l - (n - 1)) + m] = dotted[m]
      <4>1. CASE m = 1
        BY <2>1, <2>2, <2>7, <3>1, <4>1
      <4>2. CASE m # 1
        <5>1. /\ m - 1 \in 1..(n - 2) /\ 2 + (m - 1) = 1 + m
              /\ dot + (m - 1) = (l - (n - 1)) + m
          BY <1>4, <2>1, <3>1, <4>2
        <5>2. From(host, dot)[m - 1] = host[dot + (m - 1)] /\ domain[m - 1] = name[2 + (m - 1)]
          BY <2>3, <2>4, <3>1, <5>1
        <5> QED
          BY <2>2, <2>7, <5>1, <5>2
      <4> QED
        BY <4>1, <4>2
    <3> QED
      BY <2>5, <3>1, <3>2
  <2>8. host = name => EndsWith(host, dotted)
    <3> SUFFICES ASSUME host = name PROVE EndsWith(host, dotted)
      OBVIOUS
    <3>1. l = n
      BY DEF l, n
    <3>2. \A m \in 1..(n - 1) : (l - (n - 1)) + m = 1 + m
      BY <1>4, <3>1
    <3> QED
      BY <1>4, <2>2, <2>5, <3>1, <3>2
  <2> QED
    BY <1>2, <1>3, <1>6, <2>6, <2>7, <2>8 DEF dotted, domain
<1> QED
  BY <1>5, <1>6

LEMMA ReachedFirst ==
  ASSUME NEW p \in Text, NEW v \in Text, 1 <= Len(p)
  PROVE  Reached(p, v)[1] = ReachedFrom(p, v, 1, {0})
<1>1. PICK i \in 1..Len(p) : i = 1
  BY TextIs
<1>2. Reached(p, v)[i] = ReachedFrom(p, v, i, Reached(p, v)[i - 1])
  BY ReachedIs
<1>3. i - 1 = 0 /\ Reached(p, v)[0] = {0}
  BY <1>1, ReachedIs
<1> QED
  BY <1>1, <1>2, <1>3

LEMMA StarIsAll ==
  ASSUME NEW v \in Text
  PROVE  Glob(<<"*">>, v)
<1> DEFINE p == <<"*">>
<1>1. p \in Text /\ Len(p) = 1 /\ p[1] = "*" /\ Len(v) \in Nat
  BY TextIs, CharAssumption DEF Text
<1> HIDE DEF p
<1>2. Reached(p, v)[1] = ReachedFrom(p, v, 1, {0})
  BY <1>1, ReachedFirst
<1>3. Len(v) \in ReachedFrom(p, v, 1, {0})
  BY <1>1 DEF ReachedFrom
<1> QED
  BY <1>1, <1>2, <1>3 DEF Glob, p

LEMMA SlashAllIsAll ==
  ASSUME NEW v \in Text, StartsWith(v, <<"/">>)
  PROVE  Glob(SlashAll, v)
<1> DEFINE p == SlashAll
<1>1. p \in Text /\ Len(p) = 2 /\ p[1] = "/" /\ p[2] = "*" /\ Len(v) \in Nat
  BY TextIs, CharAssumption DEF Text, SlashAll
<1>2. 1 <= Len(v) /\ v[1] = "/"
  <2>1. <<"/">> \in Text /\ Len(<<"/">>) = 1 /\ <<"/">>[1] = "/"
    BY CharAssumption DEF Text
  <2>2. 1 <= Len(v) /\ \A m \in 1..1 : v[m] = <<"/">>[m]
    BY <2>1, StartsWithIs
  <2> QED
    BY <2>1, <2>2
<1> HIDE DEF p
<1>3. Reached(p, v)[1] = ReachedFrom(p, v, 1, {0})
  BY <1>1, ReachedFirst
<1>4. Reached(p, v)[2] = ReachedFrom(p, v, 2, Reached(p, v)[1])
  <2>1. 2 \in 1..Len(p) /\ 2 - 1 = 1
    BY <1>1
  <2> QED
    BY <1>1, <2>1, ReachedIs
<1>5. 1 \in ReachedFrom(p, v, 1, {0})
  <2>1. 1 \in 1..Len(v) /\ 1 - 1 = 0 /\ p[1] # "*"
    BY <1>1, <1>2
  <2> QED
    BY <1>1, <1>2, <2>1 DEF ReachedFrom
<1>6. Len(v) \in Reached(p, v)[2]
  BY <1>1, <1>2, <1>3, <1>4, <1>5 DEF ReachedFrom
<1> QED
  BY <1>1, <1>6 DEF Glob, p

LEMMA PlainIsItself ==
  ASSUME NEW p \in Text, NEW v \in Text, ~HasStar(p)
  PROVE  Glob(p, v) <=> p = v
BY WildcardIsGlob DEF WildcardMatch

EndsInSlash(p) == p # <<>> /\ p[Len(p)] = "/"

LEMMA SlashIsLast ==
  ASSUME NEW p \in Text, EndsInSlash(p)
  PROVE  EndsWith(p, <<"/">>)
<1>1. <<"/">> \in Text /\ Len(<<"/">>) = 1 /\ <<"/">>[1] = "/"
  BY CharAssumption DEF Text
<1>2. Len(p) \in Nat \ {0}
  BY EmptySeq DEF Text, EndsInSlash
<1>3. (Len(p) - 1) + 1 = Len(p)
  BY <1>2
<1>4. 1 <= Len(p) /\ \A m \in 1..1 : p[(Len(p) - 1) + m] = <<"/">>[m]
  BY <1>1, <1>2, <1>3 DEF EndsInSlash
<1> QED
  BY <1>1, <1>4, EndsWithIs

\* CapabilityClaims::new chooses for a path the policy that it means.
LEMMA NewRuleIsMeant ==
  ASSUME NEW p \in Text, NEW v \in Text
  PROVE  PathMatches(NewRule(p), v) <=> PathMeant(p, v)
<1>1. PathMeant(p, v) <=> Glob(p, v) \/ (~HasStar(p) /\ EndsInSlash(p) /\ StartsWith(v, p))
  BY DEF PathMeant, EndsInSlash
<1>2. CASE p = <<"*">>
  <2>1. NewRule(p) = PathRule("any", p)
    BY <1>2 DEF NewRule
  <2> QED
    BY <1>1, <1>2, <2>1, StarIsAll DEF PathMatches, PathRule
<1>3. CASE p # <<"*">> /\ HasStar(p)
  <2>1. NewRule(p) = PathRule("wildcard", p)
    BY <1>3 DEF NewRule
  <2>2. PathMatches(NewRule(p), v) <=> WildcardMatch(p, v)
    BY <2>1 DEF PathMatches, PathRule
  <2> QED
    BY <1>1, <1>3, <2>2, WildcardIsGlob
<1>4. CASE p # <<"*">> /\ ~HasStar(p) /\ EndsInSlash(p)
  <2>1. NewRule(p) = PathRule("prefix", p)
    BY <1>4 DEF NewRule, EndsInSlash
  <2>2. PathMatches(NewRule(p), v) <=> StartsWith(v, p)
    BY <2>1 DEF PathMatches, PathRule
  <2>3. p = v => StartsWith(v, p)
    BY StartsWithIs, TextIs
  <2> QED
    BY <1>1, <1>4, <2>2, <2>3, PlainIsItself
<1>5. CASE p # <<"*">> /\ ~HasStar(p) /\ ~EndsInSlash(p)
  <2>1. NewRule(p) = PathRule("exact", p)
    BY <1>5 DEF NewRule, EndsInSlash
  <2>2. PathMatches(NewRule(p), v) <=> v = p
    BY <2>1 DEF PathMatches, PathRule
  <2> QED
    BY <1>1, <1>5, <2>2, PlainIsItself
<1> QED
  BY <1>2, <1>3, <1>4, <1>5

\* So does default_path_rules, of paths like those of presets.rs and for the path of a URL.
LEMMA PresetRuleIsMeant ==
  ASSUME NEW p \in Text, HasStar(p) \/ ~EndsWith(p, <<"/">>),
         NEW v \in Text, StartsWith(v, <<"/">>)
  PROVE  PathMatches(PresetRule(p), v) <=> PathMeant(p, v)
<1>1. PathMeant(p, v) <=> Glob(p, v)
  BY SlashIsLast DEF PathMeant, EndsInSlash
<1>2. CASE p \in {<<"*">>, SlashAll}
  <2>1. PresetRule(p) = PathRule("any", <<"*">>)
    BY <1>2 DEF PresetRule
  <2>2. PathMatches(PresetRule(p), v)
    BY <2>1 DEF PathMatches, PathRule
  <2> QED
    BY <1>1, <1>2, <2>2, StarIsAll, SlashAllIsAll
<1>3. CASE p \notin {<<"*">>, SlashAll} /\ HasStar(p)
  <2>1. PresetRule(p) = PathRule("wildcard", p)
    BY <1>3 DEF PresetRule
  <2>2. PathMatches(PresetRule(p), v) <=> WildcardMatch(p, v)
    BY <2>1 DEF PathMatches, PathRule
  <2> QED
    BY <1>1, <2>2, WildcardIsGlob
<1>4. CASE p \notin {<<"*">>, SlashAll} /\ ~HasStar(p)
  <2>1. PresetRule(p) = PathRule("exact", p)
    BY <1>4 DEF PresetRule
  <2>2. PathMatches(PresetRule(p), v) <=> v = p
    BY <2>1 DEF PathMatches, PathRule
  <2> QED
    BY <1>1, <1>4, <2>2, PlainIsItself
<1> QED
  BY <1>2, <1>3, <1>4

-----------------------------------------------------------------------------
(* What is asked for, and what the relay lets through.                     *)

PolicyInv ==
  /\ \E group \in Cases : \E c \in group : ask = c.ask /\ request = c.request
  /\ pc \in {"issue", "enforce", "inject", "denied", "sent"}
  /\ pc # "issue" => claims = Claims(ask)
  /\ pc \in {"inject", "sent"} => Enforced(claims, request)
  /\ pc = "denied" => ~Enforced(claims, request)
  /\ pc = "sent" => headers = Injected(claims, request)

LEMMA PolicyHolds ==
  PolicySpec => []PolicyInv
<1>1. PolicyInit => PolicyInv
  BY DEF PolicyInit, PolicyInv
<1>2. PolicyInv /\ [PolicyNext]_policyVars => PolicyInv'
  <2> SUFFICES ASSUME PolicyInv, [PolicyNext]_policyVars PROVE PolicyInv'
    OBVIOUS
  <2>1. CASE Issue
    BY <2>1 DEF PolicyInv, Issue
  <2>2. CASE Allow
    BY <2>2 DEF PolicyInv, Allow
  <2>3. CASE Deny
    BY <2>3 DEF PolicyInv, Deny
  <2>4. CASE Inject
    BY <2>4 DEF PolicyInv, Inject
  <2>5. CASE UNCHANGED policyVars
    BY <2>5 DEF PolicyInv, policyVars
  <2> QED
    BY <2>1, <2>2, <2>3, <2>4, <2>5 DEF PolicyNext
<1> QED
  BY <1>1, <1>2, PTL DEF PolicySpec

LEMMA CaseIs ==
  ASSUME PolicyInv
  PROVE  /\ ask.hosts \subseteq Text /\ ask.paths \subseteq Text
         /\ ask.preset # NoPreset =>
              /\ ask.preset.schemes \subseteq {"https", "http"}
              /\ ask.preset.hosts \subseteq Text
              /\ \A p \in ask.preset.paths :
                   p \in Text /\ (HasStar(p) \/ ~EndsWith(p, <<"/">>))
         /\ request.host \in Text /\ request.path \in Text
         /\ request.scheme \in {"https", "http"} => StartsWith(request.path, <<"/">>)
         /\ \A h \in DOMAIN request.headers :
              h \in [name: STRING, capitals: BOOLEAN] /\ request.headers[h] # Secret
<1>1. PICK group \in Cases : \E c \in group : ask = c.ask /\ request = c.request
  BY DEF PolicyInv
<1>2. PICK c \in group : ask = c.ask /\ request = c.request
  BY <1>1
<1> QED
  BY <1>2, AskAssumption, RequestAssumption

HostsIn == \E rule \in Claims(ask).hosts : HostAllowed(rule, request.host)
PathsIn == \E rule \in Claims(ask).paths : PathMatches(rule, request.path)
MethodIn == request.method \in Claims(ask).methods

LEMMA ClaimsAre ==
  ASSUME PolicyInv, ~PathsOverridden, request.scheme \in {"https", "http"}
  PROVE  HostsIn /\ PathsIn /\ MethodIn <=> AskedFor
<1> DEFINE hosts == Given(ask.hosts, IF ask.preset = NoPreset THEN {} ELSE ask.preset.hosts)
           paths == Given(ask.paths,
                          IF ask.preset = NoPreset THEN {SlashAll} ELSE ask.preset.paths)
           methods == Given(ask.methods,
                            IF ask.preset = NoPreset THEN {"POST"} ELSE ask.preset.methods)
<1>1. AskedFor <=> /\ \E rule \in hosts : HostMeant(rule, request.host)
                   /\ \E p \in paths : PathMeant(p, request.path)
                   /\ request.method \in methods
  BY DEF AskedFor
<1>2. Claims(ask).hosts = hosts /\ Claims(ask).methods = methods
  BY DEF Claims, Given
<1>3. hosts \subseteq Text
  BY CaseIs DEF Given
<1>4. HostsIn <=> \E rule \in hosts : HostMeant(rule, request.host)
  <2>1. request.host \in Text
    BY CaseIs
  <2> HIDE DEF hosts
  <2> QED
    BY <1>2, <1>3, <2>1, HostIsMeant DEF HostsIn
<1>5. PathsIn <=> \E p \in paths : PathMeant(p, request.path)
  <2>1. request.path \in Text /\ StartsWith(request.path, <<"/">>)
    BY CaseIs
  <2>2. CASE ask.preset = NoPreset
    <3>1. Claims(ask).paths = {NewRule(p) : p \in paths}
      BY <2>2 DEF Claims
    <3>2. paths \subseteq Text
      <4>1. SlashAll \in Text
        BY CharAssumption DEF SlashAll, Text
      <4>2. ask.paths \subseteq Text
        BY CaseIs
      <4>3. paths = IF ask.paths = {} THEN {SlashAll} ELSE ask.paths
        BY <2>2 DEF Given
      <4> HIDE DEF paths
      <4> QED
        BY <4>1, <4>2, <4>3
    <3> HIDE DEF paths
    <3> QED
      BY <2>1, <3>1, <3>2, NewRuleIsMeant DEF PathsIn
  <2>3. CASE ask.preset # NoPreset
    <3>1. Claims(ask).paths = {PresetRule(p) : p \in paths}
      BY <2>3 DEF Claims, Given, PathsOverridden
    <3>2. \A p \in paths : p \in Text /\ (HasStar(p) \/ ~EndsWith(p, <<"/">>))
      BY <2>3, CaseIs DEF Given, PathsOverridden
    <3> HIDE DEF paths
    <3> QED
      BY <2>1, <3>1, <3>2, PresetRuleIsMeant DEF PathsIn
  <2> QED
    BY <2>2, <2>3
<1> QED
  BY <1>1, <1>2, <1>4, <1>5 DEF MethodIn

\* The relay lets through only what the arguments of `capability issue` and its preset name:
\* whatever the patterns and the request.
THEOREM WhatIsSentWasAsked ==
  PolicySpec => []SentWasAsked
<1>1. PolicyInv => SentWasAsked
  <2> SUFFICES ASSUME PolicyInv, pc = "sent", ~PathsOverridden PROVE AskedFor
    BY DEF SentWasAsked
  <2>1. Enforced(Claims(ask), request)
    BY DEF PolicyInv
  <2>2. HostsIn /\ PathsIn /\ MethodIn /\ request.scheme \in {"https", "http"}
    BY <2>1 DEF Enforced, EnforceRequest, HostsIn, PathsIn, MethodIn
  <2> QED
    BY <2>2, ClaimsAre
<1> QED
  BY <1>1, PolicyHolds, PTL

\* And denies nothing of it but for its scheme, port, userinfo, private host, query, size or
\* type: the leftmost places of the parts of a pattern miss no match.
THEOREM WhatWasAskedIsSent ==
  PolicySpec => []AskedIsSent
<1>1. PolicyInv => AskedIsSent
  <2> SUFFICES ASSUME PolicyInv, pc = "denied", ~PathsOverridden, AskedFor,
                      request.scheme \in claims.schemes, request.port \in claims.ports,
                      ~request.userinfo, ~request.local, ~request.large,
                      ~EndsWith(request.host, <<".">>),
                      QueryAllowed(claims.query, request.query),
                      ContentType(request) \in claims.types \cup {"none"}
               PROVE  FALSE
    BY DEF AskedIsSent
  <2>1. claims = Claims(ask) /\ ~Enforced(claims, request)
    BY DEF PolicyInv
  <2>2. claims.schemes \subseteq {"https", "http"}
    <3>1. CASE ask.preset = NoPreset
      BY <2>1, <3>1 DEF Claims
    <3>2. CASE ask.preset # NoPreset
      BY <2>1, <3>2, CaseIs DEF Claims
    <3> QED
      BY <3>1, <3>2
  <2>3. request.scheme \in claims.schemes \cap {"https", "http"}
    BY <2>2
  <2>4. HostsIn /\ PathsIn /\ MethodIn
    BY <2>3, ClaimsAre
  <2> QED
    BY <2>1, <2>3, <2>4 DEF Enforced, EnforceRequest, HostsIn, PathsIn, MethodIn
<1> QED
  BY <1>1, PolicyHolds, PTL

\* inject_secret: whatever headers the client sends, in whatever spelling, the secret arrives
\* in the header of the capability and in no other.
THEOREM SecretAlwaysInItsHeader ==
  PolicySpec => []SecretInItsHeader
<1>1. PolicyInv => SecretInItsHeader
  <2> SUFFICES ASSUME PolicyInv, pc = "sent"
               PROVE  /\ claims.inject \in DOMAIN headers
                      /\ \A name \in DOMAIN headers :
                           headers[name] = Secret <=> name = claims.inject
    BY DEF SecretInItsHeader
  <2> DEFINE names == NamesSent(request) \cup {claims.inject}
  <2>1. headers = [name \in names |-> IF name = claims.inject THEN Secret
                                      ELSE HeaderSent(request, name)]
    BY DEF PolicyInv, Injected
  <2>2. ASSUME NEW name \in NamesSent(request) PROVE HeaderSent(request, name) # Secret
    <3>1. PICK h \in DOMAIN request.headers : h.name = name
      BY DEF NamesSent, HeaderNames
    <3>2. h = Spelled(name, h.capitals) /\ h.capitals \in BOOLEAN
      BY <3>1, CaseIs DEF Spelled
    <3>3. h.capitals = TRUE \/ h.capitals = FALSE
      BY <3>2
    <3>4. Spelled(name, FALSE) \in DOMAIN request.headers
            \/ Spelled(name, TRUE) \in DOMAIN request.headers
      BY <3>1, <3>2, <3>3
    <3> QED
      BY <3>4, CaseIs DEF HeaderSent, HeaderNames
  <2>3. DOMAIN headers = names /\ \A name \in names :
          headers[name] = IF name = claims.inject THEN Secret ELSE HeaderSent(request, name)
    <3> HIDE DEF names
    <3> QED
      BY <2>1
  <2> QED
    BY <2>2, <2>3
<1> QED
  BY <1>1, PolicyHolds, PTL
=============================================================================
