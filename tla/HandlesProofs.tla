---------------------------- MODULE HandlesProofs ----------------------------
(***************************************************************************)
(* Theorems about Handles, for every set of parties, kinds, values and     *)
(* commands.  First what every script is like, whatever the command, then  *)
(* what holds of a command under way and of the handles it gave out.       *)
(***************************************************************************)
EXTENDS Handles, SequenceTheorems, TLAPS

Element ==
  [do: {"open", "truncate"}] \cup [do: {"scan"}, prefix: Prefix, text: Text]
    \cup [do: {"give"}, keys: SUBSET Entry]
    \cup [do: {"write"}, text: Text, keys: SUBSET Entry]
    \cup [do: {"resolve"}, piece: Piece] \cup [do: {"drop"}, of: Entry]
    \cup [do: {"pass"}, was: Message, is: Message, keys: SUBSET Entry]

Gives(e) == e.do \in {"give", "write", "pass"}
ScanOf(e, key) == e.do = "scan" /\ key \in Keys(e.prefix, e.text)

\* A handle is given out after the scan that stores its key, or its key is in `seen`.
GivenAfter(seen, s) ==
  \A i \in 1..Len(s) : Gives(s[i]) =>
    \A key \in s[i].keys : key \in seen \/ \E j \in 1..Len(s) : j < i /\ ScanOf(s[j], key)

ScannedIn(s) == {key \in Entry : \E j \in 1..Len(s) : ScanOf(s[j], key)}

\* A script opens the vault first and then only resolves or drops, or it scans.
OpenedFirst(s) ==
  \/ \A i \in 1..Len(s) : s[i].do \notin {"open", "resolve", "drop"}
  \/ \A i \in 1..Len(s) : IF i = 1 THEN s[i].do = "open" ELSE s[i].do \in {"resolve", "drop"}

Clean(e) ==
  e.was.type # "none" =>
    IF e.was.type = "json" /\ e.was.encoding # "gzip"
    THEN /\ Findings(e.is.body) = {}
         /\ \A i \in DOMAIN e.was.body : e.was.body[i] = Plain => e.is.body[i] = Plain
    ELSE e.is = e.was
PassesClean(s) == \A i \in 1..Len(s) : s[i].do = "pass" => Clean(s[i])

Made(s) == s \in Seq(Element) /\ GivenAfter({}, s) /\ OpenedFirst(s) /\ PassesClean(s)

-----------------------------------------------------------------------------
(* What the operators on texts and keys return.                            *)

LEMMA TextIs ==
  ASSUME NEW text \in Text
  PROVE  /\ Len(text) \in Nat /\ DOMAIN text = 1..Len(text)
         /\ \A i \in DOMAIN text : text[i] \in Piece
         /\ text \in [1..Len(text) -> Piece]
<1> QED
  BY DEF Text

LEMMA IsText ==
  ASSUME NEW n \in Nat, NEW f \in [1..n -> Piece]
  PROVE  f \in Text
<1> QED
  BY SeqDef DEF Text

LEMMA FindingsType ==
  ASSUME NEW text \in Text
  PROVE  Findings(text) \in SUBSET Nat /\ \A i \in Findings(text) : text[i] \in Secret
<1> QED
  BY TextIs DEF Findings

LEMMA KeysType ==
  ASSUME NEW prefix \in Prefix, NEW text \in Text
  PROVE  Keys(prefix, text) \in SUBSET Entry
<1> QED
  BY FindingsType DEF Keys, Entry

LEMMA SealedType ==
  ASSUME NEW text \in Text
  PROVE  /\ Sealed(text) \in Text
         /\ DOMAIN Sealed(text) = DOMAIN text
         /\ Findings(Sealed(text)) = {}
         /\ \A i \in DOMAIN text : text[i] \notin Secret => Sealed(text)[i] = text[i]
<1> DEFINE n == Len(text)
<1>0. n \in Nat /\ DOMAIN text = 1..n /\ \A i \in 1..n : text[i] \in Piece
  BY TextIs
<1>1. \A s \in Secret : [to |-> s] \in Piece /\ [to |-> s] \notin Secret
  BY DEF Piece, Handle, Secret
<1>2. /\ DOMAIN Sealed(text) = 1..n
      /\ \A i \in 1..n : Sealed(text)[i] =
           IF text[i] \in Secret THEN [to |-> text[i]] ELSE text[i]
  BY <1>0 DEF Sealed
<1>3. \A i \in 1..n : Sealed(text)[i] \in Piece /\ Sealed(text)[i] \notin Secret
  BY <1>0, <1>1, <1>2
<1>4. Sealed(text) \in [1..n -> Piece]
  <2>1. Sealed(text) = [i \in 1..n |-> Sealed(text)[i]]
    BY <1>0 DEF Sealed
  <2> QED
    BY <1>3, <2>1
<1> QED
  BY <1>0, <1>2, <1>3, <1>4, IsText DEF Findings

LEMMA LossyType ==
  ASSUME NEW text \in Text
  PROVE  /\ Lossy(text) \in Text
         /\ DOMAIN Lossy(text) = DOMAIN text
         /\ \A i \in DOMAIN text : text[i] # Foreign => Lossy(text)[i] = text[i]
<1> DEFINE n == Len(text)
<1>0. n \in Nat /\ DOMAIN text = 1..n /\ \A i \in 1..n : text[i] \in Piece
  BY TextIs
<1>1. Lossy(text) \in [1..n -> Piece]
  BY <1>0 DEF Lossy, Piece
<1> QED
  BY <1>0, <1>1, IsText DEF Lossy

-----------------------------------------------------------------------------
(* Every script is made well.  A part seals and gives out: it uses no copy *)
(* of the vault that was opened before.                                    *)

Part(seen, s) ==
  /\ s \in Seq(Element) /\ GivenAfter(seen, s) /\ PassesClean(s)
  /\ \A i \in 1..Len(s) : s[i].do \notin {"open", "resolve", "drop"}

LEMMA PartIsMade ==
  ASSUME NEW s, Part({}, s)
  PROVE  Made(s)
<1> QED
  BY DEF Part, Made, OpenedFirst

LEMMA PartWidens ==
  ASSUME NEW seen, NEW more, seen \subseteq more, NEW s, Part(seen, s)
  PROVE  Part(more, s)
<1> QED
  BY DEF Part, GivenAfter

LEMMA ScannedConcat ==
  ASSUME NEW s \in Seq(Element), NEW t \in Seq(Element)
  PROVE  ScannedIn(s) \cup ScannedIn(t) \subseteq ScannedIn(s \o t)
<1> DEFINE u == s \o t
           m == Len(s)
           n == Len(t)
<1>1. /\ m \in Nat /\ n \in Nat /\ Len(u) = m + n
      /\ \A i \in 1..m : u[i] = s[i] /\ i \in 1..Len(u)
      /\ \A i \in 1..n : u[m + i] = t[i] /\ m + i \in 1..Len(u)
  BY ConcatProperties, LenProperties
<1> HIDE DEF u, m, n
<1>2. \A key \in ScannedIn(s) : key \in ScannedIn(u)
  BY <1>1 DEF ScannedIn, m
<1>3. ASSUME NEW key \in ScannedIn(t) PROVE key \in ScannedIn(u)
  <2>1. PICK j \in 1..n : ScanOf(t[j], key)
    BY DEF ScannedIn, n
  <2>2. m + j \in 1..Len(u) /\ ScanOf(u[m + j], key)
    BY <1>1, <2>1
  <2> QED
    BY <2>2 DEF ScannedIn
<1> QED
  BY <1>2, <1>3 DEF u

\* What a part may give out grows by what the part before it scans.
LEMMA PartConcat ==
  ASSUME NEW seen, NEW s, NEW t, Part(seen, s), Part(seen \cup ScannedIn(s), t)
  PROVE  Part(seen, s \o t)
<1> DEFINE u == s \o t
           m == Len(s)
           n == Len(t)
<1>0. s \in Seq(Element) /\ t \in Seq(Element)
  BY DEF Part
<1>1. /\ m \in Nat /\ n \in Nat /\ Len(u) = m + n /\ u \in Seq(Element)
      /\ \A i \in 1..m : u[i] = s[i] /\ i \in 1..Len(u)
      /\ \A i \in 1..n : u[m + i] = t[i] /\ m + i \in 1..Len(u)
  BY <1>0, ConcatProperties, LenProperties
<1> HIDE DEF u, m, n
<1>2. ASSUME NEW i \in 1..Len(u), i \notin 1..m
      PROVE  \E k \in 1..n : i = m + k /\ u[i] = t[k]
  <2>1. i - m \in 1..n /\ i = m + (i - m)
    BY <1>1, <1>2
  <2> QED
    BY <1>1, <2>1
<1>3. GivenAfter(seen, u)
  <2> SUFFICES ASSUME NEW i \in 1..Len(u), Gives(u[i]), NEW key \in u[i].keys, key \notin seen
               PROVE  \E j \in 1..Len(u) : j < i /\ ScanOf(u[j], key)
    BY DEF GivenAfter
  <2>1. CASE i \in 1..m
    <3>1. PICK j \in 1..m : j < i /\ ScanOf(s[j], key)
      BY <1>1, <2>1 DEF Part, GivenAfter, m
    <3> QED
      BY <1>1, <3>1
  <2>2. CASE i \notin 1..m
    <3>1. PICK k \in 1..n : i = m + k /\ u[i] = t[k]
      BY <1>2, <2>2
    <3>2. key \in ScannedIn(s) \/ \E j \in 1..n : j < k /\ ScanOf(t[j], key)
      BY <3>1 DEF Part, GivenAfter, n
    <3>3. CASE key \in ScannedIn(s)
      <4>1. PICK j \in 1..m : ScanOf(s[j], key)
        BY <3>3 DEF ScannedIn, m
      <4>2. j \in 1..Len(u) /\ u[j] = s[j] /\ j < i
        BY <1>1, <3>1
      <4> QED
        BY <4>1, <4>2
    <3>4. CASE \E j \in 1..n : j < k /\ ScanOf(t[j], key)
      <4>1. PICK j \in 1..n : j < k /\ ScanOf(t[j], key)
        BY <3>4
      <4>2. m + j \in 1..Len(u) /\ m + j < i /\ ScanOf(u[m + j], key)
        BY <1>1, <3>1, <4>1
      <4> QED
        BY <4>2
    <3> QED
      BY <3>2, <3>3, <3>4
  <2> QED
    BY <2>1, <2>2
<1>4. PassesClean(u) /\ \A i \in 1..Len(u) : u[i].do \notin {"open", "resolve", "drop"}
  <2> SUFFICES ASSUME NEW i \in 1..Len(u)
               PROVE  /\ u[i].do = "pass" => Clean(u[i])
                      /\ u[i].do \notin {"open", "resolve", "drop"}
    BY DEF PassesClean
  <2>1. CASE i \in 1..m
    BY <1>1, <2>1 DEF Part, PassesClean, m
  <2>2. CASE i \notin 1..m
    BY <1>2, <2>2 DEF Part, PassesClean, n
  <2> QED
    BY <2>1, <2>2
<1> QED
  BY <1>1, <1>3, <1>4 DEF Part, u

LEMMA SingletonPart ==
  ASSUME NEW seen, NEW e \in Element, e.do \notin {"open", "resolve", "drop"},
         Gives(e) => e.keys \subseteq seen, e.do = "pass" => Clean(e)
  PROVE  Part(seen, <<e>>)
<1>1. <<e>> \in Seq(Element) /\ Len(<<e>>) = 1 /\ <<e>>[1] = e
  OBVIOUS
<1>2. \A i \in 1..Len(<<e>>) : <<e>>[i] = e
  BY <1>1
<1> HIDE DEF Element
<1> QED
  BY <1>1, <1>2 DEF Part, GivenAfter, PassesClean

LEMMA ScanPart ==
  ASSUME NEW seen, NEW prefix \in Prefix, NEW text \in Text
  PROVE  /\ Part(seen, ScanAndSeal(prefix, text))
         /\ Keys(prefix, text) \subseteq ScannedIn(ScanAndSeal(prefix, text))
<1> DEFINE e == [do |-> "scan", prefix |-> prefix, text |-> text]
<1>1. e \in Element /\ e.do = "scan" /\ e.prefix = prefix /\ e.text = text
  BY DEF Element
<1>2. ScanAndSeal(prefix, text) = <<e>>
  BY DEF ScanAndSeal
<1> HIDE DEF e
<1>3. Part(seen, <<e>>)
  BY <1>1, SingletonPart DEF Gives
<1>4. Len(<<e>>) = 1 /\ <<e>>[1] = e
  OBVIOUS
<1>5. \A key \in Keys(prefix, text) : ScanOf(<<e>>[1], key) /\ 1 \in 1..Len(<<e>>)
  BY <1>1, <1>4 DEF ScanOf
<1> QED
  BY <1>2, <1>3, <1>5, KeysType DEF ScannedIn

LEMMA GivePart ==
  ASSUME NEW seen, NEW keys \in SUBSET Entry, keys \subseteq seen
  PROVE  Part(seen, GiveOut(keys))
<1> DEFINE e == [do |-> "give", keys |-> keys]
<1>1. e \in Element /\ e.do = "give" /\ e.keys = keys
  BY DEF Element
<1> HIDE DEF e
<1>2. Part(seen, <<e>>)
  BY <1>1, SingletonPart
<1> QED
  BY <1>2 DEF GiveOut, e

LEMMA SanitizedPart ==
  ASSUME NEW seen, NEW prefix \in Prefix, NEW args \in Seq(Text)
  PROVE  /\ Part(seen, Sanitized(prefix, args))
         /\ AllKeys(prefix, args) \in SUBSET Entry
         /\ AllKeys(prefix, args) \subseteq ScannedIn(Sanitized(prefix, args))
<1> DEFINE s == Sanitized(prefix, args)
           n == Len(args)
<1>1. n \in Nat /\ \A i \in 1..n : args[i] \in Text
  BY ElementOfSeq, LenProperties
<1>2. \A i \in 1..n : s[i] = [do |-> "scan", prefix |-> prefix, text |-> args[i]]
  BY DEF Sanitized, ScanAndSeal
<1>3. \A i \in 1..n : /\ s[i] \in Element /\ s[i].do = "scan"
                      /\ s[i].prefix = prefix /\ s[i].text = args[i]
  <2> HIDE DEF s, n
  <2> TAKE i \in 1..n
  <2>1. s[i] = [do |-> "scan", prefix |-> prefix, text |-> args[i]] /\ args[i] \in Text
    BY <1>1, <1>2
  <2>2. s[i].do = "scan" /\ s[i].prefix = prefix /\ s[i].text = args[i]
    BY <2>1
  <2> QED
    BY <2>1, <2>2 DEF Element
<1>4. s \in [1..n -> Element]
  <2>1. s = [i \in 1..n |-> s[i]]
    BY DEF Sanitized
  <2> QED
    BY <1>3, <2>1
<1> HIDE DEF s, n
<1>5. s \in Seq(Element) /\ Len(s) = n
  BY <1>1, <1>4, SeqDef, LenProperties
<1>6. Part(seen, s)
  BY <1>3, <1>5 DEF Part, GivenAfter, PassesClean, Gives
<1>7. \A i \in 1..n : Keys(prefix, args[i]) \in SUBSET Entry
  BY <1>1, KeysType
<1>8. ASSUME NEW key \in AllKeys(prefix, args)
      PROVE  key \in Entry /\ key \in ScannedIn(s)
  <2>1. PICK i \in 1..n : key \in Keys(prefix, args[i])
    BY <1>8 DEF AllKeys, n
  <2>2. key \in Entry /\ i \in 1..Len(s) /\ ScanOf(s[i], key)
    BY <1>3, <1>5, <1>7, <2>1 DEF ScanOf
  <2> QED
    BY <2>2 DEF ScannedIn
<1> QED
  BY <1>6, <1>8 DEF s

LEMMA SealTextPart ==
  ASSUME NEW prefix \in Prefix, NEW text \in Text
  PROVE  Part({}, SealText(prefix, text))
<1>1. /\ Part({}, ScanAndSeal(prefix, text))
      /\ Keys(prefix, text) \subseteq ScannedIn(ScanAndSeal(prefix, text))
      /\ Keys(prefix, text) \in SUBSET Entry
  BY ScanPart, KeysType
<1>2. Part({} \cup ScannedIn(ScanAndSeal(prefix, text)), GiveOut(Keys(prefix, text)))
  BY <1>1, GivePart
<1> QED
  BY <1>1, <1>2, PartConcat DEF SealText

LEMMA TerminalPart ==
  ASSUME NEW lines \in Seq(Text)
  PROVE  Part({}, Terminal(lines))
<1> DEFINE s == Terminal(lines)
           n == Len(lines)
           line(i) == lines[(i + 1) \div 2]
<1>1. n \in Nat /\ \A i \in 1..n : lines[i] \in Text
  BY ElementOfSeq, LenProperties
<1>2. \A i \in 1..(2 * n) : /\ (i + 1) \div 2 \in 1..n /\ i % 2 \in {0, 1}
                            /\ i % 2 = 0 => i - 1 \in 1..(2 * n) /\ (i - 1) % 2 = 1
                                           /\ (i - 1 + 1) \div 2 = (i + 1) \div 2
  BY <1>1
<1>3. \A i \in 1..(2 * n) : line(i) \in Text
  BY <1>1, <1>2
<1>4. \A i \in 1..(2 * n) : /\ i % 2 = 1 => s[i] = [do |-> "scan", prefix |-> "pty", text |-> line(i)]
                            /\ i % 2 = 0 => s[i] = [do |-> "give", keys |-> Keys("pty", line(i))]
  <2> TAKE i \in 1..(2 * n)
  <2>1. s[i] = SealText("pty", line(i))[2 - (i % 2)]
    BY DEF Terminal
  <2> HIDE DEF s
  <2> QED
    BY <2>1, <1>2 DEF SealText, ScanAndSeal, GiveOut
<1>5. "pty" \in Prefix
  BY DEF Prefix
<1>6. \A i \in 1..(2 * n) : Keys("pty", line(i)) \in SUBSET Entry
  BY <1>3, <1>5, KeysType
<1>7. \A i \in 1..(2 * n) :
        /\ s[i] \in Element /\ s[i].do \in {"scan", "give"}
        /\ i % 2 = 1 => s[i].do = "scan" /\ s[i].prefix = "pty" /\ s[i].text = line(i)
        /\ i % 2 = 0 => s[i].do = "give" /\ s[i].keys = Keys("pty", line(i))
  <2> TAKE i \in 1..(2 * n)
  <2>1. /\ line(i) \in Text /\ Keys("pty", line(i)) \in SUBSET Entry
        /\ i % 2 = 1 => s[i] = [do |-> "scan", prefix |-> "pty", text |-> line(i)]
        /\ i % 2 = 0 => s[i] = [do |-> "give", keys |-> Keys("pty", line(i))]
        /\ i % 2 \in {0, 1}
    BY <1>2, <1>3, <1>4, <1>6
  <2> HIDE DEF s, line
  <2>2. CASE i % 2 = 1
    BY <2>1, <2>2, <1>5 DEF Element
  <2>3. CASE i % 2 = 0
    BY <2>1, <2>3 DEF Element
  <2> QED
    BY <2>1, <2>2, <2>3
<1>8. s \in [1..(2 * n) -> Element]
  <2>1. s = [i \in 1..(2 * n) |-> s[i]]
    BY DEF Terminal
  <2> HIDE DEF s
  <2> QED
    BY <1>7, <2>1
<1>9. \A i \in 1..(2 * n) : i % 2 = 0 => line(i - 1) = line(i)
  BY <1>2
<1> HIDE DEF s, n, line
<1>10. s \in Seq(Element) /\ Len(s) = 2 * n
  BY <1>1, <1>8, SeqDef, LenProperties
<1>11. GivenAfter({}, s)
  <2> SUFFICES ASSUME NEW i \in 1..Len(s), Gives(s[i]), NEW key \in s[i].keys
               PROVE  \E j \in 1..Len(s) : j < i /\ ScanOf(s[j], key)
    BY DEF GivenAfter
  <2>1. i \in 1..(2 * n) /\ i % 2 = 0
    BY <1>2, <1>7, <1>10 DEF Gives
  <2>2. i - 1 \in 1..Len(s) /\ i - 1 < i /\ (i - 1) % 2 = 1
    BY <1>1, <1>2, <1>10, <2>1
  <2>3. ScanOf(s[i - 1], key)
    BY <1>7, <1>9, <1>10, <2>1, <2>2 DEF ScanOf
  <2> QED
    BY <2>2, <2>3
<1> QED
  BY <1>7, <1>10, <1>11 DEF Part, PassesClean, s

LEMMA EmptyPart ==
  ASSUME NEW seen
  PROVE  Part(seen, <<>>)
<1>1. <<>> \in Seq(Element) /\ Len(<<>>) = 0 /\ 1..Len(<<>>) = {}
  BY EmptySeq
<1> HIDE DEF Element
<1> QED
  BY <1>1 DEF Part, GivenAfter, PassesClean

LEMMA PassPart ==
  ASSUME NEW seen, NEW m \in Message, NEW is \in Message, NEW keys \in SUBSET Entry,
         keys \subseteq seen, Clean([do |-> "pass", was |-> m, is |-> is, keys |-> keys])
  PROVE  Part(seen, PassOn(m, is, keys))
<1> DEFINE e == [do |-> "pass", was |-> m, is |-> is, keys |-> keys]
<1>1. e \in Element /\ e.do = "pass" /\ e.keys = keys
  BY DEF Element
<1> HIDE DEF e
<1>2. Part(seen, <<e>>)
  BY <1>1, SingletonPart DEF e
<1> QED
  BY <1>2 DEF PassOn, e

LEMMA SealedMessageType ==
  ASSUME NEW m \in Message, NEW body \in Text
  PROVE  [m EXCEPT !.body = body] \in Message /\ [m EXCEPT !.body = body].body = body
<1> QED
  BY DEF Message

LEMMA RelayedPart ==
  ASSUME NEW prefix \in Prefix, NEW m \in Message
  PROVE  Part({}, Relayed(prefix, m))
<1>0. /\ m.body \in Text /\ m.type \in {"none", "json", "events", "image"}
      /\ m.encoding \in {"none", "identity", "gzip"}
  BY DEF Message
<1>1. CASE ~BodyIsRewritable(m)
  <2>1. Clean([do |-> "pass", was |-> m, is |-> m, keys |-> {}])
    BY <1>0, <1>1 DEF Clean, BodyIsRewritable
  <2>2. Part({}, PassOn(m, m, {}))
    BY <2>1, PassPart
  <2> QED
    BY <1>1, <2>2 DEF Relayed
<1>2. CASE BodyIsRewritable(m)
  <2> DEFINE text == Lossy(m.body)
             body == Sealed(text)
             keys == Keys(prefix, text)
             store == IF Findings(text) = {} THEN <<>> ELSE ScanAndSeal(prefix, text)
             is == [m EXCEPT !.body = body]
             e == [do |-> "pass", was |-> m, is |-> is, keys |-> keys]
  <2>1. /\ text \in Text /\ DOMAIN text = DOMAIN m.body
        /\ \A i \in DOMAIN m.body : m.body[i] # Foreign => text[i] = m.body[i]
    BY <1>0, LossyType
  <2>2. Relayed(prefix, m) = store \o PassOn(m, is, keys)
    BY <1>2 DEF Relayed
  <2> HIDE DEF text
  <2>3. /\ body \in Text /\ Findings(body) = {}
        /\ \A i \in DOMAIN text : text[i] \notin Secret => body[i] = text[i]
    BY <2>1, SealedType
  <2>4. keys \in SUBSET Entry
    BY <2>1, KeysType
  <2>5. Part({}, store) /\ keys \subseteq ScannedIn(store)
    <3>1. CASE Findings(text) = {}
      BY <3>1, EmptyPart DEF Keys
    <3>2. CASE Findings(text) # {}
      BY <2>1, <3>2, ScanPart
    <3> QED
      BY <3>1, <3>2
  <2> HIDE DEF body, keys, store
  <2>6. is \in Message /\ is.body = body
    BY <2>3, SealedMessageType
  <2> HIDE DEF is
  <2>7. \A i \in DOMAIN m.body : m.body[i] = Plain => is.body[i] = Plain
    BY <2>1, <2>3, <2>6, PieceAssumption
  <2>8. e.was = m /\ e.is = is
    OBVIOUS
  <2> HIDE DEF e
  <2>9. Clean(e)
    BY <1>0, <1>2, <2>3, <2>6, <2>7, <2>8 DEF Clean, BodyIsRewritable
  <2>10. Part({} \cup ScannedIn(store), PassOn(m, is, keys))
    BY <2>4, <2>5, <2>6, <2>9, PassPart DEF e
  <2> QED
    BY <2>2, <2>5, <2>10, PartConcat
<1> QED
  BY <1>1, <1>2

-----------------------------------------------------------------------------

LEMMA EnvSealPart ==
  ASSUME NEW prefix \in Prefix, NEW text \in Text
  PROVE  Part({}, EnvSeal(prefix, text))
<1> DEFINE keys == Keys(prefix, text)
           scan == ScanAndSeal(prefix, text)
           e == [do |-> "truncate"]
           w == [do |-> "write", text |-> Sealed(text), keys |-> keys]
<1>1. Part({}, scan) /\ keys \subseteq ScannedIn(scan)
  BY ScanPart
<1>2. EnvSeal(prefix, text) = scan \o <<e, w>>
  BY DEF EnvSeal
<1>3. /\ e \in Element /\ e.do = "truncate"
      /\ w \in Element /\ w.do = "write" /\ w.keys = keys
  BY SealedType, KeysType DEF Element
<1> HIDE DEF scan, e, w, keys
<1>4. <<e, w>> \in Seq(Element) /\ Len(<<e, w>>) = 2 /\ <<e, w>>[1] = e /\ <<e, w>>[2] = w
  BY <1>3
<1>5. Part(ScannedIn(scan), <<e, w>>)
  <2>1. \A i \in 1..Len(<<e, w>>) : <<e, w>>[i] \in {e, w}
    BY <1>4
  <2> DEFINE s == <<e, w>>
  <2> HIDE DEF s, Element
  <2>2. s \in Seq(Element) /\ \A i \in 1..Len(s) : s[i] \in {e, w}
    BY <1>4, <2>1 DEF s
  <2>3. Part(ScannedIn(scan), s)
    BY <1>1, <1>3, <2>2 DEF Part, GivenAfter, PassesClean, Gives
  <2> QED
    BY <2>3 DEF s
<1>6. Part({} \cup ScannedIn(scan), <<e, w>>)
  BY <1>5
<1> QED
  BY <1>1, <1>2, <1>6, PartConcat

LEMMA InteractivePart ==
  ASSUME NEW args \in Seq(Text), NEW lines \in Seq(Text)
  PROVE  Part({}, Interactive(args, lines))
<1> DEFINE first == Sanitized("pty-arg", args)
           give == GiveOut(AllKeys("pty-arg", args))
           rest == Terminal(lines)
<1>0. "pty-arg" \in Prefix
  BY DEF Prefix
<1>1. /\ Part({}, first) /\ AllKeys("pty-arg", args) \in SUBSET Entry
      /\ AllKeys("pty-arg", args) \subseteq ScannedIn(first)
  BY <1>0, SanitizedPart
<1>2. Part({} \cup ScannedIn(first), give)
  BY <1>1, GivePart
<1>3. Part({}, first \o give)
  BY <1>1, <1>2, PartConcat
<1>4. Part({} \cup ScannedIn(first \o give), rest)
  <2>1. Part({}, rest)
    BY TerminalPart
  <2> HIDE DEF first, give, rest
  <2> QED
    BY <2>1, PartWidens
<1>5. Part({}, (first \o give) \o rest)
  BY <1>3, <1>4, PartConcat
<1> QED
  BY <1>5 DEF Interactive

LEMMA PipedPart ==
  ASSUME NEW args \in Seq(Text), NEW input \in Text
  PROVE  Part({}, Piped(args, input))
<1> DEFINE first == ScanAndSeal("run", input)
           more == Sanitized("run-arg", args)
           keys == Keys("run", input) \cup AllKeys("run-arg", args)
<1>0. "run" \in Prefix /\ "run-arg" \in Prefix
  BY DEF Prefix
<1>1. /\ Part({}, first) /\ Keys("run", input) \subseteq ScannedIn(first)
      /\ Keys("run", input) \in SUBSET Entry
  BY <1>0, ScanPart, KeysType
<1>2. /\ Part({} \cup ScannedIn(first), more) /\ AllKeys("run-arg", args) \in SUBSET Entry
      /\ AllKeys("run-arg", args) \subseteq ScannedIn(more)
  BY <1>0, SanitizedPart
<1>3. first \in Seq(Element) /\ more \in Seq(Element)
  BY <1>1, <1>2 DEF Part
<1>4. keys \in SUBSET Entry /\ keys \subseteq ScannedIn(first \o more)
  <2> HIDE DEF first, more
  <2> QED
    BY <1>1, <1>2, <1>3, ScannedConcat
<1>5. Part({}, first \o more)
  BY <1>1, <1>2, PartConcat
<1>6. Part({} \cup ScannedIn(first \o more), GiveOut(keys))
  <2> HIDE DEF first, more, keys
  <2> QED
    BY <1>4, GivePart
<1>7. Part({}, (first \o more) \o GiveOut(keys))
  <2> HIDE DEF first, more, keys
  <2> QED
    BY <1>5, <1>6, PartConcat
<1> QED
  BY <1>7 DEF Piped

LEMMA ExchangePart ==
  ASSUME NEW request \in Message, NEW reply \in Message
  PROVE  Part({}, Exchange(request, reply))
<1> DEFINE first == Relayed("proxy/request", request)
           rest == Relayed("proxy/response", reply)
<1>0. "proxy/request" \in Prefix /\ "proxy/response" \in Prefix
  BY DEF Prefix
<1>1. Part({}, first) /\ Part({}, rest)
  BY <1>0, RelayedPart
<1> HIDE DEF first, rest
<1>2. Part({} \cup ScannedIn(first), rest)
  BY <1>1, PartWidens
<1>3. Part({}, first \o rest)
  BY <1>1, <1>2, PartConcat
<1> QED
  BY <1>3 DEF Exchange, first, rest

\* A script that opens the vault and then resolves or drops.
LEMMA OpeningIsMade ==
  ASSUME NEW s \in Seq(Element), Len(s) > 0, s[1].do = "open",
         \A i \in 1..Len(s) : i > 1 => s[i].do \in {"resolve", "drop"}
  PROVE  Made(s)
<1>1. Len(s) \in Nat
  OBVIOUS
<1>2. \A i \in 1..Len(s) : IF i = 1 THEN s[i].do = "open" ELSE s[i].do \in {"resolve", "drop"}
  BY <1>1
<1> HIDE DEF Element
<1> QED
  BY <1>2 DEF Made, GivenAfter, OpenedFirst, PassesClean, Gives

LEMMA EnvRunMade ==
  ASSUME NEW entries \in Text
  PROVE  Made(EnvRun(entries))
<1> DEFINE n == Len(entries)
           o == [do |-> "open"]
           rest == [i \in 1..n |-> [do |-> "resolve", piece |-> entries[i]]]
           s == <<o>> \o rest
<1>1. n \in Nat /\ \A i \in 1..n : entries[i] \in Piece
  BY TextIs
<1>2. rest \in [1..n -> Element] /\ \A i \in 1..n : rest[i].do = "resolve"
  BY <1>1 DEF Element
<1>3. rest \in Seq(Element) /\ Len(rest) = n
  BY <1>1, <1>2, SeqDef, LenProperties
<1>4. o \in Element /\ o.do = "open"
  BY DEF Element
<1>5. EnvRun(entries) = s
  BY DEF EnvRun, Open
<1> HIDE DEF rest, o
<1>6. <<o>> \in Seq(Element) /\ Len(<<o>>) = 1 /\ <<o>>[1] = o
  BY <1>4
<1>7. /\ s \in Seq(Element) /\ Len(s) = 1 + n /\ s[1] = o
      /\ \A i \in 1..n : s[1 + i] = rest[i]
  BY <1>1, <1>3, <1>6, ConcatProperties
<1> HIDE DEF s
<1>8. \A i \in 1..Len(s) : i > 1 => s[i].do = "resolve"
  <2> TAKE i \in 1..Len(s)
  <2> HAVE i > 1
  <2>1. i - 1 \in 1..n /\ i = 1 + (i - 1)
    BY <1>1, <1>7
  <2>2. s[i] = rest[i - 1]
    BY <1>7, <2>1
  <2> QED
    BY <1>2, <2>1, <2>2
<1> QED
  BY <1>1, <1>4, <1>5, <1>7, <1>8, OpeningIsMade

LEMMA DeleteMade ==
  ASSUME NEW key \in Entry
  PROVE  Made(DeleteSecret(key))
<1> DEFINE o == [do |-> "open"]
           d == [do |-> "drop", of |-> key]
           s == <<o>> \o <<d, d>>
<1>1. /\ o \in Element /\ o.do = "open" /\ d \in Element /\ d.do = "drop"
  BY DEF Element
<1>2. DeleteSecret(key) = s
  BY DEF DeleteSecret, Open
<1> HIDE DEF o, d
<1>3. /\ <<o>> \in Seq(Element) /\ Len(<<o>>) = 1 /\ <<o>>[1] = o
      /\ <<d, d>> \in Seq(Element) /\ Len(<<d, d>>) = 2 /\ <<d, d>>[1] = d /\ <<d, d>>[2] = d
  BY <1>1
<1>4. /\ s \in Seq(Element) /\ Len(s) = 3 /\ s[1] = o /\ s[2] = d /\ s[3] = d
  BY <1>3, ConcatProperties
<1> HIDE DEF s
<1>5. \A i \in 1..Len(s) : i > 1 => s[i].do \in {"resolve", "drop"}
  BY <1>1, <1>4
<1>6. Len(s) > 0 /\ s[1].do = "open"
  BY <1>1, <1>4
<1> HIDE DEF Element
<1> QED
  BY <1>2, <1>4, <1>5, <1>6, OpeningIsMade

\* Whatever the command, its script gives out after it stored, and passes on clean
\* messages.
LEMMA ScriptIsMade ==
  ASSUME NEW cmd \in Command, cmd.op = "env run" => env \in Text
  PROVE  Made(Script(cmd))
<1>1. CASE cmd.op = "seal"
  <2>1. cmd.prefix \in Prefix /\ cmd.text \in Text
    BY <1>1 DEF Command
  <2>2. Script(cmd) = SealText(cmd.prefix, cmd.text)
    BY <1>1 DEF Script
  <2> QED
    BY <2>1, <2>2, SealTextPart, PartIsMade
<1>2. CASE cmd.op = "interactive"
  <2>1. cmd.args \in Seq(Text) /\ cmd.lines \in Seq(Text)
    BY <1>2 DEF Command
  <2>2. Script(cmd) = Interactive(cmd.args, cmd.lines)
    BY <1>2 DEF Script
  <2> QED
    BY <2>1, <2>2, InteractivePart, PartIsMade
<1>3. CASE cmd.op = "piped"
  <2>1. cmd.args \in Seq(Text) /\ cmd.input \in Text
    BY <1>3 DEF Command
  <2>2. Script(cmd) = Piped(cmd.args, cmd.input)
    BY <1>3 DEF Script
  <2> QED
    BY <2>1, <2>2, PipedPart, PartIsMade
<1>4. CASE cmd.op = "env seal"
  <2>1. cmd.prefix \in Prefix /\ cmd.text \in Text
    BY <1>4 DEF Command
  <2>2. Script(cmd) = EnvSeal(cmd.prefix, cmd.text)
    BY <1>4 DEF Script
  <2> QED
    BY <2>1, <2>2, EnvSealPart, PartIsMade
<1>5. CASE cmd.op = "env run"
  <2>1. Script(cmd) = EnvRun(env)
    BY <1>5 DEF Script
  <2> QED
    BY <1>5, <2>1, EnvRunMade
<1>6. CASE cmd.op = "delete"
  <2>1. cmd.key \in Entry
    BY <1>6 DEF Command
  <2>2. Script(cmd) = DeleteSecret(cmd.key)
    BY <1>6 DEF Script
  <2> QED
    BY <2>1, <2>2, DeleteMade
<1>7. CASE cmd.op = "exchange"
  <2>1. cmd.request \in Message /\ cmd.reply \in Message
    BY <1>7 DEF Command
  <2>2. Script(cmd) = Exchange(cmd.request, cmd.reply)
    BY <1>7 DEF Script
  <2> QED
    BY <2>1, <2>2, ExchangePart, PartIsMade
<1>8. cmd.op \in {"seal", "interactive", "piped", "env seal", "env run", "delete", "exchange"}
  BY DEF Command
<1> QED
  BY <1>1, <1>2, <1>3, <1>4, <1>5, <1>6, <1>7, <1>8

-----------------------------------------------------------------------------
(* The invariant: while it is apart, a command has stored in the vault     *)
(* file what its script scanned so far.  So it has in every copy that may  *)
(* be saved over the file: those were read after it stored, or are its own.*)

Session == [script: Seq(Element), at: Nat \ {0}, todo: SUBSET Nat, copy: SUBSET Entry,
            apart: BOOLEAN]

KeyAt(e, i) == [prefix |-> e.prefix, of |-> e.text[i]]

Local(r) ==
  /\ r \in Session /\ Made(r.script)
  /\ r.todo # {} => /\ r.at \in 1..Len(r.script) /\ r.script[r.at].do = "scan"
                    /\ r.todo \subseteq Findings(r.script[r.at].text)

HasStored(r, keys) ==
  /\ \A j \in 1..Len(r.script) : j < r.at /\ r.script[j].do = "scan" =>
       Keys(r.script[j].prefix, r.script[j].text) \subseteq keys
  /\ r.todo # {} => \A i \in Findings(r.script[r.at].text) :
       i \in r.todo \/ KeyAt(r.script[r.at], i) \in keys

Apart(p) ==
  /\ HasStored(run[p], vault)
  /\ HoldsVault(run[p]) => run[p].copy = vault /\ Others(p) = {}
  /\ \A q \in Others(p) : HasStored(run[p], run[q].copy)

IInv ==
  /\ vault \in SUBSET Entry /\ handed \subseteq vault /\ env \in Text \cup {Nothing}
  /\ run = [q \in Party |-> run[q]]
  /\ \A p \in Busy : Local(run[p]) /\ (HoldsVault(run[p]) => handed \subseteq run[p].copy)
  /\ \A p \in Busy : run[p].apart => Apart(p)
  /\ HandlesUnderTheirKindResolve

LEMMA InitHolds ==
  Init => IInv
<1> QED
  BY DEF Init, IInv, Busy, HandlesUnderTheirKindResolve

LEMMA SessionIs ==
  ASSUME NEW r, Local(r)
  PROVE  /\ r.script \in Seq(Element) /\ Len(r.script) \in Nat /\ r.at \in Nat /\ r.at >= 1
         /\ r.todo \in SUBSET Nat /\ r.copy \in SUBSET Entry
         /\ r.apart \in BOOLEAN /\ Made(r.script)
         /\ \A i \in 1..Len(r.script) : r.script[i] \in Element
<1> QED
  BY ElementOfSeq DEF Local, Session

\* A party that is no longer apart is otherwise what it was.
LEMMA MetIs ==
  ASSUME NEW r, Local(r), NEW m, m = [r EXCEPT !.apart = FALSE]
  PROVE  /\ Local(m) /\ m.apart = FALSE /\ m.copy = r.copy
         /\ HoldsVault(m) = HoldsVault(r)
<1>1. r \in Session
  BY DEF Local
<1>2. /\ m \in Session /\ m.script = r.script /\ m.at = r.at
      /\ m.todo = r.todo /\ m.copy = r.copy /\ m.apart = FALSE
  <2> HIDE DEF Element
  <2> QED
    BY <1>1 DEF Session
<1> QED
  BY <1>2 DEF Local, HoldsVault

\* One party goes on as n, and those of met are no longer apart: what the step must do
\* for the invariant to go on.
LEMMA SessionMoves ==
  ASSUME IInv, NEW p \in Party, NEW n, NEW met, Meet(p, n, met), met \subseteq Busy, Local(n),
         vault' \in SUBSET Entry, env' \in Text \cup {Nothing}, handed' \subseteq vault',
         HoldsVault(n) => handed' \subseteq n.copy,
         \A q \in Others(p) : handed' \subseteq run[q].copy,
         n.apart => /\ HasStored(n, vault')
                    /\ HoldsVault(n) => n.copy = vault' /\ Others(p) = {}
                    /\ \A q \in Others(p) : HasStored(n, run[q].copy),
         \A q \in Busy \ ({p} \cup met) : run[q].apart =>
           /\ HasStored(run[q], vault')
           /\ HoldsVault(run[q]) => vault' = vault /\ ~HoldsVault(n)
           /\ HoldsVault(n) => HasStored(run[q], n.copy),
         HandlesUnderTheirKindResolve'
  PROVE  IInv'
<1>0. Busy \subseteq Party
  BY DEF Busy
<1>1. /\ run' = [q \in Party |-> run'[q]] /\ run'[p] = n
      /\ \A q \in Party \ {p} : run'[q] =
           IF q \in met THEN [run[q] EXCEPT !.apart = FALSE] ELSE run[q]
  BY DEF Meet
<1>2. \A q \in Busy : Local(run[q]) /\ (HoldsVault(run[q]) => handed \subseteq run[q].copy)
  BY DEF IInv
<1>3. \A q \in Busy' : q \in Party /\ run'[q] # Nothing
  BY DEF Busy
<1>4. ASSUME NEW q \in Busy', q # p
      PROVE  /\ q \in Busy /\ Local(run'[q]) /\ run'[q].copy = run[q].copy
             /\ HoldsVault(run'[q]) = HoldsVault(run[q])
             /\ q \in met => run'[q].apart = FALSE
             /\ q \notin met => run'[q] = run[q]
  <2>1. CASE q \in met
    BY <1>1, <1>2, <1>3, <1>4, <2>1, MetIs
  <2>2. CASE q \notin met
    <3>1. run'[q] = run[q] /\ q \in Busy
      BY <1>1, <1>3, <1>4, <2>2 DEF Busy
    <3> QED
      BY <1>2, <2>2, <3>1
  <2> QED
    BY <2>1, <2>2
<1>5. \A o \in Others(p)' : o \in Others(p) /\ run'[o].copy = run[o].copy
  BY <1>4 DEF Others
<1>6. ASSUME NEW q \in Busy'
      PROVE  Local(run'[q]) /\ (HoldsVault(run'[q]) => handed' \subseteq run'[q].copy)
  <2>1. CASE q = p
    BY <1>1, <2>1
  <2>2. CASE q # p
    BY <1>4, <2>2 DEF Others
  <2> QED
    BY <2>1, <2>2
<1>7. ASSUME NEW q \in Busy', run'[q].apart
      PROVE  Apart(q)'
  <2>1. CASE q = p
    BY <1>1, <1>5, <1>7, <2>1 DEF Apart
  <2>2. CASE q # p
    <3>1. /\ q \in Busy \ ({p} \cup met) /\ run'[q] = run[q] /\ run[q].apart
      BY <1>4, <1>7, <2>2
    <3>2. Apart(q)
      BY <3>1 DEF IInv
    <3>3. /\ HasStored(run[q], vault')
          /\ HoldsVault(run[q]) => vault' = vault /\ ~HoldsVault(n)
          /\ HoldsVault(n) => HasStored(run[q], n.copy)
      BY <3>1
    <3>4. ASSUME NEW o \in Others(q)'
          PROVE  \/ o = p /\ HoldsVault(n)
                 \/ o \in Others(q) /\ run'[o].copy = run[o].copy
      BY <1>1, <1>4 DEF Others
    <3>5. \A o \in Others(q)' : HasStored(run'[q], run'[o].copy)
      BY <1>1, <3>1, <3>2, <3>3, <3>4 DEF Apart
    <3>6. HoldsVault(run[q]) => Others(q)' = {} /\ run[q].copy = vault'
      BY <3>2, <3>3, <3>4 DEF Apart
    <3> QED
      BY <3>1, <3>3, <3>5, <3>6 DEF Apart
  <2> QED
    BY <2>1, <2>2
<1> QED
  BY <1>1, <1>6, <1>7 DEF IInv

\* The same when no other party is met.
LEMMA AloneMoves ==
  ASSUME IInv, NEW p \in Party, NEW n, run' = [run EXCEPT ![p] = n]
  PROVE  Meet(p, n, {})
<1> QED
  BY DEF IInv, Meet

\* A command ends.
LEMMA SessionEnds ==
  ASSUME IInv, NEW p \in Busy, run' = [run EXCEPT ![p] = Nothing],
         env' \in Text \cup {Nothing}, UNCHANGED <<vault, handed, unresolved>>
  PROVE  IInv'
<1>0. p \in Party /\ Busy \subseteq Party
  BY DEF Busy
<1>1. /\ run' = [q \in Party |-> IF q = p THEN Nothing ELSE run[q]]
      /\ run'[p] = Nothing /\ \A q \in Party : q # p => run'[q] = run[q]
  BY <1>0 DEF IInv
<1>2. /\ Busy' \subseteq Busy /\ \A q \in Busy' : q # p /\ run'[q] = run[q]
      /\ run' = [q \in Party |-> run'[q]]
  BY <1>0, <1>1 DEF Busy
<1>3. /\ vault' \in SUBSET Entry /\ handed' \subseteq vault'
      /\ HandlesUnderTheirKindResolve'
  BY DEF IInv, HandlesUnderTheirKindResolve
<1>4. \A q \in Busy' :
        Local(run'[q]) /\ (HoldsVault(run'[q]) => handed' \subseteq run'[q].copy)
  BY <1>2 DEF IInv
<1>5. ASSUME NEW q \in Busy', run'[q].apart PROVE Apart(q)'
  <2>1. Apart(q) /\ run'[q] = run[q]
    BY <1>2, <1>5 DEF IInv
  <2>2. \A o \in Others(q)' : o \in Others(q) /\ run'[o] = run[o]
    BY <1>2 DEF Others
  <2> QED
    BY <2>1, <2>2 DEF Apart
<1> QED
  BY <1>2, <1>3, <1>4, <1>5 DEF IInv

LEMMA StoredAdvances ==
  ASSUME NEW r, NEW n, r.at \in Nat, n.script = r.script, n.at = r.at + 1, n.todo = {},
         NEW keys, NEW more, HasStored(r, keys), keys \subseteq more,
         r.script[r.at].do = "scan" =>
           Keys(r.script[r.at].prefix, r.script[r.at].text) \subseteq more
  PROVE  HasStored(n, more)
<1> SUFFICES ASSUME NEW j \in 1..Len(r.script), j < r.at + 1, r.script[j].do = "scan"
             PROVE  Keys(r.script[j].prefix, r.script[j].text) \subseteq more
  BY DEF HasStored
<1>1. CASE j = r.at
  BY <1>1
<1>2. CASE j < r.at
  BY <1>2 DEF HasStored
<1> QED
  BY <1>1, <1>2

LEMMA StoredInMore ==
  ASSUME NEW r, NEW keys, NEW more, HasStored(r, keys), keys \subseteq more
  PROVE  HasStored(r, more)
<1> QED
  BY DEF HasStored

\* The state of a command under way, as the actions find it.
LEMMA AtIs ==
  ASSUME IInv, NEW p, NEW do, At(p, do)
  PROVE  /\ p \in Busy /\ p \in Party /\ Local(run[p])
         /\ run[p].at \in 1..Len(run[p].script) /\ Doing(p) = run[p].script[run[p].at]
         /\ Doing(p).do = do /\ Doing(p) \in Element
         /\ do # "scan" => run[p].todo = {}
         /\ HoldsVault(run[p]) => handed \subseteq run[p].copy
         /\ run[p].apart => Apart(p)
<1>1. /\ p \in Busy /\ run[p].at <= Len(run[p].script) /\ Doing(p).do = do
      /\ Doing(p) = run[p].script[run[p].at]
  BY DEF At, Doing
<1>2. p \in Party /\ Local(run[p])
  BY <1>1 DEF IInv, Busy
<1>3. run[p].at \in 1..Len(run[p].script)
  BY <1>1, <1>2, SessionIs
<1>4. do # "scan" => run[p].todo = {}
  BY <1>1, <1>2 DEF Local
<1>5. /\ HoldsVault(run[p]) => handed \subseteq run[p].copy
      /\ run[p].apart => Apart(p)
  BY <1>1 DEF IInv
<1> QED
  BY <1>1, <1>2, <1>3, <1>4, <1>5, SessionIs

LEMMA NextStepIs ==
  ASSUME NEW p, Local(run[p])
  PROVE  /\ NextStep(p) \in Session /\ NextStep(p).script = run[p].script
         /\ NextStep(p).at = run[p].at + 1 /\ NextStep(p).todo = run[p].todo
         /\ NextStep(p).copy = run[p].copy /\ NextStep(p).apart = run[p].apart
<1> HIDE DEF Element
<1>1. run[p] \in Session
  BY DEF Local
<1> QED
  BY <1>1 DEF NextStep, Session

\* A script that scans or gives out never resolves or drops ...
LEMMA ScanningIs ==
  ASSUME NEW r, Local(r), r.at \in 1..Len(r.script),
         r.script[r.at].do \notin {"open", "resolve", "drop"},
         NEW n \in Session, n.script = r.script, n.todo = {}
  PROVE  ~HoldsVault(n)
<1>1. OpenedFirst(r.script) /\ Len(r.script) \in Nat /\ n.at \in Nat \ {0}
  BY SessionIs DEF Made, Session
<1>2. \A i \in 1..Len(r.script) : r.script[i].do \notin {"open", "resolve", "drop"}
  BY <1>1 DEF OpenedFirst
<1>3. n.at <= Len(n.script) => n.at \in 1..Len(r.script)
  BY <1>1
<1> QED
  BY <1>2, <1>3 DEF HoldsVault

\* ... and one that does never scans.
LEMMA UsingIs ==
  ASSUME NEW r, Local(r), r.at \in 1..Len(r.script),
         r.script[r.at].do \in {"open", "resolve", "drop"}
  PROVE  \A j \in 1..Len(r.script) : r.script[j].do # "scan"
<1>1. OpenedFirst(r.script)
  BY SessionIs DEF Made
<1> QED
  BY <1>1 DEF OpenedFirst

\* Other parties when one that holds no copy, or whose save they are apart from, moves.
LEMMA OthersStay ==
  ASSUME IInv, NEW p \in Busy, NEW q \in Busy \ {p}, run[q].apart
  PROVE  /\ HasStored(run[q], vault)
         /\ HoldsVault(run[p]) => ~HoldsVault(run[q]) /\ HasStored(run[q], run[p].copy)
<1>1. Apart(q)
  BY DEF IInv
<1>2. HoldsVault(run[p]) => p \in Others(q)
  BY DEF Others
<1> QED
  BY <1>1, <1>2 DEF Apart

LEMMA OthersHold ==
  ASSUME IInv, NEW p, NEW q \in Others(p)
  PROVE  q \in Busy \ {p} /\ HoldsVault(run[q]) /\ handed \subseteq run[q].copy
<1> QED
  BY DEF IInv, Others

\* A step that only may give out keys, which a command that is apart has stored.
LEMMA GivingStep ==
  ASSUME IInv, NEW p, NEW do \in {"give", "pass", "truncate", "write"}, At(p, do), Advance(p),
         env' \in Text \cup {Nothing}, vault' = vault, HandlesUnderTheirKindResolve',
         \/ handed' = handed
         \/ Gives(Doing(p)) /\ Give(p, Doing(p).keys)
  PROVE  IInv'
<1> DEFINE r == run[p]
           n == NextStep(p)
<1>1. /\ p \in Busy /\ p \in Party /\ Local(r) /\ r.at \in 1..Len(r.script)
      /\ Doing(p) = r.script[r.at] /\ Doing(p).do = do /\ r.todo = {}
      /\ r.apart => Apart(p)
  BY AtIs
<1>2. /\ n \in Session /\ n.script = r.script /\ n.at = r.at + 1 /\ n.todo = {}
      /\ n.copy = r.copy /\ n.apart = r.apart
  BY <1>1, NextStepIs
<1>3. Meet(p, n, {})
  BY <1>1, AloneMoves DEF Advance
<1>4. \A q \in Others(p) : q \in Busy /\ handed \subseteq run[q].copy
  BY OthersHold
<1>5. \A q \in Busy \ {p} : run[q].apart => HasStored(run[q], vault)
  BY <1>1, OthersStay
<1> HIDE DEF r, n
<1>6. Local(n) /\ ~HoldsVault(n)
  BY <1>1, <1>2, ScanningIs DEF Local
<1>7. ASSUME NEW keys, HasStored(r, keys)
      PROVE  HasStored(n, keys) /\ (Gives(Doing(p)) => Doing(p).keys \subseteq keys)
  <2>1. HasStored(n, keys)
    BY <1>1, <1>2, <1>7, SessionIs, StoredAdvances
  <2>2. ASSUME Gives(Doing(p)), NEW key \in Doing(p).keys PROVE key \in keys
    <3>1. GivenAfter({}, r.script)
      BY <1>1 DEF Local, Made
    <3>2. PICK j \in 1..Len(r.script) : j < r.at /\ ScanOf(r.script[j], key)
      BY <1>1, <2>2, <3>1 DEF GivenAfter
    <3> QED
      BY <1>7, <3>2 DEF HasStored, ScanOf
  <2> QED
    BY <2>1, <2>2
<1>8. r.apart => HasStored(r, vault) /\ \A q \in Others(p) : HasStored(r, run[q].copy)
  BY <1>1 DEF Apart, r
<1>9. handed' = handed \/ (r.apart /\ Gives(Doing(p)) /\ handed' = handed \cup Doing(p).keys)
  BY DEF Give, r
<1>10. vault \in SUBSET Entry /\ handed \subseteq vault
  BY DEF IInv
<1>11. handed' \subseteq vault /\ \A q \in Others(p) : handed' \subseteq run[q].copy
  BY <1>4, <1>7, <1>8, <1>9, <1>10
<1>12. n.apart => HasStored(n, vault) /\ \A q \in Others(p) : HasStored(n, run[q].copy)
  BY <1>2, <1>7, <1>8
<1> QED
  BY <1>1, <1>3, <1>5, <1>6, <1>10, <1>11, <1>12, SessionMoves

LEMMA GiveHandlesKeeps ==
  ASSUME IInv, NEW p \in Party, GiveHandles(p)
  PROVE  IInv'
<1>1. At(p, "give") /\ Gives(Doing(p)) /\ Give(p, Doing(p).keys) /\ Advance(p)
  BY AtIs DEF GiveHandles, Gives
<1>2. env' \in Text \cup {Nothing} /\ vault' = vault /\ HandlesUnderTheirKindResolve'
  BY DEF GiveHandles, IInv, HandlesUnderTheirKindResolve
<1> QED
  BY <1>1, <1>2, GivingStep

LEMMA PassMessageKeeps ==
  ASSUME IInv, NEW p \in Party, PassMessage(p)
  PROVE  IInv'
<1>1. At(p, "pass") /\ Gives(Doing(p)) /\ Give(p, Doing(p).keys) /\ Advance(p)
  BY AtIs DEF PassMessage, Gives
<1>2. env' \in Text \cup {Nothing} /\ vault' = vault /\ HandlesUnderTheirKindResolve'
  BY DEF PassMessage, IInv, HandlesUnderTheirKindResolve
<1> QED
  BY <1>1, <1>2, GivingStep

LEMMA TruncateEnvKeeps ==
  ASSUME IInv, NEW p \in Party, TruncateEnv(p)
  PROVE  IInv'
<1>1. At(p, "truncate") /\ handed' = handed /\ Advance(p)
  BY DEF TruncateEnv
<1>2. env' \in Text
  BY EmptySeq DEF TruncateEnv, Text
<1>3. vault' = vault /\ HandlesUnderTheirKindResolve'
  BY DEF TruncateEnv, IInv, HandlesUnderTheirKindResolve
<1> QED
  BY <1>1, <1>2, <1>3, GivingStep

LEMMA WriteEnvKeeps ==
  ASSUME IInv, NEW p \in Party, WriteEnv(p)
  PROVE  IInv'
<1>1. At(p, "write") /\ Gives(Doing(p)) /\ Give(p, Doing(p).keys) /\ Advance(p)
  BY AtIs DEF WriteEnv, Gives
<1>2. env' \in Text
  <2>1. Doing(p) \in Element /\ Doing(p).do = "write"
    BY <1>1, AtIs
  <2>2. Doing(p).text \in Text
    BY <2>1 DEF Element
  <2> QED
    BY <2>2 DEF WriteEnv
<1>3. vault' = vault /\ HandlesUnderTheirKindResolve'
  BY DEF WriteEnv, IInv, HandlesUnderTheirKindResolve
<1> QED
  BY <1>1, <1>2, <1>3, GivingStep

\* A party takes a copy of the file: the others that hold one are met, and what the rest
\* has stored is in the copy.
LEMMA TakingStep ==
  ASSUME IInv, NEW p \in Busy, NEW n, TakeCopy(p, n), Local(n), n.apart = run[p].apart,
         run[p].apart => HasStored(n, vault),
         UNCHANGED <<vault, env, handed, unresolved>>
  PROVE  IInv'
<1> DEFINE m == [n EXCEPT !.copy = vault, !.apart = @ /\ Others(p) = {}]
<1>1. p \in Party /\ vault \in SUBSET Entry /\ handed \subseteq vault
      /\ env \in Text \cup {Nothing}
  BY DEF IInv, Busy
<1>2. n \in Session /\ Meet(p, m, Others(p))
  BY DEF Local, TakeCopy
<1>3. /\ m \in Session /\ m.script = n.script /\ m.at = n.at /\ m.todo = n.todo
      /\ m.copy = vault
      /\ m.apart => run[p].apart /\ Others(p) = {}
  <2> HIDE DEF Element
  <2> QED
    BY <1>1, <1>2 DEF Session
<1> HIDE DEF m
<1>4. Local(m) /\ (HasStored(n, vault) => HasStored(m, vault))
  BY <1>3 DEF Local, HasStored
<1>5. \A q \in Others(p) : q \in Busy /\ handed \subseteq run[q].copy
  BY OthersHold
<1>6. ASSUME NEW q \in Busy \ ({p} \cup Others(p)), run[q].apart
      PROVE  HasStored(run[q], vault) /\ ~HoldsVault(run[q])
  BY <1>6, OthersStay DEF Others
<1>7. /\ HandlesUnderTheirKindResolve' /\ env' \in Text \cup {Nothing}
      /\ vault' = vault /\ handed' = handed /\ Others(p) \subseteq Busy
  BY <1>1 DEF IInv, HandlesUnderTheirKindResolve, Others
<1>8. m.apart => /\ HasStored(m, vault)
                 /\ HoldsVault(m) => m.copy = vault /\ Others(p) = {}
                 /\ \A q \in Others(p) : HasStored(m, run[q].copy)
  BY <1>3, <1>4
<1>9. \A q \in Busy \ ({p} \cup Others(p)) : run[q].apart =>
           /\ HasStored(run[q], vault)
           /\ HoldsVault(run[q]) => ~HoldsVault(m)
           /\ HoldsVault(m) => HasStored(run[q], m.copy)
  BY <1>3, <1>6
<1> QED
  BY <1>1, <1>2, <1>3, <1>4, <1>5, <1>7, <1>8, <1>9, SessionMoves

LEMMA OpenVaultKeeps ==
  ASSUME IInv, NEW p \in Party, OpenVault(p)
  PROVE  IInv'
<1> DEFINE r == run[p]
           n == NextStep(p)
<1>1. /\ At(p, "open") /\ TakeCopy(p, n) /\ UNCHANGED <<vault, env, left, handed, unresolved>>
  BY DEF OpenVault
<1>2. /\ p \in Busy /\ Local(r) /\ r.at \in 1..Len(r.script) /\ Doing(p) = r.script[r.at]
      /\ Doing(p).do = "open" /\ r.todo = {}
  BY <1>1, AtIs
<1>3. /\ n \in Session /\ n.script = r.script /\ n.at = r.at + 1 /\ n.todo = {}
      /\ n.apart = r.apart
  BY <1>2, NextStepIs
<1>4. Local(n) /\ HasStored(n, vault)
  <2> HIDE DEF r, n
  <2>1. Local(n)
    BY <1>2, <1>3 DEF Local
  <2> QED
    BY <1>2, <1>3, <2>1, UsingIs DEF HasStored
<1> HIDE DEF n
<1> QED
  BY <1>1, <1>2, <1>3, <1>4, TakingStep

LEMMA ScanKeeps ==
  ASSUME IInv, NEW p \in Party, Scan(p)
  PROVE  IInv'
<1> DEFINE r == run[p]
           e == Doing(p)
<1>1. /\ At(p, "scan") /\ r.todo = {} /\ UNCHANGED <<vault, env, left, handed, unresolved>>
      /\ IF Findings(e.text) = {} THEN Advance(p)
         ELSE TakeCopy(p, [r EXCEPT !.todo = Findings(e.text)])
  BY DEF Scan
<1>2. /\ p \in Busy /\ Local(r) /\ r.at \in 1..Len(r.script) /\ e = r.script[r.at]
      /\ e.do = "scan" /\ e \in Element
      /\ r.apart => Apart(p)
  BY <1>1, AtIs
<1>3. e.text \in Text /\ e.prefix \in Prefix
  BY <1>2 DEF Element
<1>4. vault \in SUBSET Entry /\ handed \subseteq vault /\ env \in Text \cup {Nothing}
  BY DEF IInv
<1>5. r.apart => HasStored(r, vault) /\ \A q \in Others(p) : HasStored(r, run[q].copy)
  BY <1>2 DEF Apart
<1>6. CASE Findings(e.text) = {}
  <2> DEFINE n == NextStep(p)
  <2>1. /\ n \in Session /\ n.script = r.script /\ n.at = r.at + 1 /\ n.todo = {}
        /\ n.copy = r.copy /\ n.apart = r.apart
    BY <1>1, <1>2, NextStepIs
  <2>2. Meet(p, n, {})
    BY <1>1, <1>6, AloneMoves DEF Advance
  <2>3. \A q \in Others(p) : q \in Busy /\ handed \subseteq run[q].copy
    BY OthersHold
  <2>4. \A q \in Busy \ {p} : run[q].apart => HasStored(run[q], vault)
    BY <1>2, OthersStay
  <2>5. HandlesUnderTheirKindResolve'
    BY <1>1 DEF IInv, HandlesUnderTheirKindResolve
  <2> HIDE DEF r, n
  <2>6. Local(n) /\ ~HoldsVault(n)
    BY <1>2, <2>1, ScanningIs DEF Local
  <2>7. ASSUME NEW keys, HasStored(r, keys) PROVE HasStored(n, keys)
    <3>1. Keys(e.prefix, e.text) = {}
      BY <1>6 DEF Keys
    <3> QED
      BY <1>2, <2>1, <2>7, <3>1, SessionIs, StoredAdvances
  <2>8. n.apart => HasStored(n, vault) /\ \A q \in Others(p) : HasStored(n, run[q].copy)
    BY <1>5, <2>1, <2>7
  <2> QED
    BY <1>1, <1>4, <2>2, <2>3, <2>4, <2>5, <2>6, <2>8, SessionMoves
<1>7. CASE Findings(e.text) # {}
  <2> DEFINE n == [r EXCEPT !.todo = Findings(e.text)]
  <2>1. /\ n \in Session /\ n.script = r.script /\ n.at = r.at /\ n.todo = Findings(e.text)
        /\ n.apart = r.apart
    <3>1. r \in Session /\ Findings(e.text) \in SUBSET Nat
      BY <1>2, <1>3, FindingsType DEF Local
    <3> HIDE DEF Element, r, e
    <3> QED
      BY <3>1 DEF Session
  <2>2. TakeCopy(p, n)
    BY <1>1, <1>7
  <2> HIDE DEF n
  <2>3. Local(n)
    <3> HIDE DEF r, e
    <3> QED
      BY <1>2, <2>1 DEF Local
  <2>4. r.apart => HasStored(n, vault)
    <3> HIDE DEF r, e
    <3> QED
      BY <1>2, <1>5, <2>1 DEF HasStored
  <2> QED
    BY <1>1, <1>2, <2>1, <2>2, <2>3, <2>4, TakingStep
<1> QED
  BY <1>6, <1>7

\* A party that holds the vault saves its copy, to which it may have added a key: it is
\* the only one to hold a copy, or it is not apart; those that are apart have what they
\* stored in its copy.
LEMMA SavingStep ==
  ASSUME IInv, NEW p \in Busy, HoldsVault(run[p]), NEW n, NEW met, Meet(p, n, met),
         met \subseteq Busy, Local(n), n.apart = run[p].apart,
         NEW saved \in SUBSET Entry, vault' = saved \/ vault' = vault,
         handed' \subseteq handed, handed' \subseteq saved,
         HoldsVault(n) => n.copy = saved, run[p].apart => vault' = saved /\ HasStored(n, vault'),
         \A q \in Busy \ ({p} \cup met) : run[q].apart => HasStored(run[q], saved),
         env' = env, HandlesUnderTheirKindResolve'
  PROVE  IInv'
<1>1. /\ p \in Party /\ vault \in SUBSET Entry /\ handed \subseteq vault
      /\ env \in Text \cup {Nothing}
  BY DEF IInv, Busy
<1>2. \A q \in Others(p) : q \in Busy /\ handed \subseteq run[q].copy
  BY OthersHold
<1>3. run[p].apart => Others(p) = {}
  BY DEF IInv, Apart
<1>4. \A q \in Busy \ ({p} \cup met) : run[q].apart =>
        HasStored(run[q], vault') /\ ~HoldsVault(run[q])
  BY OthersStay
<1>5. vault' \in SUBSET Entry /\ handed' \subseteq vault'
  BY <1>1
<1>6. n.apart => /\ HasStored(n, vault')
                 /\ HoldsVault(n) => n.copy = vault' /\ Others(p) = {}
                 /\ \A q \in Others(p) : HasStored(n, run[q].copy)
  BY <1>3
<1>7. \A q \in Others(p) : handed' \subseteq run[q].copy
  BY <1>2
<1>8. \A q \in Busy \ ({p} \cup met) : run[q].apart =>
           /\ HasStored(run[q], vault')
           /\ HoldsVault(run[q]) => vault' = vault /\ ~HoldsVault(n)
           /\ HoldsVault(n) => HasStored(run[q], n.copy)
  BY <1>4
<1> QED
  BY <1>1, <1>5, <1>6, <1>7, <1>8, SessionMoves

LEMMA StoreKeeps ==
  ASSUME IInv, NEW p \in Party, Store(p)
  PROVE  IInv'
<1> DEFINE r == run[p]
           e == Doing(p)
<1>1. /\ At(p, "scan") /\ UNCHANGED <<env, left, handed, unresolved>>
      /\ \E i \in r.todo :
           /\ vault' = IF KeyAt(e, i) \in r.copy THEN vault ELSE r.copy \cup {KeyAt(e, i)}
           /\ run' = [run EXCEPT ![p] = Stored(p, i, r.copy \cup {KeyAt(e, i)})]
  BY DEF Store, KeyAt
<1>2. PICK i \in r.todo :
        /\ vault' = IF KeyAt(e, i) \in r.copy THEN vault ELSE r.copy \cup {KeyAt(e, i)}
        /\ run' = [run EXCEPT ![p] = Stored(p, i, r.copy \cup {KeyAt(e, i)})]
  BY <1>1
<1> DEFINE key == KeyAt(e, i)
           copy == r.copy \cup {key}
           n == Stored(p, i, copy)
<1>3. /\ p \in Busy /\ Local(r) /\ r.at \in 1..Len(r.script) /\ e = r.script[r.at]
      /\ e.do = "scan" /\ e \in Element
      /\ HoldsVault(r) => handed \subseteq r.copy
      /\ r.apart => Apart(p)
  BY <1>1, AtIs
<1>4. e.text \in Text /\ e.prefix \in Prefix
  BY <1>3 DEF Element
<1>5. /\ r.todo # {} /\ r.todo \subseteq Findings(e.text) /\ r.todo \in SUBSET Nat
      /\ HoldsVault(r) /\ r.copy \in SUBSET Entry /\ r \in Session
  BY <1>2, <1>3, SessionIs DEF Local, HoldsVault
<1>6. key \in Entry
  BY <1>4, <1>5, FindingsType DEF Entry, KeyAt
<1>7. HandlesUnderTheirKindResolve'
  BY <1>1 DEF IInv, HandlesUnderTheirKindResolve
<1>8. r.apart => r.copy = vault /\ HasStored(r, vault)
  BY <1>3, <1>5 DEF Apart
<1>9. /\ copy \in SUBSET Entry /\ handed \subseteq copy /\ (vault' = copy \/ vault' = vault)
      /\ r.apart => vault \subseteq vault' /\ key \in vault' /\ vault' = copy
  <2> HIDE DEF key, r
  <2> QED
    BY <1>2, <1>3, <1>5, <1>6, <1>8 DEF key
<1>10. n.apart = r.apart /\ n.script = r.script /\ n \in Session
       /\ IF r.todo = {i} THEN n.at = r.at + 1 /\ n.todo = {} /\ n.copy = {}
          ELSE n.at = r.at /\ n.todo = r.todo \ {i} /\ n.copy = copy
  <2>1. CASE r.todo = {i}
    <3>1. n = [NextStep(p) EXCEPT !.copy = {}, !.todo = {}]
      BY <2>1 DEF Stored
    <3>2. /\ NextStep(p) \in Session /\ NextStep(p).script = r.script
          /\ NextStep(p).at = r.at + 1 /\ NextStep(p).apart = r.apart
      BY <1>3, NextStepIs
    <3> HIDE DEF Element, n, r
    <3> QED
      BY <2>1, <3>1, <3>2 DEF Session
  <2>2. CASE r.todo # {i}
    <3>1. n = [r EXCEPT !.copy = copy, !.todo = @ \ {i}]
      BY <2>2 DEF Stored
    <3> HIDE DEF Element, n, r, copy
    <3> QED
      BY <1>5, <1>9, <2>2, <3>1 DEF Session
  <2> QED
    BY <2>1, <2>2
<1>11. Meet(p, n, {})
  BY <1>2, AloneMoves
<1>12. \A q \in Busy \ {p} : run[q].apart => HasStored(run[q], r.copy)
  BY <1>3, <1>5, OthersStay
<1>13. \A q \in Busy \ {p} : run[q].apart => HasStored(run[q], copy)
  BY <1>12, StoredInMore
<1> HIDE DEF r, n, e, copy
<1>14. ASSUME r.apart, NEW j \in Findings(e.text), j \notin r.todo \ {i}
       PROVE  KeyAt(e, j) \in vault'
  <2>1. CASE j = i
    BY <1>9, <1>14, <2>1 DEF e
  <2>2. CASE j \notin r.todo
    BY <1>3, <1>5, <1>8, <1>9, <1>14, <2>2 DEF HasStored
  <2> QED
    BY <1>14, <2>1, <2>2
<1>15. Local(n) /\ (HoldsVault(n) => n.copy = copy)
  <2>1. CASE r.todo = {i}
    BY <1>3, <1>10, <2>1, ScanningIs DEF Local
  <2>2. CASE r.todo # {i}
    BY <1>3, <1>5, <1>10, <2>2 DEF Local
  <2> QED
    BY <2>1, <2>2
<1>16. ASSUME r.apart PROVE HasStored(n, vault')
  <2>1. CASE r.todo = {i}
    <3>1. Keys(e.prefix, e.text) \subseteq vault'
      BY <1>14, <1>16, <2>1 DEF Keys, KeyAt
    <3> QED
      BY <1>3, <1>8, <1>9, <1>10, <1>16, <2>1, <3>1, SessionIs, StoredAdvances
  <2>2. CASE r.todo # {i}
    <3>1. \A j \in Findings(e.text) : j \in n.todo \/ KeyAt(e, j) \in vault'
      BY <1>10, <1>14, <1>16, <2>2
    <3> QED
      BY <1>3, <1>8, <1>9, <1>10, <1>16, <2>2, <3>1 DEF HasStored
  <2> QED
    BY <2>1, <2>2
<1>17. /\ HoldsVault(run[p]) /\ n.apart = run[p].apart
       /\ run[p].apart => vault' = copy /\ HasStored(n, vault')
  BY <1>5, <1>9, <1>10, <1>16 DEF r
<1>18. handed' = handed /\ env' = env
  BY <1>1
<1> QED
  BY <1>3, <1>7, <1>9, <1>11, <1>13, <1>15, <1>17, <1>18, SavingStep

\* What a command that uses its copy of the vault has of it.
LEMMA UsesIs ==
  ASSUME IInv, NEW p, NEW do \in {"resolve", "drop"}, At(p, do)
  PROVE  /\ HoldsVault(run[p]) /\ handed \subseteq run[p].copy
         /\ run[p].copy \in SUBSET Entry /\ (run[p].apart => run[p].copy = vault)
         /\ Local(NextStep(p)) /\ NextStep(p).copy = run[p].copy
         /\ NextStep(p).apart = run[p].apart /\ NextStep(p).todo = {}
         /\ \A j \in 1..Len(NextStep(p).script) : NextStep(p).script[j].do # "scan"
<1> DEFINE r == run[p]
           n == NextStep(p)
<1>1. /\ Local(r) /\ r.at \in 1..Len(r.script) /\ r.script[r.at].do = do /\ r.todo = {}
      /\ HoldsVault(r) => handed \subseteq r.copy
      /\ r.apart => Apart(p)
  BY AtIs
<1>2. HoldsVault(r)
  BY <1>1 DEF HoldsVault
<1>3. r.apart => r.copy = vault
  BY <1>1, <1>2 DEF Apart
<1>4. /\ n \in Session /\ n.script = r.script /\ n.copy = r.copy /\ n.todo = {}
      /\ n.apart = r.apart
  BY <1>1, NextStepIs
<1> HIDE DEF r, n
<1>5. Local(n) /\ \A j \in 1..Len(n.script) : n.script[j].do # "scan"
  BY <1>1, <1>4, UsingIs DEF Local
<1> QED
  BY <1>1, <1>2, <1>3, <1>4, <1>5, SessionIs DEF r, n

LEMMA DropKeeps ==
  ASSUME IInv, NEW p \in Party, Drop(p)
  PROVE  IInv'
<1> DEFINE key == Doing(p).of
           copy == run[p].copy \ {key}
           n == [NextStep(p) EXCEPT !.copy = copy]
           met == {q \in Busy : Scans(q, key)}
<1>1. /\ At(p, "drop") /\ Meet(p, n, met) /\ vault' = copy
      /\ handed' = handed \ {key} /\ UNCHANGED <<env, left, unresolved>>
  BY DEF Drop
<1>2. /\ HoldsVault(run[p]) /\ handed \subseteq run[p].copy
      /\ run[p].copy \in SUBSET Entry
      /\ Local(NextStep(p)) /\ NextStep(p).apart = run[p].apart /\ NextStep(p).todo = {}
      /\ \A j \in 1..Len(NextStep(p).script) : NextStep(p).script[j].do # "scan"
  BY <1>1, UsesIs
<1>3. p \in Busy
  BY <1>1, AtIs
<1>4. copy \in SUBSET Entry /\ handed' \subseteq copy /\ handed' \subseteq handed
  BY <1>1, <1>2
<1>5. /\ n \in Session /\ n.script = NextStep(p).script /\ n.at = NextStep(p).at
      /\ n.todo = {} /\ n.copy = copy /\ n.apart = run[p].apart
  <2>1. NextStep(p) \in Session
    BY <1>2 DEF Local
  <2> HIDE DEF Element, copy
  <2> QED
    BY <1>2, <1>4, <2>1 DEF Session
<1> HIDE DEF n
<1>6. Local(n) /\ HasStored(n, vault')
  BY <1>2, <1>5 DEF Local, HasStored
<1>7. ASSUME NEW q \in Busy \ ({p} \cup met), run[q].apart
      PROVE  HasStored(run[q], copy)
  <2>1. /\ HasStored(run[q], run[p].copy) /\ ~HoldsVault(run[q]) /\ Local(run[q])
    BY <1>2, <1>3, <1>7, OthersStay DEF IInv
  <2>2. run[q].todo = {}
    BY <2>1 DEF HoldsVault
  <2>3. DOMAIN run[q].script = 1..Len(run[q].script)
    BY <2>1, SessionIs
  <2>4. \A j \in 1..Len(run[q].script) : run[q].script[j].do = "scan" =>
          key \notin Keys(run[q].script[j].prefix, run[q].script[j].text)
    BY <1>7, <2>3 DEF Scans
  <2> HIDE DEF key
  <2> QED
    BY <2>1, <2>2, <2>4 DEF HasStored
<1>8. HandlesUnderTheirKindResolve'
  BY <1>1 DEF IInv, HandlesUnderTheirKindResolve
<1> HIDE DEF copy, met
<1>9. met \subseteq Busy
  BY DEF met
<1> QED
  BY <1>1, <1>2, <1>3, <1>4, <1>5, <1>6, <1>7, <1>8, <1>9, SavingStep

\* A copy finds the key of every handle it has under the kind its name begins with.
LEMMA MatchingFinds ==
  ASSUME NEW key \in Entry, key.prefix = key.of.kind, NEW keys, key \in keys
  PROVE  Matching([to |-> key.of], keys) # {}
<1>1. key.of \in Secret /\ key.of.kind \in Kind
  BY DEF Entry, Secret
<1>2. key.prefix \notin {"proxy/request", "proxy/response"}
  BY <1>1, PieceAssumption
<1>3. KeyKind(key) = key.of.kind
  BY <1>2 DEF KeyKind
<1>4. key \in Matching([to |-> key.of], keys)
  BY <1>3 DEF Matching
<1> QED
  BY <1>4

LEMMA ResolveKeeps ==
  ASSUME IInv, NEW p \in Party, Resolve(p)
  PROVE  IInv'
<1> DEFINE r == run[p]
           n == NextStep(p)
           piece == Doing(p).piece
           found == Matching(piece, r.copy) # {}
<1>1. /\ At(p, "resolve") /\ Advance(p) /\ UNCHANGED <<env, left, handed>>
      /\ vault' = (IF found THEN r.copy ELSE vault)
      /\ unresolved' = unresolved
           \cup (IF found THEN {} ELSE {key \in handed : piece = [to |-> key.of]})
  BY DEF Resolve
<1>2. /\ HoldsVault(r) /\ handed \subseteq r.copy /\ r.copy \in SUBSET Entry
      /\ r.apart => r.copy = vault
      /\ Local(n) /\ n.copy = r.copy /\ n.apart = r.apart /\ n.todo = {}
      /\ \A j \in 1..Len(n.script) : n.script[j].do # "scan"
  BY <1>1, UsesIs
<1>3. p \in Busy /\ Meet(p, n, {})
  BY <1>1, AtIs, AloneMoves DEF Advance
<1>4. \A q \in Busy \ {p} : run[q].apart => HasStored(run[q], r.copy)
  BY <1>2, <1>3, OthersStay
<1>5. HandlesUnderTheirKindResolve'
  <2>1. ASSUME NEW key \in handed, ~found, piece = [to |-> key.of]
        PROVE  key.prefix # key.of.kind
    <3>1. key \in Entry /\ key \in r.copy
      BY <1>2
    <3> QED
      BY <2>1, <3>1, MatchingFinds
  <2> HIDE DEF found, piece
  <2> QED
    BY <1>1, <2>1 DEF IInv, HandlesUnderTheirKindResolve
<1> HIDE DEF n, found
<1>6. HasStored(n, vault')
  BY <1>2 DEF HasStored
<1>7. (vault' = r.copy \/ vault' = vault) /\ (r.apart => vault' = r.copy)
  BY <1>1, <1>2
<1>8. /\ handed' \subseteq handed /\ handed' \subseteq r.copy /\ env' = env
      /\ r.apart => vault' = r.copy /\ HasStored(n, vault')
  BY <1>1, <1>2, <1>6, <1>7
<1> QED
  BY <1>2, <1>3, <1>4, <1>5, <1>7, <1>8, SavingStep

LEMMA FinishKeeps ==
  ASSUME IInv, NEW p \in Party, Finish(p)
  PROVE  IInv'
<1> QED
  BY SessionEnds DEF Finish, IInv

\* What a write that was cut left of a text is a text.
LEMMA StopsKeeps ==
  ASSUME IInv, NEW p \in Party, Stops(p)
  PROVE  IInv'
<1>1. p \in Busy /\ run' = [run EXCEPT ![p] = Nothing] /\ UNCHANGED <<vault, left, handed, unresolved>>
  BY DEF Stops
<1>2. env' \in Text \cup {Nothing}
  <2>1. CASE UNCHANGED env
    BY <2>1 DEF IInv
  <2>2. CASE At(p, "write") /\ \E n \in 1..(Len(Doing(p).text) - 1) : env' = SubSeq(Doing(p).text, 1, n)
    <3>1. Doing(p) \in Element /\ Doing(p).do = "write"
      BY <2>2, AtIs
    <3>2. Doing(p).text \in Text
      BY <3>1 DEF Element
    <3>3. PICK n \in 1..(Len(Doing(p).text) - 1) : env' = SubSeq(Doing(p).text, 1, n)
      BY <2>2
    <3>4. Len(Doing(p).text) \in Nat
      BY <3>2, TextIs
    <3>5. 1 \in 1..Len(Doing(p).text) + 1 /\ n \in 0..Len(Doing(p).text)
      BY <3>3, <3>4
    <3>6. SubSeq(Doing(p).text, 1, n) \in Seq(Piece)
      BY <3>2, <3>4, <3>5, SubSeqProperties DEF Text
    <3> QED
      BY <3>3, <3>6 DEF Text
  <2> QED
    BY <2>1, <2>2 DEF Stops
<1> QED
  BY <1>1, <1>2, SessionEnds

LEMMA BeginKeeps ==
  ASSUME IInv, NEW p \in Party, NEW cmd \in Offers[p], Begin(p, cmd)
  PROVE  IInv'
<1> DEFINE n == [script |-> Script(cmd), at |-> 1, todo |-> {}, copy |-> {}, apart |-> TRUE]
<1>1. /\ p \notin Busy /\ (cmd.op = "env run" => env # Nothing)
      /\ run' = [run EXCEPT ![p] = n]
      /\ UNCHANGED <<vault, env, handed, unresolved>>
  BY DEF Begin
<1>2. Made(Script(cmd))
  <2>1. cmd \in Command
    BY OffersAssumption
  <2> QED
    BY <1>1, <2>1, ScriptIsMade DEF IInv
<1>3. Meet(p, n, {})
  BY <1>1, AloneMoves
<1>4. /\ n.script = Script(cmd) /\ n.at = 1 /\ n.todo = {} /\ n.copy = {} /\ n \in Session
  <2>1. Script(cmd) \in Seq(Element)
    BY <1>2 DEF Made
  <2> DEFINE script == Script(cmd)
  <2> HIDE DEF Element, script
  <2> QED
    BY <2>1 DEF Session, script
<1> HIDE DEF n
<1>5. Local(n) /\ ~HoldsVault(n) /\ \A keys : HasStored(n, keys)
  <2>1. Local(n)
    BY <1>2, <1>4 DEF Local
  <2>2. OpenedFirst(n.script) /\ Len(n.script) \in Nat
    BY <2>1, SessionIs DEF Made
  <2>3. ~HoldsVault(n)
    BY <1>4, <2>2 DEF HoldsVault, OpenedFirst
  <2> QED
    BY <1>4, <2>1, <2>3 DEF HasStored
<1>6. \A q \in Others(p) : q \in Busy /\ handed \subseteq run[q].copy
  BY OthersHold
<1>7. \A q \in Busy : run[q].apart => HasStored(run[q], vault)
  BY DEF IInv, Apart
<1>8. /\ vault' = vault /\ handed' = handed /\ vault \in SUBSET Entry /\ handed \subseteq vault
      /\ env' \in Text \cup {Nothing} /\ HandlesUnderTheirKindResolve'
  BY <1>1 DEF IInv, HandlesUnderTheirKindResolve
<1> QED
  BY <1>3, <1>5, <1>6, <1>7, <1>8, SessionMoves

LEMMA StutterKeeps ==
  ASSUME IInv, UNCHANGED vars
  PROVE  IInv'
<1>1. UNCHANGED <<vault, env, run, left, handed, unresolved>> /\ Busy' = Busy
  BY DEF vars, Busy
<1>2. \A p \in Busy : Others(p)' = Others(p)
  BY <1>1 DEF Others
<1>3. \A p \in Busy : Apart(p) => Apart(p)'
  BY <1>1, <1>2 DEF Apart
<1> QED
  BY <1>1, <1>3 DEF IInv, HandlesUnderTheirKindResolve

LEMMA NextKeeps ==
  ASSUME IInv, [Next]_vars
  PROVE  IInv'
<1>1. CASE UNCHANGED vars
  BY <1>1, StutterKeeps
<1>2. ASSUME NEW p \in Party, Step(p) PROVE IInv'
  BY <1>2, OpenVaultKeeps, ScanKeeps, StoreKeeps, GiveHandlesKeeps, PassMessageKeeps,
     TruncateEnvKeeps, WriteEnvKeeps, ResolveKeeps, DropKeeps, FinishKeeps DEF Step
<1>3. ASSUME NEW p \in Party, Stops(p) PROVE IInv'
  BY <1>3, StopsKeeps
<1>4. ASSUME NEW p \in Party, NEW cmd \in Offers[p], Begin(p, cmd) PROVE IInv'
  BY <1>4, BeginKeeps
<1> QED
  BY <1>1, <1>2, <1>3, <1>4 DEF Next

LEMMA AlwaysIInv ==
  Spec => []IInv
<1>1. Init => IInv
  BY InitHolds
<1>2. IInv /\ [Next]_vars => IInv'
  BY NextKeeps
<1> QED
  BY <1>1, <1>2, PTL DEF Spec

-----------------------------------------------------------------------------

\* Store before give, in seal, hook, pipe, run, env seal and the proxy: a handle that a
\* command gave out, no other having held the vault while it did, has its key in the vault
\* file, and in every copy of it that some command may still save.
THEOREM HandlesAlwaysKept ==
  Spec => []HandlesAreKept
<1>1. IInv => HandlesAreKept
  BY DEF IInv, HandlesAreKept
<1> QED
  BY <1>1, AlwaysIInv, PTL

\* relay_http rewrites the message or leaves it: with a content type it leaves sealed, or
\* as it came.
THEOREM AlwaysSealedOrUntouched ==
  Spec => []SealedOrUntouched
<1>1. ASSUME IInv, NEW p \in Busy, At(p, "pass") PROVE Clean(Doing(p))
  <2>1. /\ Made(run[p].script) /\ run[p].at \in 1..Len(run[p].script)
        /\ Doing(p) = run[p].script[run[p].at] /\ Doing(p).do = "pass"
    BY <1>1, AtIs, SessionIs
  <2> QED
    BY <2>1 DEF Made, PassesClean
<1>2. IInv => SealedOrUntouched
  BY <1>1 DEF SealedOrUntouched, Clean
<1> QED
  BY <1>2, AlwaysIInv, PTL

\* resolve_handle: a handle that env run passes on as it was is one whose key was stored
\* under a name that does not begin with the kind of its secret.
THEOREM UnresolvedAreElsewhere ==
  Spec => []HandlesUnderTheirKindResolve
<1>1. IInv => HandlesUnderTheirKindResolve
  BY DEF IInv
<1> QED
  BY <1>1, AlwaysIInv, PTL
=============================================================================
