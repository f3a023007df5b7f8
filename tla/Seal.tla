-------------------------------- MODULE Seal --------------------------------
(***************************************************************************)
(* seal_text of lockrail-protocol/src/seal.rs: seven scanners look for     *)
(* secrets in a text, normalize_findings drops overlapping findings, those *)
(* that remain are sealed or not by their confidence, and the sealed ones  *)
(* are replaced by handles.                                                *)
(*                                                                         *)
(* A text is a sequence of lexemes, the stretches the scanners tell apart; *)
(* "x" is one long and random enough for the length and entropy thresholds *)
(* of all scanners, the others are too short for any.  A position is a     *)
(* lexeme, so byte offsets inside a character do not occur.                *)
(***************************************************************************)
EXTENDS Integers, FiniteSets, Sequences

CONSTANTS
  Texts,    \* the inputs
  Modes,    \* the SealOptions in use
  Window    \* how many lexemes the 48 bytes of context stand for

Lexeme == {"x",        \* a long random stretch
           "prefix",   \* ghp_, sk-proj-, ...
           "bearer",   \* the word, before its space
           "jwt",      \* eyJ and three dotted parts
           "begin",    \* -----BEGIN, before its space
           "end",      \* from -----END to the closing dashes
           "scheme",   \* postgres, ... before its colon
           "key",      \* api_key, password, ...: also a word of context
           "w",        \* a short word
           "=", ":", " ", "nl", "@", "#", "\\", "quote", "single"}

ASSUME SealAssumption ==
  /\ Texts \subseteq Seq(Lexeme)
  /\ Modes \subseteq [aggressive: BOOLEAN, protection: BOOLEAN]
  /\ Window \in Nat

\* is_token_char
TokenChars == {"x", "prefix", "bearer", "jwt", "begin", "scheme", "key", "w", "=", ":"}
Blank == " "
Quotes == {"quote", "single"}
Separators == {"=", ":", Blank, "nl"}

\* where the run of characters of a class that starts at i ends
RunEnd(t, i, class) ==
  CHOOSE e \in i..(Len(t) + 1) :
    /\ \A j \in i..(e - 1) : t[j] \in class
    /\ e <= Len(t) => t[e] \notin class

FirstFrom(t, i, class) ==   \* find: the first of a class at i or later, or the end
  RunEnd(t, i, Lexeme \ class)

Long(t, from, to) == \E j \in from..(to - 1) : t[j] \in {"x", "jwt"}

\* The matches a scanner takes: it goes from left to right and after a match at
\* i goes on at resume[i].
Hits(matches, resume, len) ==
  LET offset[i \in 0..len] ==
        IF i = 0 THEN 1
        ELSE IF i \in matches /\ offset[i - 1] <= i THEN resume[i] ELSE offset[i - 1]
  IN {i \in matches : offset[i - 1] <= i}

Finding(by, from, to, confidence) ==
  [by |-> by, from |-> from, to |-> to, confidence |-> confidence]

Positions(t, lexeme) == {i \in 1..Len(t) : t[i] = lexeme}
Followed(t, lexeme, by) ==   \* where lexeme stands before by
  {i \in Positions(t, lexeme) : i < Len(t) /\ t[i + 1] = by}

\* scan_prefixed
Prefixed(t) ==
  LET to == [i \in 1..Len(t) |-> RunEnd(t, i, TokenChars)] IN
  {Finding("prefixed", i, to[i], "high") :
     i \in {h \in Hits(Positions(t, "prefix"), to, Len(t)) : Long(t, h, to[h])}}

\* scan_bearer: the value begins after the space, at i + 2
BearerEnd(t, i) == RunEnd(t, i + 2, TokenChars)
BearerHits(t) ==
  LET resume == [i \in Followed(t, "bearer", Blank) |->
        IF BearerEnd(t, i) > i + 3 THEN BearerEnd(t, i) ELSE i + 3]
  IN Hits(Followed(t, "bearer", Blank), resume, Len(t))
Bearer(t) ==
  {Finding("bearer", i + 2, BearerEnd(t, i), "high") :
     i \in {h \in BearerHits(t) : Long(t, h + 2, BearerEnd(t, h))}}

\* after a "bearer " that ends the text scan_bearer slices beyond the text
Overruns(t) == \E i \in BearerHits(t) : i + 2 > Len(t)

\* scan_jwt: of the token characters = and : end the run; exactly two dots
Jwt(t) ==
  LET to == [i \in 1..Len(t) |-> RunEnd(t, i, TokenChars \ {"=", ":"})] IN
  {Finding("jwt", i, to[i], "medium") :
     i \in {h \in Hits(Positions(t, "jwt"), to, Len(t)) :
              Cardinality(Positions(t, "jwt") \cap h..(to[h] - 1)) = 1}}

\* scan_private_key_blocks
Block(t) ==
  LET close == [i \in 1..Len(t) |-> FirstFrom(t, i, {"end"}) + 1]
      resume == [i \in 1..Len(t) |-> IF close[i] <= Len(t) + 1 THEN close[i] ELSE i + 1] IN
  {Finding("block", i, close[i], "high") :
     i \in {h \in Hits(Followed(t, "begin", Blank), resume, Len(t)) : close[h] <= Len(t) + 1}}

\* scan_database_urls: only those that carry credentials
Url(t) ==
  LET to == [i \in 1..Len(t) |-> FirstFrom(t, i, {Blank, "nl"} \cup Quotes)] IN
  {Finding("url", i, to[i], "high") :
     i \in {h \in Hits(Followed(t, "scheme", ":"), to, Len(t)) :
              /\ Long(t, h, to[h])
              /\ Positions(t, "@") \cap h..(to[h] - 1) # {}}}

AssignmentAtSeparator(t) ==   \* faulty: of several separators only the first is skipped
  LET from(i) == FirstFrom(t, i, Separators) + 1
      to(i) == RunEnd(t, from(i), TokenChars) IN
  {Finding("assignment", from(i), to(i), "high") :
     i \in {k \in Positions(t, "key") :
              FirstFrom(t, k, Separators) < Len(t) /\ Long(t, from(k), to(k))}}

\* scan_assignment: the separator may stand anywhere after the key, the value anywhere
\* after the separators, on the next line too
Assignment(t) ==
  LET from(i) == RunEnd(t, FirstFrom(t, i, Separators), Separators \cup Quotes)
      to(i) == RunEnd(t, from(i), TokenChars) IN
  {Finding("assignment", from(i), to(i), "high") :
     i \in {k \in Positions(t, "key") :
              FirstFrom(t, k, Separators) <= Len(t) /\ Long(t, from(k), to(k))}}

\* scan_generic_entropy and context_suggests_secret: whole runs
Entropy(t) ==
  {Finding("entropy", i, RunEnd(t, i, TokenChars), "low") :
     i \in {j \in 1..Len(t) :
              /\ t[j] \in TokenChars
              /\ j > 1 => t[j - 1] \notin TokenChars
              /\ Long(t, j, RunEnd(t, j, TokenChars))
              /\ \E k \in 1..(j - 1) : k >= j - Window /\ t[k] \in {"key", "bearer"}}}

\* what scan_text has before it normalizes
Findings(t) ==
  Prefixed(t) \cup Bearer(t) \cup Jwt(t) \cup Block(t) \cup Url(t)
    \cup Assignment(t) \cup Entropy(t)

ShouldSeal(confidence, options) ==
  \/ confidence = "high"
  \/ confidence = "medium" /\ options.protection
  \/ confidence = "low" /\ options.aggressive

Rank(by) ==   \* the scanners in the order of scan_text
  CASE by = "prefixed" -> 1 [] by = "bearer" -> 2 [] by = "jwt" -> 3 [] by = "block" -> 4
    [] by = "url" -> 5 [] by = "assignment" -> 6 [] by = "entropy" -> 7

\* sort_by_key((start, end)), which is stable
Before(f, g) ==
  \/ f.from < g.from
  \/ f.from = g.from /\ f.to < g.to
  \/ f.from = g.from /\ f.to = g.to /\ Rank(f.by) <= Rank(g.by)
FirstOf(findings) == CHOOSE f \in findings : \A g \in findings : Before(f, g)
LastOf(findings) == CHOOSE f \in findings : \A g \in findings : Before(g, f)

-----------------------------------------------------------------------------
VARIABLES
  text, mode,   \* the arguments
  pc,
  rest,         \* findings that normalize_findings has not looked at yet
  clean,        \* the findings it keeps, in that order; then those still to be replaced
  pieces        \* the output: stretches of the text, copied or replaced by a handle

sealVars == <<text, mode, pc, rest, clean, pieces>>

SealInit ==
  /\ text \in Texts /\ mode \in Modes
  /\ pc = "scan" /\ rest = {} /\ clean = {} /\ pieces = <<>>

\* scan_text up to normalize_findings; the slice out of range is a panic
Scan ==
  /\ pc = "scan"
  /\ IF Overruns(text) THEN pc' = "panicked" /\ UNCHANGED rest
                       ELSE pc' = "normalize" /\ rest' = Findings(text)
  /\ UNCHANGED <<text, mode, clean, pieces>>

Size(f) == f.to - f.from

KeptAppended(f, kept) ==   \* faulty: the longer finding does not replace the one before
  IF kept # {} /\ f.from < LastOf(kept).to /\ Size(f) <= Size(LastOf(kept))
  THEN kept ELSE kept \cup {f}

KeptShorter(f, kept) ==   \* faulty: the shorter of two overlapping findings stays
  IF kept = {} \/ f.from >= LastOf(kept).to THEN kept \cup {f}
  ELSE IF Size(f) < Size(LastOf(kept)) THEN (kept \ {LastOf(kept)}) \cup {f} ELSE kept

\* normalize_findings, one finding: of two that overlap the longer stays, and of
\* two of one length the first
Kept(f, kept) ==
  IF kept = {} \/ f.from >= LastOf(kept).to THEN kept \cup {f}
  ELSE IF Size(f) > Size(LastOf(kept)) THEN (kept \ {LastOf(kept)}) \cup {f} ELSE kept

Normalize ==
  /\ pc = "normalize" /\ rest # {}
  /\ rest' = rest \ {FirstOf(rest)}
  /\ clean' = Kept(FirstOf(rest), clean)
  /\ UNCHANGED <<text, mode, pc, pieces>>

\* seal_text's filter
Filter ==
  /\ pc = "normalize" /\ rest = {}
  /\ clean' = {f \in clean : ShouldSeal(f.confidence, mode)}
  /\ pc' = "replace"
  /\ UNCHANGED <<text, mode, rest, pieces>>

Cursor == IF pieces = <<>> THEN 1 ELSE pieces[Len(pieces)].to
Piece(from, to, sealed) == [from |-> from, to |-> to, sealed |-> sealed]

HandleOnly(f) ==   \* faulty: the text before the finding is not copied
  << Piece(f.from, f.to, TRUE) >>

\* replace_with_handles, one finding: the text before it, and its handle
Replaced(f) == << Piece(Cursor, f.from, FALSE), Piece(f.from, f.to, TRUE) >>

Replace ==
  /\ pc = "replace" /\ clean # {}
  /\ pieces' = pieces \o Replaced(FirstOf(clean))
  /\ clean' = clean \ {FirstOf(clean)}
  /\ UNCHANGED <<text, mode, pc, rest>>

Finish ==
  /\ pc = "replace" /\ clean = {}
  /\ pieces' = Append(pieces, Piece(Cursor, Len(text) + 1, FALSE))
  /\ pc' = "done"
  /\ UNCHANGED <<text, mode, rest, clean>>

SealNext == Scan \/ Normalize \/ Filter \/ Replace \/ Finish

SealSpec == SealInit /\ [][SealNext]_sealVars

-----------------------------------------------------------------------------
\* What is kept does not overlap, and begins where the output stands or later: no slice
\* of replace_with_handles is out of range.
KeptInOrder ==
  /\ \A f, g \in clean : f # g => f.to <= g.from \/ g.to <= f.from
  /\ \A f \in clean : Cursor <= f.from /\ f.from <= f.to /\ f.to <= Len(text) + 1

\* Sealing loses nothing: the stretches follow each other without gap or overlap,
\* so putting every handle's value back gives the text again.
NothingIsLost ==
  /\ \A i \in 1..Len(pieces) :
       /\ pieces[i].from <= pieces[i].to
       /\ pieces[i].from = IF i = 1 THEN 1 ELSE pieces[i - 1].to
  /\ pc = "done" => pieces[Len(pieces)].to = Len(text) + 1

Sealed(i) == \E j \in 1..Len(pieces) :
               pieces[j].sealed /\ i \in pieces[j].from..(pieces[j].to - 1)
Overlap(f, g) == f.from < g.to /\ g.from < f.to
Within(f, g) == g.from <= f.from /\ f.to <= g.to

\* When findings overlap only by one lying in the other, and the options seal all of
\* them (redact_for_display), no part of a finding is left in the output.
NestedAreHidden ==
  pc = "done" =>
    LET found == Findings(text) IN
    /\ \A f, g \in found : Overlap(f, g) => Within(f, g) \/ Within(g, f)
    /\ \A f \in found : ShouldSeal(f.confidence, mode)
    => \A f \in found : \A i \in f.from..(f.to - 1) : Sealed(i)

-----------------------------------------------------------------------------
\* README.md:278 "`.env` files | Handle-based sealing - safe for agent
\* inspection": no secret that should_seal says to seal is left in the output.
SealableIsHidden ==
  pc = "done" =>
    \A f \in Findings(text) :
      ShouldSeal(f.confidence, mode) => \A i \in f.from..(f.to - 1) : Sealed(i)
=============================================================================
