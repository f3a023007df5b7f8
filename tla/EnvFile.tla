------------------------------- MODULE EnvFile -------------------------------
(***************************************************************************)
(* A .env file and those who read it: `env seal` (seal_text of Seal) and   *)
(* then `env run` on what it wrote, and `secret import`; `secret export`   *)
(* and `sync dotenv` write one.  The file is the text of Seal.  The vault  *)
(* of `env run` has every secret under the kind in its handle (where it    *)
(* has not, see Handles); here the question is what the readers make of    *)
(* the lines.                                                              *)
(***************************************************************************)
EXTENDS Seal, SequencesExt

CONSTANTS
  Secrets,  \* what an environment of the vault may hold: sequences of [key, value]
  Nothing

\* validate_name: no whitespace in a name
ASSUME SecretsAssumption ==
  /\ Nothing \notin Secrets
  /\ Secrets \subseteq Seq([key: Seq(Lexeme), value: Seq(Lexeme)])
  /\ \A secrets \in Secrets : \A i \in DOMAIN secrets :
       secrets[i].key # <<>> /\ ToSet(secrets[i].key) \cap {Blank, "nl"} = {}

VARIABLES
  exported, \* the secrets the file was exported from, or Nothing
  read      \* what `env run` or `secret import` made of the file

vars == <<text, mode, pc, rest, clean, pieces, exported, read>>

Init == SealInit /\ exported = Nothing /\ read = Nothing

-----------------------------------------------------------------------------
(* Characters of a file: lexemes, and in a sealed file handles, which are  *)
(* as good as the values they stand for.                                   *)

Char(lexeme) == [sealed |-> FALSE, is |-> <<lexeme>>]
Chars(t) == [i \in DOMAIN t |-> Char(t[i])]
SealedFile ==
  FlattenSeq([i \in DOMAIN pieces |->
    LET stretch == SubSeq(text, pieces[i].from, pieces[i].to - 1) IN
    IF pieces[i].sealed THEN << [sealed |-> TRUE, is |-> stretch] >> ELSE Chars(stretch)])

Places(s, c) == {i \in DOMAIN s : s[i] = c}
UpTo(s, places) ==   \* what comes before the first of the places
  IF places = {} THEN s ELSE SubSeq(s, 1, (CHOOSE i \in places : \A j \in places : i <= j) - 1)

\* str::lines: where the lines begin, and the line that begins there
Begins(file) == {1} \cup {i + 1 : i \in Places(file, Char("nl"))}
LineAt(file, from) ==
  LET tail == SubSeq(file, from, Len(file)) IN UpTo(tail, Places(tail, Char("nl")))

Trim(line) ==
  LET solid == {i \in DOMAIN line : line[i] # Char(Blank)} IN
  IF solid = {} THEN <<>>
  ELSE SubSeq(line, CHOOSE i \in solid : \A j \in solid : i <= j,
                    CHOOSE i \in solid : \A j \in solid : i >= j)

\* the lines both readers look at: not blank, no comment, with an =, which the first one
\* divides; that the line is trimmed before its parts are makes no difference
IsEntry(line) ==
  Trim(line) # <<>> /\ Head(Trim(line)) # Char("#") /\ Places(line, Char("=")) # {}
Entry(line) ==
  LET key == UpTo(line, Places(line, Char("="))) IN
  [key |-> Trim(key), value |-> Trim(SubSeq(line, Len(key) + 2, Len(line)))]

\* the entries of a file, by the place where each line begins
Entries(file) ==
  [b \in {c \in Begins(file) : IsEntry(LineAt(file, c))} |-> Entry(LineAt(file, b))]

\* insert in order: of two entries with one key the last
AsMap(entries) ==
  [k \in {entries[b].key : b \in DOMAIN entries} |->
     LET same == {b \in DOMAIN entries : entries[b].key = k} IN
     entries[CHOOSE b \in same : \A c \in same : c <= b].value]

\* resolve_handle: the value must be a handle and nothing else
Resolved(value) ==
  IF Len(value) = 1 /\ value[1].sealed THEN Chars(value[1].is) ELSE value

EnvOf(file) ==
  LET entries == Entries(file) IN
  AsMap([b \in DOMAIN entries |-> [entries[b] EXCEPT !.value = Resolved(@)]])

-----------------------------------------------------------------------------
(* export_dotenv and import_dotenv.                                        *)

QuoteOnly(value) ==   \* faulty: a backslash is not escaped
  FlattenSeq([i \in DOMAIN value |->
    IF value[i] = "quote" THEN <<"\\", value[i]>> ELSE <<value[i]>>])

Escaped(value) ==
  FlattenSeq([i \in DOMAIN value |->
    IF value[i] \in {"quote", "\\"} THEN <<"\\", value[i]>> ELSE <<value[i]>>])

ExportDotenv(secrets) ==
  FlattenSeq([i \in DOMAIN secrets |->
    secrets[i].key \o <<"=", "quote">> \o Escaped(secrets[i].value) \o <<"quote", "nl">>])

\* parse_double_quoted: \ takes the next character, the closing quote ends it.  No
\* word here begins with the n, r or t that would make it a control character
AfterChar(a, c) ==
  CASE a.closed -> a
    [] ~a.closed /\ a.escaping -> [a EXCEPT !.out = Append(@, c), !.escaping = FALSE]
    [] ~a.closed /\ ~a.escaping /\ c = Char("\\") -> [a EXCEPT !.escaping = TRUE]
    [] ~a.closed /\ ~a.escaping /\ c = Char("quote") -> [a EXCEPT !.closed = TRUE]
    [] OTHER -> [a EXCEPT !.out = Append(@, c)]
DoubleQuoted(inner) ==
  LET after[i \in 0..Len(inner)] ==
        IF i = 0 THEN [out |-> <<>>, escaping |-> FALSE, closed |-> FALSE]
        ELSE AfterChar(after[i - 1], inner[i])
  IN after[Len(inner)].out

ImportedValue(raw) ==
  CASE raw # <<>> /\ Head(raw) = Char("quote") -> DoubleQuoted(Tail(raw))
    [] raw # <<>> /\ Head(raw) = Char("single") ->
         UpTo(Tail(raw), Places(Tail(raw), Char("single")))
    [] OTHER -> Trim(UpTo(raw, {i \in Places(raw, Char(Blank)) :
                                  i < Len(raw) /\ raw[i + 1] = Char("#")}))

ImportDotenv(file) ==
  LET entries == Entries(file) IN
  [b \in {c \in DOMAIN entries : entries[c].key # <<>>} |->
     [entries[b] EXCEPT !.value = ImportedValue(@)]]

\* set_secret saves pair by pair, up to a name that validate_name refuses
Stored(entries) ==
  AsMap([b \in {c \in DOMAIN entries :
                 \A d \in DOMAIN entries : d <= c => Char(Blank) \notin ToSet(entries[d].key)} |->
           entries[b]])

-----------------------------------------------------------------------------
(* The commands.                                                           *)

\* secret export --format dotenv, sync dotenv
Export(secrets) ==
  /\ pc = "scan" /\ text = <<>> /\ exported = Nothing
  /\ exported' = secrets
  /\ text' = ExportDotenv(secrets)
  /\ UNCHANGED <<mode, pc, rest, clean, pieces, read>>

\* env seal, whose output is `pieces`
EnvSeal == SealNext /\ UNCHANGED <<exported, read>>

\* env run
EnvRun ==
  /\ pc = "done"
  /\ read' = EnvOf(SealedFile)
  /\ pc' = "ran"
  /\ UNCHANGED <<text, mode, rest, clean, pieces, exported>>

\* secret import
Import ==
  /\ pc = "scan"
  /\ read' = Stored(ImportDotenv(Chars(text)))
  /\ pc' = "imported"
  /\ UNCHANGED <<text, mode, rest, clean, pieces, exported>>

Next == EnvSeal \/ EnvRun \/ Import \/ \E s \in Secrets : Export(s)

Spec == Init /\ [][Next]_vars

-----------------------------------------------------------------------------
\* A line that reads name=value, both of words only, where what a scanner looks for
\* begins the value; or a comment without such a word, or nothing.
PlainLine(line) ==
  LET l == Trim(line)   entry == Entry(line) IN
  \/ l = <<>>
  \/ Head(l) = Char("#") /\ ToSet(l) \subseteq {Char(c) : c \in {"#", Blank, "w", "x"}}
  \/ /\ Places(line, Char("=")) # {}
     /\ entry.key # <<>> /\ entry.value # <<>>
     /\ ToSet(entry.key) \subseteq {Char("w"), Char("key")}
     /\ Head(entry.value) \in {Char(c) : c \in {"w", "x", "prefix", "jwt"}}
     /\ ToSet(Tail(entry.value)) \subseteq {Char("w"), Char("x")}

\* docs/QUICKSTART.md:67-69 "lockrail env seal .env --out .env.lockrail" and then "lockrail
\* env run --file .env.lockrail": a file of plain lines gives the program the same
\* environment sealed as it would have given it before.  Of other lines it does not: a
\* quoted value keeps its quotes around the handle, and a key word that ends a line or a
\* comment makes all of the next line, NAME=value, the secret.
SealedRunsTheSame ==
  pc = "ran" /\ ~mode.aggressive
    /\ (\A b \in Begins(Chars(text)) : PlainLine(LineAt(Chars(text), b)))
    => read = EnvOf(Chars(text))

\* main.rs:504-510 "Reads KEY=VALUE pairs from a .env file and stores each one": what was
\* exported is imported again, whatever quotes, backslashes and blanks the values have,
\* unless one of them has a line end, or a name has an = or begins with #.
ImportedAsExported ==
  pc = "imported" /\ exported # Nothing
    /\ (\A i \in DOMAIN exported :
          /\ "=" \notin ToSet(exported[i].key) /\ Head(exported[i].key) # "#"
          /\ "nl" \notin ToSet(exported[i].value))
    => read = AsMap([i \in DOMAIN exported |->
                      [key |-> Chars(exported[i].key), value |-> Chars(exported[i].value)]])
=============================================================================
