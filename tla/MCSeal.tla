------------------------------- MODULE MCSeal -------------------------------
(***************************************************************************)
(* Instances of Seal and EnvFile for TLC: all short texts, files of short  *)
(* lines, and files exported from two secrets.                             *)
(***************************************************************************)
EXTENDS EnvFile

TextsOf(lexemes, len) == UNION {[1..n -> lexemes] : n \in 0..len}
Scanned == Lexeme \ {"w", "#", "\\", "single"}   \* what the scanners tell apart

Name == {<<"w">>, <<"key">>, <<"w", " ">>, <<" ", "key">>}
Word == {<<"w">>, <<"x">>, <<" ", "x">>, <<"w", "prefix", "x">>, <<"jwt", " ">>,
         <<"quote", "x", "quote">>, <<>>}
EnvLine == {n \o <<"=">> \o v : n \in Name, v \in Word}
          \cup {<<>>, <<"#", " ", "w">>, <<"#", "key">>}
Joined(lines) == FlattenSeq([i \in DOMAIN lines |-> IF i = 1 THEN lines[i] ELSE <<"nl">> \o lines[i]])
EnvFiles == {Joined(lines) : lines \in TextsOf(EnvLine, 2)}

\* every text of four lexemes, every one of five over those of an .env file, and
\* every file of up to two of the lines above
AllTexts == TextsOf(Scanned, 4) \cup TextsOf({"key", "=", " ", "prefix", "x"}, 5) \cup EnvFiles
EnvTexts == TextsOf({"key", "=", " ", "prefix", "x"}, 6)

Stored2 == {<< [key |-> <<"w">>, value |-> v], [key |-> <<"key">>, value |-> u] >> :
              v \in TextsOf({"w", " ", "quote", "\\", "single", "#", "=", "nl"}, 3),
              u \in {<<"x">>, <<>>}}

Default == [aggressive |-> FALSE, protection |-> TRUE]
Redaction == [aggressive |-> TRUE, protection |-> TRUE]
BothModes == {Default, Redaction}
DefaultMode == {Default}
=============================================================================
