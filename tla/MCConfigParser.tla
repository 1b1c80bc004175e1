--------------------------- MODULE MCConfigParser ---------------------------
(* ConfigParser on small instances for TLC: every short file over a few    *)
(* pieces, and whole configurations with every change of one word.         *)
EXTENDS ConfigParser

CONSTANTS MaxShort,  \* pieces of a short file before its last newline
          MaxEdited  \* tokens of the configurations that are edited

DigitNames == {"0", "1", "34", "80", "255", "256", "65535", "65536"}
MCNumber(d) ==
  CASE d = "0" -> 0 [] d = "1" -> 1 [] d = "34" -> 34 [] d = "80" -> 80 [] d = "255" -> 255
    [] d = "256" -> 256 [] d = "65535" -> 65535 [] d = "65536" -> 65536

MCName == DigitNames \cup {"server", "location", "listen", "index", "*", "x", "f"}
MCExecutable == {<<"x">>, <<"x", "#", "f">>, <<"/", "x">>}

Junks == {[type |-> type, value |-> <<>>, at |-> 0] :
            type \in {Other, "LBRACE", "RBRACE", "SEMICOLON", "VALUE"}}

W(name) == <<name>>
Ip(a, d, port) == <<a, ".", "0", ".", "1", ".", d, ":", port>>
Dir(name) == <<"/", name, "/">>

Vocabulary ==
  {W("server"), W("location"), W("listen"), W("index"), W("{"), W("}"), W(";"), W("#"),
   W("x"), W("f"), W("80"), W("34"), W("65535"), W("65536"), W("*"), W("/"),
   Ip("255", "1", "80"), Ip("256", "1", "80"), Ip("*", "1", "80"), Ip("1", "1", "x"),
   <<"*", ":", "80">>, <<"*", ":">>, <<":", "80">>, <<"1", ":", "1", ":", "1">>,
   <<"80", ":", "34">>, Dir("f"), <<"/", "x">>, <<"f", "/">>, <<"x", "#", "f">>}

Configs ==
  {<<W("server"), W("{"), W("}")>>,
   <<W("server"), W("{"), W("location"), Dir("f"), W("{"), W("}"),
     W("listen"), W("80"), W(";"), W("}")>>,
   <<W("server"), W("{"), W("listen"), W("80"), W(";"),
     W("index"), W("f"), W("x"), <<"/", "x">>, W(";"),
     W("location"), Dir("f"), W("{"), W("}"), W("}")>>,
   <<W("server"), W("{"), W("index"), W("x"), W(";"), W("index"), W("f"), <<"/", "x">>, W(";"),
     W("listen"), Ip("255", "1", "80"), W(";"), W("listen"), <<"*", ":", "1">>, W(";"), W("}"),
     W("server"), W("{"), W("location"), W("/"), W("{"), W("}"),
     W("location"), Dir("x"), W("{"), W("}"), W("}")>>}

Cut(c, i, j) == SubSeq(c, i, j)

Edited(c) ==
  {c}
  \cup {Cut(c, 1, i) : i \in 0 .. Len(c)}
  \cup {Cut(c, 1, i - 1) \o Cut(c, i + 1, Len(c)) : i \in 1 .. Len(c)}
  \cup {Cut(c, 1, i) \o <<w>> \o Cut(c, i + 1, Len(c)) : i \in 0 .. Len(c), w \in Vocabulary}
  \cup {Cut(c, 1, i - 1) \o <<w>> \o Cut(c, i + 1, Len(c)) : i \in 1 .. Len(c), w \in Vocabulary}

(* One word to a line, and a last line that holds a comment or none.       *)
Text(c)        == FlattenSeq([i \in 1 .. 2 * Len(c) |-> IF i % 2 = 1 THEN c[(i + 1) \div 2]
                                                        ELSE <<"newline">>])
WithComment(c) == Text(c) \o <<"#", "x", "newline">>

Edits  == UNION {Edited(c) : c \in {c \in Configs : Len(c) <= MaxEdited}}

ShortPieces == {"blank", "newline", "{", ";", "#", "listen", "/"}

NoNamesTouch(f) == \A i \in 1 .. Len(f) - 1 : ~(f[i] \in Name /\ f[i + 1] \in Name)

Shorts == {Append(f, "newline") :
             f \in UNION {[1 .. n -> ShortPieces] : n \in 0 .. MaxShort}}

AllFiles == {<<>>} \cup {Text(c) : c \in Edits \ {<<>>}} \cup {WithComment(c) : c \in Edits}
            \cup {f \in Shorts : NoNamesTouch(f)}

MCFiles  == AllFiles
MCDigits == DigitNames
MCJunk   == Junks
=============================================================================
