----------------------------- MODULE MCExchange -----------------------------
(* Exchange on small instances for TLC.  Strings are TLC's own, so that    *)
(* what the parser does to a character is computed and not tabulated.      *)
EXTENDS Exchange, FiniteSets, TLC

CONSTANT MaxFields  \* field lines before the blank line

Char(t, i) == SubSeq(t, i, i)
Inked(t)   == {i \in 1 .. Len(t) : Char(t, i) \notin {" ", "\t"}}
Least(S)   == CHOOSE i \in S : \A j \in S : i <= j
Most(S)    == CHOOSE i \in S : \A j \in S : j <= i

MCDropFirst(t) == SubSeq(t, 2, Len(t))
MCDropLast(t)  == SubSeq(t, 1, Len(t) - 1)
MCTrim(t) == IF Inked(t) = {} THEN "" ELSE SubSeq(t, Least(Inked(t)), Most(Inked(t)))
MCRelative(t) == IF Len(t) > 0 /\ Char(t, 1) = "/" THEN MCDropFirst(t) ELSE t
MCNumber(t) == IF t = "" THEN 0 ELSE CHOOSE n \in 0 .. 99 : ToString(n) = t

FieldOf(name, sep, value) == [name |-> name, sep |-> sep, value |-> value, cr |-> TRUE]
BareLF(l) == [l EXCEPT !.cr = FALSE]
Start(words) == [words |-> words, cr |-> TRUE]

Starts ==
  {Start(<<"GET", "/", "HTTP/1.1">>), Start(<<"POST", "f", "HTTP/1.1">>),
   Start(<<"DELETE", "/d", "HTTP/1.1">>), Start(<<"GET", "", "HTTP/1.1">>),
   Start(<<"POST", "/e", "HTTP/1.1">>), Start(<<"GET", "/g", "HTTP/1.1">>),
   Start(<<"PUT", "/", "HTTP/1.1">>),
   Start(<<"GET", "/", "HTTP/1.1", "">>), Start(<<"GET", "/", "">>),
   Start(<<"GET", "/">>), Start(<<"GET">>), Start(<<"">>),
   BareLF(Start(<<"GET", "/f", "HTTP/1.1">>)),
   BareLF(Start(<<"GET", "/f", "HTTP/1.1", "">>)), BareLF(Start(<<"">>))}

FieldLines ==
  {FieldOf("Host", "space", "a"), FieldOf("Host", "colon", "a"), FieldOf("Host", "none", ""),
   FieldOf("Host", "colon", ""), BareLF(FieldOf("Host", "space", "a")),
   BareLF(FieldOf("Host", "space", "")), BareLF(FieldOf("Host", "colon", "")),
   FieldOf("Content-Length", "space", " 57 "), FieldOf("Content-Length", "space", "5a"),
   FieldOf("Content-Length", "space", ""), FieldOf("Transfer-Encoding", "space", "chunked"),
   FieldOf("Connection", "space", "\tclose"), FieldOf("a", "space", "a\f"),
   FieldOf("a b", "space", "a"), BareLF(FieldOf("a", "none", "")),
   BareLF(FieldOf("", "none", "")), Blank}

(* The fields that mean something to the code, for requests of more lines. *)
KnownFields ==
  {FieldOf("Host", "space", "a"), FieldOf("Content-Length", "space", " 57 "),
   FieldOf("Content-Length", "space", "5a"), FieldOf("Content-Length", "space", ""),
   FieldOf("Transfer-Encoding", "space", "chunked"),
   FieldOf("Connection", "space", "\tclose"), Blank}

KnownStarts == {Start(<<"GET", "/", "HTTP/1.1">>), Start(<<"POST", "f", "HTTP/1.1">>)}

(* The heads whose last line before the blank one ends in CRLF, which is   *)
(* where handle_client_read finds the end.                                 *)
Heads(starts, lines, n) ==
  {[start |-> s, fields |-> Append(f, Blank)] :
     s \in {s \in starts : n > 0 \/ s.cr},
     f \in {f \in [1 .. n -> lines] : n = 0 \/ f[n].cr}}

AllRequests ==
  UNION {Heads(Starts, FieldLines, n) : n \in 0 .. MaxFields}
  \cup Heads(KnownStarts, KnownFields, MaxFields + 1)
  \cup Heads(KnownStarts, KnownFields, MaxFields + 2)

Said == Methods \cup {"", "PUT", "HTTP/1.1", "/", "/d", "/e", "/f", "/g", "index.html"}
        \cup UNION {{l.name, l.value, MCTrim(l.value)} : l \in FieldLines}

(* All substrings of what is said, so that no operation leaves the set.    *)
Cuts   == {c \in Said \X (1 .. 18) \X (0 .. 17) : c[2] <= Len(c[1]) + 1 /\ c[3] <= Len(c[1])}
Pieces == {SubSeq(c[1], c[2], c[3]) : c \in Cuts}

Chars(t) == {Char(t, i) : i \in 1 .. Len(t)}
Tokens   == {t \in Pieces \ {""} : Chars(t) \cap {" ", "\t", "\f", "/"} = {}}
Printed  == {t \in Pieces : "\f" \notin Chars(t)}
Numerals == {t \in Pieces : Chars(t) \subseteq {"5", "7"}}

Files == [t \in Pieces |-> IF t \in {"index.html", "f"} THEN "page"
                          ELSE IF t \in {"", "d"} THEN "directory"
                          ELSE IF t = "e" THEN "empty" ELSE "missing"]

(* TLC evaluates a definition given to a constant at every use, and one    *)
(* that is only named here once.                                           *)
MCText     == Pieces
MCRequests == AllRequests
MCDisk     == Files
MCToken    == Tokens
MCClean    == Printed
MCDigits   == Numerals
=============================================================================
