---------------------------- MODULE GrammarProofs ----------------------------
(***************************************************************************)
(* The configurations that c_parser accepts are those of the language that *)
(* ConfigParser states token by token: a proof for any set of files of any *)
(* length over any names.                                                  *)
(***************************************************************************)
EXTENDS ConfigProofs, FiniteSetTheorems

(* The value of a token tells its type.                                    *)
Typed(t) ==
  \/ /\ t.type = "VALUE" /\ t.value # <<>>
     /\ t.value \notin {<<"server">>, <<"location">>, <<"listen">>, <<"index">>}
  \/ t.type = "BLOC_KEYWORD" /\ t.value \in {<<"server">>, <<"location">>}
  \/ t.type = "DIRECTIVE_KEYWORD" /\ t.value \in {<<"listen">>, <<"index">>}
  \/ \E c \in Delimiter : t.type = type_of_delimiter[c] /\ t.value = <<c>>
  \/ t.type = "EOF" /\ t.value = <<>>

TokensTyped == \A k \in 1 .. Len(tokens) : Typed(tokens[k])

(* EOF is pushed where the file ends, and nothing after it.                *)
EOFIsLast ==
  \A k \in 1 .. Len(tokens) :
    tokens[k].type = "EOF" => k = Len(tokens) /\ (pc \in {"open", "lex"} => pos > Len(content))

NothingYet == (pc \in {"open", "lex"} => servers = <<>>) /\ (pc = "open" => tokens = <<>>)

-----------------------------------------------------------------------------
(* What stands before i where pc is the parser's place: all that the       *)
(* descent remembers of the tokens it has seen.                            *)
EndsServerItem(t, i) == IsA(t, i, "SEMICOLON") \/ OpensServer(t, i)

EndsDirective(t, i) ==
  /\ IsA(t, i - 1, "VALUE") /\ DirectiveEnds(t, i)
  /\ IsWord(t, i - 2, "listen") \/ (i <= Len(t) => t[i].type # "VALUE")

Follows(t, i) ==
  /\ pc = "config" => (i = 1 /\ servers = <<>>) \/ (servers # <<>> /\ ClosesServer(t, i - 1))
  /\ pc = "server_lbrace" => IsWord(t, i - 1, "server")
  /\ pc = "server" => \/ has_location /\ ClosesLocation(t, i - 1)
                      \/ ~has_location /\ EndsServerItem(t, i - 1)
  /\ pc \in {"listen", "index"} => IsWord(t, i - 1, pc)
  /\ pc = "semicolon" => EndsDirective(t, i)
  /\ pc = "location" => IsWord(t, i - 1, "location")
  /\ pc = "location_lbrace" => IsA(t, i - 1, "VALUE") /\ IsWord(t, i - 2, "location")
  /\ pc = "location_rbrace" => IsA(t, i - 1, "LBRACE") /\ IsA(t, i - 2, "VALUE")
  /\ pc \in {"server_lbrace", "listen", "index", "semicolon"} => ~has_location

(* The tokens broke off inside a block.                                    *)
BrokeOff(t) ==
  /\ current > Len(t) /\ ~ClosesServer(t, Len(t))
  /\ pc = "semicolon" \/ Beyond(current)

Reading(t) ==
  /\ \A i \in 1 .. Len(t) : i < current => MayStand(t, i)
  /\ Follows(t, current) \/ BrokeOff(t)

ReadsGrammar == pc \in Looking \cup {"config"} => Reading(Words)

GInv == TokensTyped /\ EOFIsLast /\ NothingYet /\ ReadsGrammar /\ AcceptedIfGrammatical

-----------------------------------------------------------------------------
(* The kinds of tokens, and what may follow which.                         *)

Kind(tok) == IF tok.type \in {"BLOC_KEYWORD", "DIRECTIVE_KEYWORD"} THEN tok.value[1] ELSE tok.type

KindAt(t, i) == IF i > 0 THEN Kind(t[i]) ELSE "none"

Lexed(t) ==
  t \in Seq(Token) /\ \A k \in 1 .. Len(t) : Typed(t[k]) /\ t[k].type # "EOF"

LEMMA KindOfToken ==
  ASSUME NEW tok, Typed(tok), tok.type # "EOF"
  PROVE  /\ Kind(tok) \in {"server", "location", "listen", "index", "LBRACE", "RBRACE",
                           "SEMICOLON", "VALUE"}
         /\ tok.value = <<"server">> /\ tok.type # "VALUE" <=> Kind(tok) = "server"
         /\ tok.value = <<"location">> /\ tok.type # "VALUE" <=> Kind(tok) = "location"
         /\ tok.value = <<"listen">> /\ tok.type # "VALUE" <=> Kind(tok) = "listen"
         /\ tok.value = <<"index">> /\ tok.type # "VALUE" <=> Kind(tok) = "index"
         /\ tok.type = "LBRACE" <=> Kind(tok) = "LBRACE"
         /\ tok.type = "RBRACE" <=> Kind(tok) = "RBRACE"
         /\ tok.type = "SEMICOLON" <=> Kind(tok) = "SEMICOLON"
         /\ tok.type = "VALUE" <=> Kind(tok) = "VALUE"
         /\ tok.type = "BLOC_KEYWORD" <=> Kind(tok) \in {"server", "location"}
         /\ tok.type = "DIRECTIVE_KEYWORD" <=> Kind(tok) \in {"listen", "index"}
<1> USE DEF Kind
<1>1. CASE tok.type = "VALUE"
  BY <1>1
<1>2. CASE tok.type = "BLOC_KEYWORD" /\ tok.value \in {<<"server">>, <<"location">>}
  <2>1. CASE tok.value = <<"server">>
    BY <1>2, <2>1
  <2>2. CASE tok.value = <<"location">>
    BY <1>2, <2>2
  <2>3. QED
    BY <1>2, <2>1, <2>2
<1>3. CASE tok.type = "DIRECTIVE_KEYWORD" /\ tok.value \in {<<"listen">>, <<"index">>}
  <2>1. CASE tok.value = <<"listen">>
    BY <1>3, <2>1
  <2>2. CASE tok.value = <<"index">>
    BY <1>3, <2>2
  <2>3. QED
    BY <1>3, <2>1, <2>2
<1>4. ASSUME NEW c \in Delimiter, tok.type = type_of_delimiter[c], tok.value = <<c>>
      PROVE  /\ tok.type \in {"LBRACE", "RBRACE", "SEMICOLON"}
             /\ \A word \in {"server", "location", "listen", "index"} : tok.value # <<word>>
  <2>1. type_of_delimiter[c] \in {"LBRACE", "RBRACE", "SEMICOLON"}
    BY DEF type_of_delimiter, Delimiter
  <2>2. c \in {"{", "}", ";"}
    BY DEF Delimiter
  <2>3. \A word \in {"server", "location", "listen", "index"} : <<c>> # <<word>>
    BY <2>2
  <2>4. QED
    BY <1>4, <2>1, <2>3
<1>5. CASE tok.type \in {"LBRACE", "RBRACE", "SEMICOLON"}
           /\ \A word \in {"server", "location", "listen", "index"} : tok.value # <<word>>
  BY <1>5
<1>6. QED
  BY <1>1, <1>2, <1>3, <1>4, <1>5 DEF Typed

LEMMA Kinds ==
  ASSUME NEW t, Lexed(t), NEW i \in Int, i <= Len(t)
  PROVE  /\ KindAt(t, i) \in {"server", "location", "listen", "index", "LBRACE", "RBRACE",
                              "SEMICOLON", "VALUE", "none"}
         /\ i > 0 <=> KindAt(t, i) # "none"
         /\ IsWord(t, i, "server") <=> KindAt(t, i) = "server"
         /\ IsWord(t, i, "location") <=> KindAt(t, i) = "location"
         /\ IsWord(t, i, "listen") <=> KindAt(t, i) = "listen"
         /\ IsWord(t, i, "index") <=> KindAt(t, i) = "index"
         /\ IsA(t, i, "LBRACE") <=> KindAt(t, i) = "LBRACE"
         /\ IsA(t, i, "RBRACE") <=> KindAt(t, i) = "RBRACE"
         /\ IsA(t, i, "SEMICOLON") <=> KindAt(t, i) = "SEMICOLON"
         /\ IsA(t, i, "VALUE") <=> KindAt(t, i) = "VALUE"
         /\ IsA(t, i, "BLOC_KEYWORD") <=> KindAt(t, i) \in {"server", "location"}
         /\ IsA(t, i, "DIRECTIVE_KEYWORD") <=> KindAt(t, i) \in {"listen", "index"}
<1> USE DEF KindAt, IsWord, IsA
<1>1. CASE i > 0
  <2> DEFINE n == Len(t)
  <2>1. i \in 1 .. n
    <3>1. i <= n
      OBVIOUS
    <3>2. n \in Nat
      BY LenProperties DEF Lexed
    <3> HIDE DEF n
    <3>3. QED
      BY <1>1, <3>1, <3>2
  <2> DEFINE tok == t[i]
  <2>2. Typed(tok) /\ tok.type # "EOF"
    BY <2>1 DEF Lexed
  <2> HIDE DEF tok
  <2>3. /\ Kind(tok) \in {"server", "location", "listen", "index", "LBRACE", "RBRACE",
                           "SEMICOLON", "VALUE"}
        /\ tok.value = <<"server">> /\ tok.type # "VALUE" <=> Kind(tok) = "server"
        /\ tok.value = <<"location">> /\ tok.type # "VALUE" <=> Kind(tok) = "location"
        /\ tok.value = <<"listen">> /\ tok.type # "VALUE" <=> Kind(tok) = "listen"
        /\ tok.value = <<"index">> /\ tok.type # "VALUE" <=> Kind(tok) = "index"
        /\ tok.type = "LBRACE" <=> Kind(tok) = "LBRACE"
        /\ tok.type = "RBRACE" <=> Kind(tok) = "RBRACE"
        /\ tok.type = "SEMICOLON" <=> Kind(tok) = "SEMICOLON"
        /\ tok.type = "VALUE" <=> Kind(tok) = "VALUE"
        /\ tok.type = "BLOC_KEYWORD" <=> Kind(tok) \in {"server", "location"}
        /\ tok.type = "DIRECTIVE_KEYWORD" <=> Kind(tok) \in {"listen", "index"}
    BY <2>2, KindOfToken, Zenon
  <2>4. QED
    BY <1>1, <2>3 DEF tok
<1>2. CASE ~(i > 0)
  BY <1>2
<1>3. QED
  BY <1>1, <1>2

(* Only values may stand between the word index and the place in question. *)
LEMMA IndexesBefore ==
  ASSUME NEW t, Lexed(t), NEW i \in 1 .. Len(t) + 1, NEW j \in IndexBefore(t, i)
  PROVE  \/ j = i - 1 /\ KindAt(t, i - 1) = "index"
         \/ j = i - 2 /\ KindAt(t, i - 1) = "VALUE" /\ KindAt(t, i - 2) = "index"
         \/ j < i - 2 /\ KindAt(t, i - 1) = "VALUE" /\ KindAt(t, i - 2) = "VALUE"
<1> DEFINE n == Len(t)
<1>1. n \in Nat /\ i \in 1 .. n + 1
  BY LenProperties DEF Lexed
<1>2. /\ j \in 1 .. i - 1 /\ IsWord(t, j, "index")
      /\ \A k \in j + 1 .. i - 1 : IsA(t, k, "VALUE")
  BY DEF IndexBefore
<1>3. \A k \in 1 .. i - 1 : k \in Int /\ k <= Len(t)
  <2> \A k \in 1 .. i - 1 : k \in Int /\ k <= n
    <3> HIDE DEF n
    <3> QED BY <1>1
  <2> QED OBVIOUS
<1>4. KindAt(t, j) = "index"
  BY <1>2, <1>3, Kinds
<1>5. \A k \in j + 1 .. i - 1 : k \in 1 .. i - 1
  <2> HIDE DEF n
  <2>1. QED
    BY <1>1, <1>2
<1>6. \A k \in j + 1 .. i - 1 : KindAt(t, k) = "VALUE"
  BY <1>2, <1>3, <1>5, Kinds
<1> HIDE DEF n
<1>7. CASE j = i - 1
  BY <1>4, <1>7
<1>8. CASE j = i - 2
  <2>1. i - 1 \in j + 1 .. i - 1
    BY <1>1, <1>2, <1>8
  <2>2. QED
    BY <1>4, <1>6, <1>8, <2>1
<1>9. CASE j < i - 2
  <2>1. i - 1 \in j + 1 .. i - 1 /\ i - 2 \in j + 1 .. i - 1
    BY <1>1, <1>2, <1>9
  <2>2. QED
    BY <1>6, <1>9, <2>1
<1>10. j = i - 1 \/ j = i - 2 \/ j < i - 2
  BY <1>1, <1>2
<1>11. QED
  BY <1>7, <1>8, <1>9, <1>10

(* What the language admits after the tokens before i.                     *)
LEMMA MayFollow ==
  ASSUME NEW t, Lexed(t), NEW i \in 1 .. Len(t), MayStand(t, i)
  PROVE  /\ i = 1 \/ ClosesServer(t, i - 1) => KindAt(t, i) = "server"
         /\ KindAt(t, i - 1) = "server" => KindAt(t, i) = "LBRACE"
         /\ EndsServerItem(t, i - 1) => KindAt(t, i) \in {"RBRACE", "listen", "index", "location"}
         /\ ClosesLocation(t, i - 1) => KindAt(t, i) \in {"RBRACE", "location"}
         /\ KindAt(t, i - 1) = "listen" => t[i].value \in ListenWords
         /\ KindAt(t, i - 1) \in {"listen", "index", "location"} => KindAt(t, i) = "VALUE"
         /\ KindAt(t, i - 1) = "location" => NamesDirectory(t[i].value)
         /\ KindAt(t, i - 1) = "LBRACE" /\ KindAt(t, i - 2) = "VALUE" => KindAt(t, i) = "RBRACE"
         /\ KindAt(t, i - 1) = "VALUE" =>
              /\ KindAt(t, i - 2) = "location" => KindAt(t, i) = "LBRACE"
              /\ KindAt(t, i - 2) = "listen" => KindAt(t, i) # "VALUE"
              /\ KindAt(t, i - 2) # "location" /\ KindAt(t, i) # "VALUE" =>
                   KindAt(t, i) = "SEMICOLON" /\ DirectiveEnds(t, i)
<1> DEFINE a == KindAt(t, i)
<1> DEFINE b == KindAt(t, i - 1)
<1> DEFINE c == KindAt(t, i - 2)
<1> DEFINE d == KindAt(t, i - 3)
<1> DEFINE listens == t[i].value \in ListenWords
<1> DEFINE path == NamesDirectory(t[i].value)
<1> DEFINE ends == DirectiveEnds(t, i)
<1> DEFINE values == IndexBefore(t, i) # {}
<1>1. /\ i \in Int /\ i - 1 \in Int /\ i - 2 \in Int /\ i - 3 \in Int
      /\ i <= Len(t) /\ i - 1 <= Len(t) /\ i - 2 <= Len(t) /\ i - 3 <= Len(t)
      /\ i \in 1 .. Len(t) + 1 /\ i - 1 - 1 = i - 2 /\ i - 2 - 1 = i - 3 /\ i - 1 - 2 = i - 3
      /\ i = 1 <=> ~(i - 1 > 0)
  <2> DEFINE n == Len(t)
  <2>1. n \in Nat /\ i \in 1 .. n
    BY LenProperties DEF Lexed
  <2> HIDE DEF n
  <2>2. /\ i \in Int /\ i - 1 \in Int /\ i - 2 \in Int /\ i - 3 \in Int
        /\ i <= n /\ i - 1 <= n /\ i - 2 <= n /\ i - 3 <= n
        /\ i \in 1 .. n + 1 /\ i - 1 - 1 = i - 2 /\ i - 2 - 1 = i - 3 /\ i - 1 - 2 = i - 3
        /\ i = 1 <=> ~(i - 1 > 0)
    BY <2>1
  <2>3. QED
    BY <2>2 DEF n
<1>2. values => b = "index" \/ (b = "VALUE" /\ c \in {"index", "VALUE"})
  BY <1>1, IndexesBefore
<1>3. /\ OpensServer(t, i) <=> a = "LBRACE" /\ b = "server"
      /\ OpensServer(t, i - 1) <=> b = "LBRACE" /\ c = "server"
      /\ ClosesLocation(t, i) <=> a = "RBRACE" /\ b = "LBRACE" /\ c = "VALUE"
      /\ ClosesLocation(t, i - 1) <=> b = "RBRACE" /\ c = "LBRACE" /\ d = "VALUE"
  BY <1>1, Kinds DEF OpensServer, ClosesLocation
<1>4. /\ ClosesServer(t, i) <=> a = "RBRACE" /\ ~(b = "LBRACE" /\ c = "VALUE")
      /\ ClosesServer(t, i - 1) <=> b = "RBRACE" /\ ~(c = "LBRACE" /\ d = "VALUE")
  BY <1>1, <1>3, Kinds DEF ClosesServer
<1>5. EndsServerItem(t, i - 1) <=> b = "SEMICOLON" \/ (b = "LBRACE" /\ c = "server")
  BY <1>1, <1>3, Kinds DEF EndsServerItem
<1>6. i = 1 <=> b = "none"
  BY <1>1, Kinds
<1>7. \/ a = "server" /\ (b = "none" \/ ClosesServer(t, i - 1))
      \/ a = "LBRACE" /\ b = "server"
      \/ a = "LBRACE" /\ b = "VALUE" /\ c = "location"
      \/ a \in {"listen", "index"} /\ EndsServerItem(t, i - 1)
      \/ a = "SEMICOLON" /\ b = "VALUE" /\ ends
      \/ /\ a = "location" \/ ClosesServer(t, i)
         /\ EndsServerItem(t, i - 1) \/ ClosesLocation(t, i - 1)
      \/ ClosesLocation(t, i)
      \/ a = "VALUE" /\ ((b = "listen" /\ listens) \/ (b = "location" /\ path) \/ values)
  <2>1. /\ IsWord(t, i, "server") <=> a = "server"
        /\ IsWord(t, i, "location") <=> a = "location"
        /\ IsA(t, i, "LBRACE") <=> a = "LBRACE"
        /\ IsA(t, i, "SEMICOLON") <=> a = "SEMICOLON"
        /\ IsA(t, i, "VALUE") <=> a = "VALUE"
        /\ IsA(t, i, "DIRECTIVE_KEYWORD") <=> a \in {"listen", "index"}
        /\ IsA(t, i - 1, "VALUE") <=> b = "VALUE"
        /\ IsWord(t, i - 1, "listen") <=> b = "listen"
        /\ IsWord(t, i - 1, "location") <=> b = "location"
        /\ IsWord(t, i - 2, "location") <=> c = "location"
    BY <1>1, Kinds
  <2>2. EndsServerItem(t, i - 1) <=> IsA(t, i - 1, "SEMICOLON") \/ OpensServer(t, i - 1)
    BY DEF EndsServerItem
  <2>3. \/ IsWord(t, i, "server") /\ (i = 1 \/ ClosesServer(t, i - 1))
        \/ OpensServer(t, i)
        \/ IsA(t, i, "LBRACE") /\ IsA(t, i - 1, "VALUE") /\ IsWord(t, i - 2, "location")
        \/ IsA(t, i, "DIRECTIVE_KEYWORD") /\ EndsServerItem(t, i - 1)
        \/ IsA(t, i, "SEMICOLON") /\ IsA(t, i - 1, "VALUE") /\ ends
        \/ /\ IsWord(t, i, "location") \/ ClosesServer(t, i)
           /\ EndsServerItem(t, i - 1) \/ ClosesLocation(t, i - 1)
        \/ ClosesLocation(t, i)
        \/ /\ IsA(t, i, "VALUE")
           /\ \/ IsWord(t, i - 1, "listen") /\ listens
              \/ IsWord(t, i - 1, "location") /\ path
              \/ values
    BY <2>2, Zenon DEF MayStand
  <2> HIDE DEF a, b, c, listens, path, ends, values
  <2>4. CASE IsWord(t, i, "server") /\ (i = 1 \/ ClosesServer(t, i - 1))
    BY <1>6, <2>1, <2>4, Zenon
  <2>5. CASE OpensServer(t, i)
    BY <1>3, <2>5, Zenon
  <2>6. CASE IsA(t, i, "LBRACE") /\ IsA(t, i - 1, "VALUE") /\ IsWord(t, i - 2, "location")
    BY <2>1, <2>6, Zenon
  <2>7. CASE IsA(t, i, "DIRECTIVE_KEYWORD") /\ EndsServerItem(t, i - 1)
    BY <2>1, <2>7, Zenon
  <2>8. CASE IsA(t, i, "SEMICOLON") /\ IsA(t, i - 1, "VALUE") /\ ends
    BY <2>1, <2>8, Zenon
  <2>9. CASE /\ IsWord(t, i, "location") \/ ClosesServer(t, i)
             /\ EndsServerItem(t, i - 1) \/ ClosesLocation(t, i - 1)
    BY <2>1, <2>9, Zenon
  <2>10. CASE ClosesLocation(t, i)
    BY <2>10, Zenon
  <2>11. CASE /\ IsA(t, i, "VALUE")
              /\ \/ IsWord(t, i - 1, "listen") /\ listens
                 \/ IsWord(t, i - 1, "location") /\ path
                 \/ values
    BY <2>1, <2>11, Zenon
  <2>12. QED
    BY <2>3, <2>4, <2>5, <2>6, <2>7, <2>8, <2>9, <2>10, <2>11, Zenon
<1>8. ends => c = "listen" \/ values
  BY <1>1, Kinds DEF DirectiveEnds
<1> HIDE DEF a, b, c, d, listens, path, ends, values
<1>9. /\ b = "none" \/ ClosesServer(t, i - 1) => a = "server"
      /\ b = "server" => a = "LBRACE"
      /\ EndsServerItem(t, i - 1) => a \in {"RBRACE", "listen", "index", "location"}
      /\ ClosesLocation(t, i - 1) => a \in {"RBRACE", "location"}
      /\ b = "listen" => listens
      /\ b \in {"listen", "index", "location"} => a = "VALUE"
      /\ b = "location" => path
      /\ b = "LBRACE" /\ c = "VALUE" => a = "RBRACE"
      /\ b = "VALUE" => /\ c = "location" => a = "LBRACE"
                        /\ c = "listen" => a # "VALUE"
                        /\ c # "location" /\ a # "VALUE" => a = "SEMICOLON" /\ ends
  BY <1>2, <1>3, <1>4, <1>5, <1>7, <1>8
<1>10. QED
  BY <1>6, <1>9 DEF a, b, c, listens, path, ends

-----------------------------------------------------------------------------
(* The tokens without EOF, and where _current is among them.               *)

LEMMA WordsProperties ==
  ASSUME IInv, TokensTyped, EOFIsLast
  PROVE  /\ Lexed(Words) /\ Len(Words) \in Nat
         /\ EndsWithEOF => Len(tokens) = Len(Words) + 1
         /\ ~EndsWithEOF => Len(tokens) = Len(Words)
         /\ \A i \in 1 .. Len(Words) : Words[i] = tokens[i]
<1> DEFINE n == Len(tokens)
<1>1. tokens \in Seq(Token) /\ n \in Nat
  BY LenTypes DEF IInv
<1>2. \A k \in 1 .. n : Typed(tokens[k]) /\ (tokens[k].type = "EOF" => k = n)
  BY DEF TokensTyped, EOFIsLast
<1>3. CASE EndsWithEOF
  <2> DEFINE w == SubSeq(tokens, 0 + 1, 0 + (n - 1))
  <2>1. n # 0
    BY <1>1, <1>3, EmptySeq DEF EndsWithEOF
  <2>2. n - 1 \in Nat /\ 0 + (n - 1) <= n /\ 0 \in Nat
    <3> HIDE DEF n
    <3>1. QED
      BY <1>1, <2>1
  <2>3. w \in Seq(Token) /\ Len(w) = n - 1 /\ \A i \in 1 .. n - 1 : w[i] = tokens[0 + i]
    BY <1>1, <2>2, SubSeqOfSeq
  <2>4. Words = w
    <3>1. Words = SubSeq(tokens, 1, n - 1)
      BY <1>3 DEF Words, Front
    <3>2. 0 + 1 = 1 /\ 0 + (n - 1) = n - 1
      BY <2>2
    <3>3. QED
      BY <3>1, <3>2
  <2>5. \A i \in 1 .. n - 1 : w[i] = tokens[i] /\ i \in 1 .. n /\ i # n
    <3> HIDE DEF w, n
    <3>1. \A i \in 1 .. n - 1 : 0 + i = i /\ i \in 1 .. n /\ i # n
      BY <1>1, <2>2
    <3>2. QED
      BY <2>3, <3>1
  <2> HIDE DEF w, n
  <2>6. \A i \in 1 .. n - 1 : Typed(w[i]) /\ w[i].type # "EOF"
    BY <1>2, <2>5
  <2>7. n = n - 1 + 1
    BY <1>1
  <2>8. QED
    BY <1>3, <2>2, <2>3, <2>4, <2>5, <2>6, <2>7 DEF Lexed, n
<1>4. CASE ~EndsWithEOF
  <2>1. Words = tokens
    BY <1>4 DEF Words
  <2>2. \A k \in 1 .. n : tokens[k].type # "EOF"
    <3>1. n # 0 => tokens # <<>>
      OBVIOUS
    <3> HIDE DEF n
    <3>2. SUFFICES ASSUME NEW k \in 1 .. n, tokens[k].type = "EOF" PROVE FALSE
      OBVIOUS
    <3>3. k = n /\ n # 0
      BY <1>1, <1>2, <3>2
    <3>4. QED
      BY <1>4, <3>1, <3>2, <3>3 DEF EndsWithEOF, n
  <2>3. QED
    BY <1>1, <1>2, <1>4, <2>1, <2>2 DEF Lexed
<1>5. QED
  BY <1>3, <1>4

LEMMA Places ==
  ASSUME IInv, GInv, pc \in Looking \cup {"config"}, NEW t, t = Words
  PROVE  /\ Lexed(t) /\ Len(t) \in Nat /\ current \in 1 .. Len(t) + 1
         /\ current <= Len(t) => /\ ~is_at_end /\ ~Beyond(current) /\ current \in 1 .. Len(t)
                                 /\ At(current) = t[current] /\ current_token = t[current]
                                 /\ At(current).type # "EOF"
         /\ ~(current <= Len(t)) =>
              /\ is_at_end /\ current = Len(t) + 1
              /\ Beyond(current) => ~EndsWithEOF
              /\ ~Beyond(current) => At(current).type = "EOF" /\ At(current).value = <<>>
<1> DEFINE N == Len(t)
<1> DEFINE n == Len(tokens)
<1>1. /\ Lexed(t) /\ N \in Nat
      /\ EndsWithEOF => n = N + 1
      /\ ~EndsWithEOF => n = N
      /\ \A i \in 1 .. N : t[i] = tokens[i]
  BY WordsProperties DEF GInv
<1>2. n \in Nat /\ current \in 1 .. n + 1 /\ current \in Nat
  BY LenTypes DEF IInv
<1>3. EndsWithEOF => ~(current > n)
  BY DEF IInv, StopsAtEOF, EndsWithEOF, Beyond
<1>4. Beyond(current) <=> current > n
  BY DEF Beyond
<1>5. \A i \in 1 .. N : t[i].type # "EOF"
  BY <1>1 DEF Lexed
<1>6. EndsWithEOF => tokens[n].type = "EOF" /\ tokens[n].value = <<>>
  <2> SUFFICES ASSUME EndsWithEOF PROVE tokens[n].type = "EOF" /\ tokens[n].value = <<>>
    OBVIOUS
  <2>1. n \in 1 .. n
    <3>1. n = N + 1
      BY <1>1
    <3> HIDE DEF n, N
    <3>2. QED
      BY <1>1, <1>2, <3>1
  <2> DEFINE e == tokens[n]
  <2>2. e.type = "EOF" /\ Typed(e)
    BY <2>1 DEF EndsWithEOF, GInv, TokensTyped
  <2> HIDE DEF e
  <2>3. \A c \in Delimiter : type_of_delimiter[c] # "EOF"
    BY DEF type_of_delimiter, Delimiter
  <2>4. e.value = <<>>
    BY <2>2, <2>3 DEF Typed
  <2>5. QED
    BY <2>2, <2>4 DEF e
<1> HIDE DEF N, n
<1>7. current \in 1 .. N + 1
  BY <1>1, <1>2, <1>3
<1>8. current <= N => current \in 1 .. N /\ ~(current > n)
  BY <1>1, <1>2
<1>9. current <= N =>
        /\ ~is_at_end /\ ~Beyond(current) /\ current \in 1 .. N
        /\ At(current) = t[current] /\ current_token = t[current] /\ At(current).type # "EOF"
  <2> SUFFICES ASSUME current <= N
               PROVE  /\ ~is_at_end /\ ~Beyond(current) /\ current \in 1 .. N
                      /\ At(current) = t[current] /\ current_token = t[current]
                      /\ At(current).type # "EOF"
    OBVIOUS
  <2>1. ~Beyond(current) /\ current \in 1 .. N
    BY <1>4, <1>8
  <2>2. At(current) = t[current] /\ At(current).type # "EOF"
    BY <1>1, <1>5, <2>1 DEF At
  <2>3. ~is_at_end
    BY <2>1, <2>2 DEF is_at_end, is_token_type
  <2>4. QED
    BY <2>1, <2>2, <2>3 DEF current_token
<1>10. ~(current <= N) =>
         /\ is_at_end /\ current = N + 1
         /\ Beyond(current) => ~EndsWithEOF
         /\ ~Beyond(current) => At(current).type = "EOF" /\ At(current).value = <<>>
  <2> SUFFICES ASSUME ~(current <= N)
               PROVE  /\ is_at_end /\ current = N + 1
                      /\ Beyond(current) => ~EndsWithEOF
                      /\ ~Beyond(current) => At(current).type = "EOF" /\ At(current).value = <<>>
    OBVIOUS
  <2>1. current = N + 1
    BY <1>1, <1>7
  <2>2. ~Beyond(current) => EndsWithEOF /\ current = n
    BY <1>1, <1>4, <2>1
  <2>3. ~Beyond(current) => At(current).type = "EOF" /\ At(current).value = <<>>
    BY <1>6, <2>2 DEF At
  <2>4. is_at_end
    BY <2>3 DEF is_at_end, is_token_type
  <2>5. QED
    BY <1>3, <1>4, <2>1, <2>3, <2>4
<1>11. QED
  BY <1>1, <1>7, <1>9, <1>10 DEF N

-----------------------------------------------------------------------------
(* Steps over tokens, steps at their end, and refusals.                    *)

LEMMA TokensStay ==
  ASSUME IInv, GInv, pc \in Looking \cup {"config"}, pc' \notin {"open", "lex"},
         UNCHANGED <<content, pos, tokens>>
  PROVE  TokensTyped' /\ EOFIsLast' /\ NothingYet' /\ Words' = Words /\ EndsWithEOF' = EndsWithEOF
<1>1. TokensTyped'
  BY DEF GInv, TokensTyped
<1>2. EOFIsLast'
  BY DEF GInv, EOFIsLast
<1>3. EndsWithEOF' = EndsWithEOF
  BY DEF EndsWithEOF
<1>4. Words' = Words
  BY <1>3 DEF Words
<1>5. QED
  BY <1>1, <1>2, <1>3, <1>4 DEF NothingYet

(* Over tokens that may stand, to a place where what follows is known.     *)
LEMMA ReadStep ==
  ASSUME IInv, GInv, pc \in Looking \cup {"config"}, NEW t, t = Words,
         NEW next \in Looking \cup {"config"}, go(next), NEW to \in Nat, current' = to,
         current <= Len(t), \A i \in 1 .. Len(t) : current <= i /\ i < to => MayStand(t, i),
         Follows(t, to)'
  PROVE  GInv'
<1> DEFINE N == Len(t)
<1>1. N \in Nat /\ current \in 1 .. N
  BY Places
<1>2. pc' = next /\ UNCHANGED <<content, pos, tokens, beyond>>
  BY DEF go
<1>3. pc' \in Looking \cup {"config"} /\ pc' \notin {"open", "lex", "accepted", "rejected", "died"}
  BY <1>2 DEF Looking
<1>4. TokensTyped' /\ EOFIsLast' /\ NothingYet' /\ Words' = t
  BY <1>2, <1>3, TokensStay
<1>5. AcceptedIfGrammatical'
  BY <1>3 DEF AcceptedIfGrammatical
<1>6. \A i \in 1 .. N : i < current => MayStand(t, i)
  BY DEF GInv, ReadsGrammar, Reading
<1>7. \A i \in 1 .. N : i < to => MayStand(t, i)
  <2>1. \A i \in 1 .. N : i < current \/ current <= i
    <3> HIDE DEF N
    <3>1. QED
      BY <1>1
  <2>2. QED
    BY <1>6, <2>1
<1>8. ReadsGrammar'
  BY <1>4, <1>7 DEF ReadsGrammar, Reading, Follows
<1>9. QED
  BY <1>4, <1>5, <1>8 DEF GInv

(* In a block the tokens cannot end.                                       *)
LEMMA InsideServer ==
  ASSUME IInv, GInv, pc \in Looking, NEW t, t = Words, ~(current <= Len(t))
  PROVE  ~ClosesServer(t, Len(t))
<1> DEFINE N == Len(t)
<1>1. Lexed(t) /\ N \in Nat /\ current = N + 1
  BY Places
<1>2. N \in Int /\ N - 1 \in Int /\ N - 2 \in Int /\ N <= Len(t) /\ N - 1 <= Len(t) /\ N - 2 <= Len(t)
  <2>1. N <= Len(t)
    BY <1>1
  <2>2. QED
    BY <1>1, <2>1
<1>3. current - 1 = N /\ current - 2 = N - 1 /\ N - 1 - 1 = N - 2
  <2> HIDE DEF N
  <2>1. QED
    BY <1>1
<1>4. Follows(t, current) \/ ~ClosesServer(t, N)
  BY DEF GInv, ReadsGrammar, Reading, BrokeOff
<1> HIDE DEF N
<1>5. Follows(t, current) => ~ClosesServer(t, N)
  <2> SUFFICES ASSUME Follows(t, current) PROVE ~ClosesServer(t, N)
    OBVIOUS
  <2>1. \/ KindAt(t, N) \in {"server", "listen", "index", "location", "VALUE", "LBRACE", "SEMICOLON"}
        \/ ClosesLocation(t, N)
    BY <1>1, <1>2, <1>3, Kinds DEF Follows, Looking, EndsServerItem, OpensServer, EndsDirective
  <2>2. ClosesServer(t, N) => KindAt(t, N) = "RBRACE" /\ ~ClosesLocation(t, N)
    BY <1>1, <1>2, Kinds DEF ClosesServer
  <2>3. QED
    BY <2>1, <2>2
<1>6. QED
  BY <1>4, <1>5 DEF N

(* Where there is no token a step leads on only by what is behind them.    *)
LEMMA EndStep ==
  ASSUME IInv, GInv, pc \in Looking, NEW t, t = Words, ~(current <= Len(t)),
         NEW next \in Looking \cup {"config"}, go(next), current' = current,
         next = "semicolon" \/ At(current).type # "EOF"
  PROVE  GInv'
<1> DEFINE N == Len(t)
<1>1. N \in Nat /\ current = N + 1 /\ (~Beyond(current) => At(current).type = "EOF")
  BY Places
<1>2. pc' = next /\ UNCHANGED <<content, pos, tokens, beyond>>
  BY DEF go
<1>3. pc' \in Looking \cup {"config"} /\ pc' \notin {"open", "lex", "accepted", "rejected", "died"}
  BY <1>2 DEF Looking
<1>4. TokensTyped' /\ EOFIsLast' /\ NothingYet' /\ Words' = t
  BY <1>2, <1>3, TokensStay
<1>5. AcceptedIfGrammatical'
  BY <1>3 DEF AcceptedIfGrammatical
<1>6. \A i \in 1 .. N : i < current => MayStand(t, i)
  BY DEF GInv, ReadsGrammar, Reading
<1>7. ~ClosesServer(t, N)
  BY InsideServer
<1>8. current > N
  <2> HIDE DEF N
  <2>1. QED
    BY <1>1
<1>9. pc' = "semicolon" \/ Beyond(current)
  BY <1>1, <1>2
<1>10. ReadsGrammar'
  BY <1>2, <1>4, <1>6, <1>7, <1>8, <1>9 DEF ReadsGrammar, Reading, BrokeOff, Beyond
<1>11. QED
  BY <1>4, <1>5, <1>10 DEF GInv

LEMMA Refused ==
  ASSUME IInv, GInv, pc \in Looking \cup {"config"}, throw, ~Grammatical(Words)
  PROVE  GInv'
<1>1. pc' \in {"rejected", "died"} /\ UNCHANGED <<content, pos, tokens>>
  BY DEF throw
<1>2. TokensTyped' /\ EOFIsLast' /\ NothingYet' /\ Words' = Words
  BY <1>1, TokensStay
<1>3. ReadsGrammar'
  BY <1>1 DEF ReadsGrammar, Looking
<1>4. AcceptedIfGrammatical'
  BY <1>1, <1>2 DEF AcceptedIfGrammatical
<1>5. QED
  BY <1>2, <1>3, <1>4 DEF GInv

LEMMA RefuseStep ==
  ASSUME IInv, GInv, pc \in Looking \cup {"config"}, NEW t, t = Words, throw,
         current <= Len(t) /\ Follows(t, current) => ~MayStand(t, current),
         ~(current <= Len(t)) => pc \in Looking
  PROVE  GInv'
<1>1. ~Grammatical(t)
  <2>1. CASE current <= Len(t)
    <3>1. current \in 1 .. Len(t) /\ Len(t) \in Nat
      BY <2>1, Places
    <3>2. Follows(t, current)
      <4>1. Follows(t, current) \/ current > Len(t)
        BY DEF GInv, ReadsGrammar, Reading, BrokeOff
      <4> DEFINE N == Len(t)
      <4>2. ~(current > N)
        <5>1. current <= N /\ N \in Nat /\ current \in 1 .. N
          BY <2>1, <3>1
        <5> HIDE DEF N
        <5>2. QED
          BY <5>1
      <4>3. QED
        BY <4>1, <4>2
    <3>3. QED
      BY <2>1, <3>1, <3>2 DEF Grammatical
  <2>2. CASE ~(current <= Len(t))
    BY <2>2, InsideServer DEF Grammatical
  <2>3. QED
    BY <2>1, <2>2
<1>2. QED
  BY <1>1, Refused

-----------------------------------------------------------------------------
(* The parser's steps.                                                     *)

LEMMA PlaceOf ==
  ASSUME NEW t, Len(t) \in Nat, NEW i \in 1 .. Len(t)
  PROVE  /\ i \in Nat /\ i \in Int /\ i - 1 \in Int /\ i - 2 \in Int /\ i + 1 \in Nat /\ i > 0
         /\ i <= Len(t) /\ i - 1 <= Len(t) /\ i - 2 <= Len(t) /\ i \in 1 .. Len(t) + 1
         /\ i + 1 - 1 = i /\ i + 1 - 2 = i - 1 /\ i - 1 - 1 = i - 2
         /\ \A k \in 1 .. Len(t) : i <= k /\ k < i + 1 => k = i
<1> DEFINE N == Len(t)
<1>1. N \in Nat /\ i \in 1 .. N
  OBVIOUS
<1> HIDE DEF N
<1>2. /\ i \in Nat /\ i \in Int /\ i - 1 \in Int /\ i - 2 \in Int /\ i + 1 \in Nat /\ i > 0
      /\ i <= N /\ i - 1 <= N /\ i - 2 <= N /\ i \in 1 .. N + 1
      /\ i + 1 - 1 = i /\ i + 1 - 2 = i - 1 /\ i - 1 - 1 = i - 2
      /\ \A k \in 1 .. N : i <= k /\ k < i + 1 => k = i
  BY <1>1
<1>3. QED
  BY <1>2 DEF N

(* One token is read.                                                      *)
LEMMA OneStep ==
  ASSUME IInv, GInv, pc \in Looking \cup {"config"}, NEW t, t = Words,
         NEW next \in Looking \cup {"config"}, go(next), advance_token,
         NEW i, i = current, i <= Len(t), MayStand(t, i), Follows(t, i + 1)'
  PROVE  GInv'
<1>1. Len(t) \in Nat /\ i \in 1 .. Len(t) /\ ~is_at_end
  BY Places
<1>2. i + 1 \in Nat /\ \A k \in 1 .. Len(t) : i <= k /\ k < i + 1 => MayStand(t, k)
  BY <1>1, PlaceOf
<1>3. current' = i + 1
  BY <1>1 DEF advance_token
<1>4. QED
  BY <1>2, <1>3, ReadStep

LEMMA ExpectStep ==
  ASSUME IInv, GInv, NEW t, t = Words, NEW i, i = current,
         NEW state \in Looking, NEW type, type # "EOF", NEW next \in Looking,
         expected_token_type(state, type, next),
         i <= Len(t) /\ Follows(t, i) /\ t[i].type # type => ~MayStand(t, i),
         i <= Len(t) /\ Follows(t, i) /\ t[i].type = type => MayStand(t, i),
         i <= Len(t) /\ Follows(t, i) /\ t[i].type = type /\ pc' = next /\ UNCHANGED blockVars
           => Follows(t, i + 1)'
  PROVE  GInv'
<1>1. pc = state
  BY DEF expected_token_type
<1>2. /\ i <= Len(t) => At(current) = t[i] /\ ~is_at_end /\ Len(t) \in Nat /\ i \in 1 .. Len(t)
      /\ ~(i <= Len(t)) => is_at_end
  BY <1>1, Places
<1>3. CASE ~is_token_type(type)
  <2>1. throw
    BY <1>3 DEF expected_token_type
  <2>2. i <= Len(t) => t[i].type # type
    BY <1>2, <1>3 DEF is_token_type
  <2>3. QED
    BY <1>1, <2>1, <2>2, RefuseStep
<1>4. CASE is_token_type(type)
  <2>1. go(next) /\ advance_token /\ UNCHANGED blockVars /\ At(current).type = type
    BY <1>4 DEF expected_token_type, is_token_type
  <2>2. CASE i <= Len(t)
    <3>1. Follows(t, i)
      <4>1. Follows(t, i) \/ i > Len(t)
        BY <1>1 DEF GInv, ReadsGrammar, Reading, BrokeOff
      <4> DEFINE N == Len(t)
      <4>2. N \in Nat /\ i \in 1 .. N
        BY <1>2, <2>2
      <4>3. ~(i > N)
        <5> HIDE DEF N
        <5>1. QED
          BY <4>2
      <4>4. QED
        BY <4>1, <4>3
    <3>2. MayStand(t, i) /\ Follows(t, i + 1)'
      BY <1>2, <2>1, <2>2, <3>1 DEF go
    <3>3. QED
      BY <1>1, <2>1, <2>2, <3>2, OneStep
  <2>3. CASE ~(i <= Len(t))
    <3>1. current' = current
      BY <1>2, <2>1, <2>3 DEF advance_token
    <3>2. QED
      BY <1>1, <2>1, <2>3, <3>1, EndStep
  <2>4. QED
    BY <2>2, <2>3
<1>5. QED
  BY <1>3, <1>4

(* After a value that ends a directive only ';' may stand.                 *)
LEMMA EndsDirectiveProperties ==
  ASSUME NEW t, Lexed(t), Len(t) \in Nat, NEW i \in 1 .. Len(t), EndsDirective(t, i)
  PROVE  /\ KindAt(t, i - 1) = "VALUE" /\ KindAt(t, i - 2) # "location"
         /\ MayStand(t, i) => KindAt(t, i) = "SEMICOLON"
<1>1. /\ i - 1 \in Int /\ i - 2 \in Int /\ i - 1 <= Len(t) /\ i - 2 <= Len(t) /\ i \in Int
      /\ i <= Len(t) /\ i \in 1 .. Len(t) + 1
  BY PlaceOf
<1>2. KindAt(t, i - 1) = "VALUE"
  BY <1>1, Kinds DEF EndsDirective
<1>3. KindAt(t, i - 2) # "location"
  <2>1. IsWord(t, i - 2, "listen") \/ \E j \in IndexBefore(t, i) : TRUE
    BY DEF EndsDirective, DirectiveEnds
  <2>2. CASE IsWord(t, i - 2, "listen")
    BY <1>1, <2>2, Kinds
  <2>3. ASSUME NEW j \in IndexBefore(t, i)
        PROVE  KindAt(t, i - 2) # "location"
    BY <1>1, <1>2, IndexesBefore
  <2>4. QED
    BY <2>1, <2>2, <2>3
<1>4. MayStand(t, i) => KindAt(t, i) = "SEMICOLON"
  <2> SUFFICES ASSUME MayStand(t, i) PROVE KindAt(t, i) = "SEMICOLON"
    OBVIOUS
  <2>1. KindAt(t, i - 2) = "listen" \/ KindAt(t, i) # "VALUE"
    BY <1>1, Kinds DEF EndsDirective, IsA
  <2>2. KindAt(t, i) # "VALUE"
    BY <1>2, <2>1, MayFollow
  <2>3. QED
    BY <1>2, <1>3, <2>2, MayFollow
<1>5. QED
  BY <1>2, <1>3, <1>4

(* '{' after server, '{' after a path and ';'.                             *)
LEMMA ExpectedSteps ==
  ASSUME IInv, GInv, server_lbrace \/ semicolon \/ location_lbrace
  PROVE  GInv'
<1>1. PICK t : t = Words
  OBVIOUS
<1>2. PICK i : i = current
  OBVIOUS
<1>3. pc \in Looking
  BY DEF server_lbrace, semicolon, location_lbrace, expected_token_type, Looking
<1>4. Lexed(t) /\ Len(t) \in Nat /\ (i <= Len(t) => i \in 1 .. Len(t))
  BY <1>1, <1>2, <1>3, Places
<1>5. i <= Len(t) =>
        /\ i \in Int /\ i - 1 \in Int /\ i - 2 \in Int
        /\ i <= Len(t) /\ i - 1 <= Len(t) /\ i - 2 <= Len(t)
        /\ i + 1 - 1 = i /\ i + 1 - 2 = i - 1 /\ i - 1 - 1 = i - 2
  BY <1>4, PlaceOf
<1>6. i <= Len(t) =>
        /\ IsA(t, i, "LBRACE") <=> t[i].type = "LBRACE"
        /\ IsA(t, i, "SEMICOLON") <=> t[i].type = "SEMICOLON"
        /\ IsA(t, i, "LBRACE") <=> KindAt(t, i) = "LBRACE"
        /\ IsA(t, i, "SEMICOLON") <=> KindAt(t, i) = "SEMICOLON"
  <2> SUFFICES ASSUME i <= Len(t)
               PROVE  /\ IsA(t, i, "LBRACE") <=> t[i].type = "LBRACE"
                      /\ IsA(t, i, "SEMICOLON") <=> t[i].type = "SEMICOLON"
                      /\ IsA(t, i, "LBRACE") <=> KindAt(t, i) = "LBRACE"
                      /\ IsA(t, i, "SEMICOLON") <=> KindAt(t, i) = "SEMICOLON"
    OBVIOUS
  <2>1. i > 0
    BY <1>4, PlaceOf
  <2>2. QED
    BY <1>4, <1>5, <2>1, Kinds DEF IsA
<1>7. CASE server_lbrace
  <2>1. expected_token_type("server_lbrace", "LBRACE", "server") /\ pc = "server_lbrace"
    BY <1>7 DEF server_lbrace, expected_token_type
  <2>2. i <= Len(t) /\ Follows(t, i) => KindAt(t, i - 1) = "server" /\ IsWord(t, i - 1, "server")
    BY <1>4, <1>5, <2>1, Kinds DEF Follows
  <2>3. i <= Len(t) /\ Follows(t, i) /\ t[i].type # "LBRACE" => ~MayStand(t, i)
    BY <1>4, <1>6, <2>2, MayFollow
  <2>4. i <= Len(t) /\ Follows(t, i) /\ t[i].type = "LBRACE" => OpensServer(t, i)
    BY <1>6, <2>2 DEF OpensServer
  <2>5. i <= Len(t) /\ Follows(t, i) /\ t[i].type = "LBRACE" => MayStand(t, i)
    BY <2>4 DEF MayStand
  <2>6. i <= Len(t) /\ Follows(t, i) /\ t[i].type = "LBRACE" /\ pc' = "server"
          /\ UNCHANGED blockVars => Follows(t, i + 1)'
    BY <1>5, <2>1, <2>4 DEF Follows, EndsServerItem, blockVars
  <2>7. "server_lbrace" \in Looking /\ "server" \in Looking
    BY DEF Looking
  <2>8. QED
    BY <1>1, <1>2, <2>1, <2>3, <2>5, <2>6, <2>7, ExpectStep
<1>8. CASE semicolon
  <2>1. expected_token_type("semicolon", "SEMICOLON", "server") /\ pc = "semicolon"
    BY <1>8 DEF semicolon, expected_token_type
  <2>2. Follows(t, i) => EndsDirective(t, i) /\ ~has_location
    BY <2>1 DEF Follows
  <2>3. i <= Len(t) /\ Follows(t, i) /\ t[i].type # "SEMICOLON" => ~MayStand(t, i)
    BY <1>4, <1>6, <2>2, EndsDirectiveProperties
  <2>4. i <= Len(t) /\ Follows(t, i) /\ t[i].type = "SEMICOLON" => MayStand(t, i)
    BY <1>6, <2>2 DEF MayStand, EndsDirective
  <2>5. i <= Len(t) /\ Follows(t, i) /\ t[i].type = "SEMICOLON" /\ pc' = "server"
          /\ UNCHANGED blockVars => Follows(t, i + 1)'
    BY <1>5, <1>6, <2>2 DEF Follows, EndsServerItem, blockVars
  <2>6. "semicolon" \in Looking /\ "server" \in Looking
    BY DEF Looking
  <2>7. QED
    BY <1>1, <1>2, <2>1, <2>3, <2>4, <2>5, <2>6, ExpectStep
<1>9. CASE location_lbrace
  <2>1. expected_token_type("location_lbrace", "LBRACE", "location_rbrace") /\ pc = "location_lbrace"
    BY <1>9 DEF location_lbrace, expected_token_type
  <2>2. i <= Len(t) /\ Follows(t, i) =>
          /\ IsA(t, i - 1, "VALUE") /\ IsWord(t, i - 2, "location")
          /\ KindAt(t, i - 1) = "VALUE" /\ KindAt(t, i - 2) = "location"
    BY <1>4, <1>5, <2>1, Kinds DEF Follows
  <2>3. i <= Len(t) /\ Follows(t, i) /\ t[i].type # "LBRACE" => ~MayStand(t, i)
    BY <1>4, <1>6, <2>2, MayFollow
  <2>4. i <= Len(t) /\ Follows(t, i) /\ t[i].type = "LBRACE" => MayStand(t, i)
    BY <1>6, <2>2 DEF MayStand
  <2>5. i <= Len(t) /\ Follows(t, i) /\ t[i].type = "LBRACE" /\ pc' = "location_rbrace"
          /\ UNCHANGED blockVars => Follows(t, i + 1)'
    BY <1>5, <1>6, <2>2 DEF Follows
  <2>6. "location_lbrace" \in Looking /\ "location_rbrace" \in Looking
    BY DEF Looking
  <2>7. QED
    BY <1>1, <1>2, <2>1, <2>3, <2>4, <2>5, <2>6, ExpectStep
<1>10. QED
  BY <1>7, <1>8, <1>9

(* What the looks at *_current tell where there is a token.                *)
LEMMA Situation ==
  ASSUME IInv, GInv, pc \in Looking \cup {"config"}, NEW t, t = Words, NEW i, i = current,
         i <= Len(t)
  PROVE  /\ Lexed(t) /\ Len(t) \in Nat /\ i \in 1 .. Len(t) /\ ~is_at_end /\ Follows(t, i)
         /\ At(current) = t[i] /\ current_token = t[i]
         /\ is_token_type("RBRACE") <=> KindAt(t, i) = "RBRACE"
         /\ is_token_type("VALUE") <=> KindAt(t, i) = "VALUE"
         /\ is_token_type("DIRECTIVE_KEYWORD") <=> KindAt(t, i) \in {"listen", "index"}
         /\ is_token_type("DIRECTIVE_KEYWORD") /\ is_token_value(<<"listen">>)
              <=> KindAt(t, i) = "listen"
         /\ is_token_type("DIRECTIVE_KEYWORD") /\ is_token_value(<<"index">>)
              <=> KindAt(t, i) = "index"
         /\ is_token_type("BLOC_KEYWORD") /\ is_token_value(<<"server">>)
              <=> KindAt(t, i) = "server"
         /\ is_token_type("BLOC_KEYWORD") /\ is_token_value(<<"location">>)
              <=> KindAt(t, i) = "location"
<1>1. /\ Lexed(t) /\ Len(t) \in Nat /\ i \in 1 .. Len(t) /\ ~is_at_end
      /\ At(current) = t[i] /\ current_token = t[i]
  BY Places
<1>2. Follows(t, i)
  <2>1. Follows(t, i) \/ i > Len(t)
    BY DEF GInv, ReadsGrammar, Reading, BrokeOff
  <2> DEFINE N == Len(t)
  <2>2. N \in Nat /\ i \in 1 .. N
    BY <1>1
  <2>3. ~(i > N)
    <3> HIDE DEF N
    <3>1. QED
      BY <2>2
  <2>4. QED
    BY <2>1, <2>3
<1> DEFINE tok == t[i]
<1>3. /\ Typed(tok) /\ tok.type # "EOF" /\ KindAt(t, i) = Kind(tok) /\ At(current) = tok
  BY <1>1, PlaceOf DEF Lexed, KindAt
<1> HIDE DEF tok
<1>4. /\ tok.value = <<"server">> /\ tok.type # "VALUE" <=> Kind(tok) = "server"
      /\ tok.value = <<"location">> /\ tok.type # "VALUE" <=> Kind(tok) = "location"
      /\ tok.value = <<"listen">> /\ tok.type # "VALUE" <=> Kind(tok) = "listen"
      /\ tok.value = <<"index">> /\ tok.type # "VALUE" <=> Kind(tok) = "index"
      /\ tok.type = "RBRACE" <=> Kind(tok) = "RBRACE"
      /\ tok.type = "VALUE" <=> Kind(tok) = "VALUE"
      /\ tok.type = "BLOC_KEYWORD" <=> Kind(tok) \in {"server", "location"}
      /\ tok.type = "DIRECTIVE_KEYWORD" <=> Kind(tok) \in {"listen", "index"}
  BY <1>3, KindOfToken, Zenon
<1>5. /\ is_token_type("RBRACE") <=> KindAt(t, i) = "RBRACE"
      /\ is_token_type("VALUE") <=> KindAt(t, i) = "VALUE"
      /\ is_token_type("DIRECTIVE_KEYWORD") <=> KindAt(t, i) \in {"listen", "index"}
      /\ is_token_type("DIRECTIVE_KEYWORD") /\ is_token_value(<<"listen">>)
           <=> KindAt(t, i) = "listen"
      /\ is_token_type("DIRECTIVE_KEYWORD") /\ is_token_value(<<"index">>)
           <=> KindAt(t, i) = "index"
      /\ is_token_type("BLOC_KEYWORD") /\ is_token_value(<<"server">>)
           <=> KindAt(t, i) = "server"
      /\ is_token_type("BLOC_KEYWORD") /\ is_token_value(<<"location">>)
           <=> KindAt(t, i) = "location"
  BY <1>3, <1>4 DEF is_token_type, is_token_value
<1>6. QED
  BY <1>1, <1>2, <1>5

(* parse_config: a file that ends after a block is all read.               *)
LEMMA ConfigReads ==
  ASSUME IInv, GInv, config_server \/ config_throws \/ config_ends
  PROVE  GInv'
<1>1. PICK t : t = Words
  OBVIOUS
<1>2. PICK i : i = current
  OBVIOUS
<1>3. pc = "config" /\ pc \in Looking \cup {"config"}
  BY DEF config_server, config_throws, config_ends
<1>4. /\ Lexed(t) /\ Len(t) \in Nat
      /\ ~(i <= Len(t)) => i = Len(t) + 1 /\ is_at_end
      /\ ~(i <= Len(t)) /\ Beyond(current) => ~EndsWithEOF
  BY <1>1, <1>2, <1>3, Places
<1>5. CASE config_server
  <2>1. /\ AtServer /\ ~is_at_end /\ go("server_lbrace") /\ advance_token
        /\ pc' = "server_lbrace" /\ has_location' = FALSE
    BY <1>5 DEF config_server, AtServer, go
  <2>2. i <= Len(t)
    BY <1>4, <2>1
  <2>3. i \in 1 .. Len(t) /\ Follows(t, i) /\ KindAt(t, i) = "server"
    BY <1>1, <1>2, <1>3, <2>1, <2>2, Situation DEF AtServer
  <2>4. i \in Int /\ i + 1 - 1 = i /\ IsWord(t, i, "server")
    BY <1>4, <2>2, <2>3, PlaceOf, Kinds
  <2>5. MayStand(t, i)
    BY <1>3, <2>3, <2>4 DEF MayStand, Follows
  <2>6. Follows(t, i + 1)'
    BY <2>1, <2>4 DEF Follows
  <2>7. "server_lbrace" \in Looking \cup {"config"}
    BY DEF Looking
  <2>8. QED
    BY <1>1, <1>2, <1>3, <2>1, <2>2, <2>5, <2>6, <2>7, OneStep
<1>6. CASE config_throws
  <2>1. ~is_at_end /\ ~AtServer /\ throw
    BY <1>6 DEF config_throws
  <2>2. i <= Len(t)
    BY <1>4, <2>1
  <2>3. i \in 1 .. Len(t) /\ Follows(t, i) /\ KindAt(t, i) # "server"
    BY <1>1, <1>2, <1>3, <2>1, <2>2, Situation DEF AtServer
  <2>4. i = 1 \/ ClosesServer(t, i - 1)
    BY <1>3, <2>3 DEF Follows
  <2>5. ~MayStand(t, i)
    BY <1>4, <2>3, <2>4, MayFollow
  <2>6. QED
    BY <1>1, <1>2, <1>3, <2>1, <2>2, <2>5, RefuseStep
<1>7. CASE config_ends
  <2>1. /\ is_at_end /\ UNCHANGED <<content, pos, tokens>>
        /\ servers = <<>> => pc' = "rejected"
        /\ servers # <<>> => pc' = "accepted"
    BY <1>7 DEF config_ends, go
  <2>2. pc' \in {"accepted", "rejected"}
    BY <2>1
  <2>3. ~(i <= Len(t)) /\ i = Len(t) + 1
    BY <1>1, <1>2, <1>3, <1>4, <2>1, Situation
  <2>4. TokensTyped' /\ EOFIsLast' /\ NothingYet' /\ Words' = t /\ EndsWithEOF' = EndsWithEOF
    BY <1>1, <1>3, <2>1, <2>2, TokensStay
  <2>5. ReadsGrammar'
    BY <2>2 DEF ReadsGrammar, Looking
  <2> DEFINE N == Len(t)
  <2>6. \A k \in 1 .. N : MayStand(t, k)
    <3>1. \A k \in 1 .. N : k < i => MayStand(t, k)
      BY <1>1, <1>2, <1>3 DEF GInv, ReadsGrammar, Reading
    <3>2. N \in Nat /\ i = N + 1
      BY <1>4, <2>3
    <3> HIDE DEF N
    <3>3. \A k \in 1 .. N : k < i
      BY <3>2
    <3>4. QED
      BY <3>1, <3>3
  <2>7. /\ i - 1 = N
        /\ i = 1 => N = 0
    <3>1. N \in Nat /\ i = N + 1
      BY <1>4, <2>3
    <3> HIDE DEF N
    <3>2. QED
      BY <3>1
  <2>8. Follows(t, i) \/ BrokeOff(t)
    BY <1>1, <1>2, <1>3 DEF GInv, ReadsGrammar, Reading
  <2>9. CASE BrokeOff(t)
    <3>1. ~ClosesServer(t, N) /\ ~EndsWithEOF
      BY <1>2, <1>3, <1>4, <2>3, <2>9 DEF BrokeOff
    <3>2. BreaksOff' /\ ~Grammatical(t)
      BY <2>4, <3>1 DEF BreaksOff, Grammatical
    <3>3. AcceptedIfGrammatical'
      BY <2>4, <3>2 DEF AcceptedIfGrammatical
    <3>4. QED
      BY <2>4, <2>5, <3>3 DEF GInv
  <2>10. CASE Follows(t, i)
    <3>1. CASE servers = <<>>
      <4>1. i = 1
        BY <1>3, <2>10, <3>1 DEF Follows
      <4>2. t = <<>>
        BY <2>7, <4>1, <1>4, EmptySeq DEF Lexed
      <4>3. ~Grammatical(t)
        BY <4>2 DEF Grammatical
      <4>4. AcceptedIfGrammatical'
        BY <2>1, <2>4, <3>1, <4>3 DEF AcceptedIfGrammatical
      <4>5. QED
        BY <2>4, <2>5, <4>4 DEF GInv
    <3>2. CASE servers # <<>>
      <4>1. ClosesServer(t, N)
        BY <1>3, <2>7, <2>10, <3>2 DEF Follows
      <4>2. t # <<>>
        <5> SUFFICES ASSUME t = <<>> PROVE FALSE
          OBVIOUS
        <5>1. N = 0
          OBVIOUS
        <5>2. QED
          BY <4>1, <5>1 DEF ClosesServer, IsA
      <4>3. Grammatical(t)
        BY <2>6, <4>1, <4>2 DEF Grammatical
      <4>4. AcceptedIfGrammatical'
        BY <2>1, <2>4, <3>2, <4>3 DEF AcceptedIfGrammatical
      <4>5. QED
        BY <2>4, <2>5, <4>4 DEF GInv
    <3>3. QED
      BY <3>1, <3>2
  <2>11. QED
    BY <2>8, <2>9, <2>10
<1>8. QED
  BY <1>5, <1>6, <1>7

(* A '}' where a directive, a location or the end of the block may stand.  *)
LEMMA ServerCloses ==
  ASSUME NEW t, Lexed(t), Len(t) \in Nat, NEW i \in 1 .. Len(t), KindAt(t, i) = "RBRACE",
         ClosesLocation(t, i - 1) \/ EndsServerItem(t, i - 1)
  PROVE  ClosesServer(t, i) /\ MayStand(t, i)
<1>1. /\ i \in Int /\ i - 1 \in Int /\ i - 2 \in Int /\ i <= Len(t) /\ i - 1 <= Len(t)
      /\ i - 2 <= Len(t) /\ i - 1 - 1 = i - 2
  BY PlaceOf
<1>2. KindAt(t, i - 1) # "LBRACE" \/ KindAt(t, i - 2) = "server"
  BY <1>1, Kinds DEF ClosesLocation, EndsServerItem, OpensServer
<1>3. ClosesServer(t, i)
  BY <1>1, <1>2, Kinds DEF ClosesServer, ClosesLocation
<1>4. QED
  BY <1>3 DEF MayStand, EndsServerItem

(* The loop of parse_server_block.                                         *)
LEMMA ServerReads ==
  ASSUME IInv, GInv,
         \/ server_rbrace \/ server_throws \/ location_begins
         \/ parse_server_directives("listen") \/ parse_server_directives("index")
  PROVE  GInv'
<1>1. PICK t : t = Words
  OBVIOUS
<1>2. PICK i : i = current
  OBVIOUS
<1>3. pc = "server" /\ pc \in Looking
  BY DEF server_rbrace, server_throws, location_begins, parse_server_directives, InServer, Looking
<1>4. Lexed(t) /\ Len(t) \in Nat /\ (~(i <= Len(t)) => is_at_end)
  BY <1>1, <1>2, <1>3, Places
<1>5. i <= Len(t) =>
        /\ i \in 1 .. Len(t) /\ ~is_at_end
        /\ \/ has_location /\ ClosesLocation(t, i - 1)
           \/ ~has_location /\ EndsServerItem(t, i - 1)
        /\ is_token_type("RBRACE") <=> KindAt(t, i) = "RBRACE"
        /\ is_token_type("DIRECTIVE_KEYWORD") <=> KindAt(t, i) \in {"listen", "index"}
        /\ is_token_type("DIRECTIVE_KEYWORD") /\ is_token_value(<<"listen">>)
             <=> KindAt(t, i) = "listen"
        /\ is_token_type("DIRECTIVE_KEYWORD") /\ is_token_value(<<"index">>)
             <=> KindAt(t, i) = "index"
        /\ is_token_type("BLOC_KEYWORD") /\ is_token_value(<<"location">>)
             <=> KindAt(t, i) = "location"
  BY <1>1, <1>2, <1>3, Situation DEF Follows
<1>6. i <= Len(t) =>
        /\ i \in Int /\ i - 1 \in Int /\ i - 2 \in Int /\ i <= Len(t) /\ i - 1 <= Len(t)
        /\ i - 2 <= Len(t) /\ i + 1 - 1 = i /\ i - 1 - 1 = i - 2
  BY <1>4, <1>5, PlaceOf
<1>7. CASE server_rbrace
  <2>1. /\ is_token_type("RBRACE") /\ go("config") /\ advance_token
        /\ servers' = Append(servers, server) /\ pc' = "config"
    BY <1>7 DEF server_rbrace, go
  <2>2. CASE i <= Len(t)
    <3>1. ClosesServer(t, i) /\ MayStand(t, i)
      BY <1>4, <1>5, <2>1, <2>2, ServerCloses
    <3>2. servers' # <<>>
      BY <2>1 DEF IInv, TypeOK
    <3>3. Follows(t, i + 1)'
      BY <1>6, <2>1, <2>2, <3>1, <3>2 DEF Follows
    <3>4. QED
      BY <1>1, <1>2, <1>3, <2>1, <2>2, <3>1, <3>3, OneStep
  <2>3. CASE ~(i <= Len(t))
    <3>1. current' = current /\ At(current).type # "EOF"
      BY <1>4, <2>1, <2>3 DEF advance_token, is_token_type
    <3>2. QED
      BY <1>1, <1>2, <1>3, <2>1, <2>3, <3>1, EndStep
  <2>4. QED
    BY <2>2, <2>3
<1>8. CASE server_throws
  <2>1. /\ ~is_token_type("RBRACE") /\ throw
        /\ is_at_end \/ (~directive_allowed /\ ~AtLocation)
    BY <1>8 DEF server_throws
  <2>2. i <= Len(t) => ~MayStand(t, i)
    <3> SUFFICES ASSUME i <= Len(t), MayStand(t, i) PROVE FALSE
      OBVIOUS
    <3>1. /\ KindAt(t, i) # "RBRACE" /\ KindAt(t, i) # "location"
          /\ KindAt(t, i) \in {"listen", "index"} => has_location
      BY <1>5, <2>1 DEF directive_allowed, AtLocation
    <3>2. CASE has_location /\ ClosesLocation(t, i - 1)
      BY <1>4, <1>5, <3>1, <3>2, MayFollow
    <3>3. CASE ~has_location /\ EndsServerItem(t, i - 1)
      BY <1>4, <1>5, <3>1, <3>3, MayFollow
    <3>4. QED
      BY <1>5, <3>2, <3>3
  <2>3. QED
    BY <1>1, <1>2, <1>3, <2>1, <2>2, RefuseStep
<1>9. CASE location_begins
  <2>1. /\ AtLocation /\ ~is_at_end /\ go("location") /\ advance_token /\ pc' = "location"
    BY <1>9 DEF location_begins, InServer, go
  <2>2. i <= Len(t)
    BY <1>4, <2>1
  <2>3. IsWord(t, i, "location")
    BY <1>4, <1>5, <1>6, <2>1, <2>2, Kinds DEF AtLocation
  <2>4. MayStand(t, i)
    BY <1>5, <2>2, <2>3 DEF MayStand, EndsServerItem
  <2>5. Follows(t, i + 1)'
    BY <1>6, <2>1, <2>2, <2>3 DEF Follows
  <2>6. "location" \in Looking
    BY DEF Looking
  <2>7. QED
    BY <1>1, <1>2, <1>3, <2>1, <2>2, <2>4, <2>5, <2>6, OneStep
<1>10. ASSUME NEW keyword \in {"listen", "index"}, parse_server_directives(keyword)
       PROVE  GInv'
  <2>1. /\ is_token_type("DIRECTIVE_KEYWORD") /\ ~has_location /\ is_token_value(<<keyword>>)
        /\ ~is_at_end /\ go(keyword) /\ advance_token /\ pc' = keyword
        /\ has_location' = has_location
    BY <1>10 DEF parse_server_directives, InServer, directive_allowed, go, blockVars
  <2>2. i <= Len(t)
    BY <1>4, <2>1
  <2>3. IsWord(t, i, keyword) /\ IsA(t, i, "DIRECTIVE_KEYWORD")
    BY <1>4, <1>5, <1>6, <2>1, <2>2, Kinds
  <2>4. MayStand(t, i)
    BY <1>5, <2>1, <2>2, <2>3 DEF MayStand, EndsServerItem
  <2>5. Follows(t, i + 1)'
    BY <1>6, <2>1, <2>2, <2>3 DEF Follows
  <2>6. keyword \in Looking
    BY DEF Looking
  <2>7. QED
    BY <1>1, <1>2, <1>3, <2>1, <2>2, <2>4, <2>5, <2>6, OneStep
<1>11. QED
  BY <1>7, <1>8, <1>9, <1>10

(* A path that ends in '/' is what the code and the language call it.      *)
LEMMA DirectoryIsNamed ==
  \A word : is_directory(word) <=> NamesDirectory(word)
BY DEF is_directory, NamesDirectory, IsPath, Last

(* The path of a location and its '}'.                                     *)
LEMMA LocationReads ==
  ASSUME IInv, GInv, location_url \/ location_rbrace
  PROVE  GInv'
<1>1. PICK t : t = Words
  OBVIOUS
<1>2. PICK i : i = current
  OBVIOUS
<1>3. pc \in {"location", "location_rbrace"} /\ pc \in Looking
  BY DEF location_url, location_rbrace, Looking
<1>4. Lexed(t) /\ Len(t) \in Nat /\ (~(i <= Len(t)) => is_at_end)
  BY <1>1, <1>2, <1>3, Places
<1>5. i <= Len(t) =>
        /\ i \in 1 .. Len(t) /\ ~is_at_end /\ Follows(t, i) /\ current_token = t[i]
        /\ is_token_type("RBRACE") <=> KindAt(t, i) = "RBRACE"
        /\ is_token_type("VALUE") <=> KindAt(t, i) = "VALUE"
  BY <1>1, <1>2, <1>3, Situation
<1>6. i <= Len(t) =>
        /\ i \in Int /\ i - 1 \in Int /\ i - 2 \in Int /\ i <= Len(t) /\ i - 1 <= Len(t)
        /\ i - 2 <= Len(t) /\ i + 1 - 1 = i /\ i + 1 - 2 = i - 1
  BY <1>4, <1>5, PlaceOf
<1>7. CASE location_url
  <2>1. pc = "location"
    BY <1>7 DEF location_url
  <2>2. i <= Len(t) => IsWord(t, i - 1, "location") /\ KindAt(t, i - 1) = "location"
    BY <1>4, <1>5, <1>6, <2>1, Kinds DEF Follows
  <2>3. CASE is_token_type("VALUE") /\ is_directory(current_token.value)
    <3>1. /\ go("location_lbrace") /\ advance_token /\ pc' = "location_lbrace"
      BY <1>7, <2>3 DEF location_url, go
    <3>2. i <= Len(t)
      BY <1>4, <2>3 DEF is_directory, current_token
    <3>3. IsA(t, i, "VALUE") /\ NamesDirectory(t[i].value)
      BY <1>4, <1>5, <1>6, <2>3, <3>2, Kinds, DirectoryIsNamed
    <3>4. MayStand(t, i)
      BY <2>2, <3>2, <3>3 DEF MayStand
    <3>5. Follows(t, i + 1)'
      BY <1>6, <2>2, <3>1, <3>2, <3>3 DEF Follows
    <3>6. "location_lbrace" \in Looking
      BY DEF Looking
    <3>7. QED
      BY <1>1, <1>2, <1>3, <3>1, <3>2, <3>4, <3>5, <3>6, OneStep
  <2>4. CASE ~(is_token_type("VALUE") /\ is_directory(current_token.value))
    <3>1. throw
      BY <1>7, <2>4 DEF location_url
    <3>2. i <= Len(t) => ~MayStand(t, i)
      BY <1>4, <1>5, <2>2, <2>4, MayFollow, DirectoryIsNamed
    <3>3. QED
      BY <1>1, <1>2, <1>3, <3>1, <3>2, RefuseStep
  <2>5. QED
    BY <2>3, <2>4
<1>8. CASE location_rbrace
  <2>1. pc = "location_rbrace"
    BY <1>8 DEF location_rbrace
  <2>2. i <= Len(t) => /\ IsA(t, i - 1, "LBRACE") /\ IsA(t, i - 2, "VALUE")
                       /\ KindAt(t, i - 1) = "LBRACE" /\ KindAt(t, i - 2) = "VALUE"
    BY <1>4, <1>5, <1>6, <2>1, Kinds DEF Follows
  <2>3. CASE is_token_type("RBRACE")
    <3>1. /\ go("server") /\ advance_token /\ pc' = "server" /\ has_location' = TRUE
      BY <1>8, <2>3 DEF location_rbrace, go
    <3>2. "server" \in Looking
      BY DEF Looking
    <3>3. CASE i <= Len(t)
      <4>1. ClosesLocation(t, i)
        BY <1>4, <1>5, <1>6, <2>2, <2>3, <3>3, Kinds DEF ClosesLocation
      <4>2. MayStand(t, i)
        BY <4>1 DEF MayStand
      <4>3. Follows(t, i + 1)'
        BY <1>6, <3>1, <3>3, <4>1 DEF Follows
      <4>4. QED
        BY <1>1, <1>2, <1>3, <3>1, <3>2, <3>3, <4>2, <4>3, OneStep
    <3>4. CASE ~(i <= Len(t))
      <4>1. current' = current /\ At(current).type # "EOF"
        BY <1>4, <2>3, <3>1, <3>4 DEF advance_token, is_token_type
      <4>2. QED
        BY <1>1, <1>2, <1>3, <3>1, <3>2, <3>4, <4>1, EndStep
    <3>5. QED
      BY <3>3, <3>4
  <2>4. CASE ~is_token_type("RBRACE")
    <3>1. throw
      BY <1>8, <2>4 DEF location_rbrace
    <3>2. i <= Len(t) => ~MayStand(t, i)
      BY <1>4, <1>5, <2>2, <2>4, MayFollow
    <3>3. QED
      BY <1>1, <1>2, <1>3, <3>1, <3>2, RefuseStep
  <2>5. QED
    BY <2>3, <2>4
<1>9. QED
  BY <1>7, <1>8

-----------------------------------------------------------------------------
(* Directives.  First the words of listen, and the parser's test for them. *)

LEMMA PortIsNumber ==
  ASSUME NEW digits
  PROVE  is_port(digits) <=> Len(digits) = 1 /\ digits[1] \in Ports
<1>1. \A p \in Digits : Number(p) # ERANGE /\ Number(p) <= MaxPort <=> p \in Ports
  <2> TAKE p \in Digits
  <2>1. \A n \in Nat : n # ERANGE /\ n <= MaxPort <=> n \in PortNumbers
    BY DEF ERANGE, MaxPort, PortNumbers
  <2>2. Number(p) \in Nat
    BY DigitsAssumption
  <2>3. QED
    BY <2>1, <2>2 DEF Ports
<1>2. QED
  BY <1>1 DEF is_port, Ports

LEMMA LastTwoOfSeq ==
  ASSUME NEW S, NEW s \in Seq(S), NEW m \in Nat, Len(s) = m + 2
  PROVE  s = SubSeq(s, 1, m) \o <<s[m + 1], s[m + 2]>>
<1> DEFINE h == SubSeq(s, 1, m)
<1> DEFINE e == <<s[m + 1], s[m + 2]>>
<1> DEFINE c == h \o e
<1>1. 0 \in Nat /\ 0 + m <= m + 2 /\ 0 + 1 = 1 /\ 0 + m = m
  OBVIOUS
<1>2. /\ h \in Seq(S) /\ Len(h) = m
      /\ \A i \in 1 .. m : h[i] = s[0 + i]
  BY <1>1, SubSeqOfSeq
<1>3. m + 1 \in 1 .. m + 2 /\ m + 2 \in 1 .. m + 2
  OBVIOUS
<1>4. s[m + 1] \in S /\ s[m + 2] \in S
  BY <1>3, ElementOfSeq
<1>5. e \in Seq(S) /\ Len(e) = 2 /\ e[1] = s[m + 1] /\ e[2] = s[m + 2]
  BY <1>4
<1> HIDE DEF h, e
<1>6. /\ c \in Seq(S) /\ Len(c) = m + 2
      /\ \A i \in 1 .. m : c[i] = h[i]
      /\ \A i \in 1 .. 2 : c[m + i] = e[i]
  <2>1. /\ c \in Seq(S) /\ Len(c) = Len(h) + Len(e)
        /\ \A i \in 1 .. Len(h) : c[i] = h[i]
        /\ \A i \in 1 .. Len(e) : c[Len(h) + i] = e[i]
    <3>1. h \in Seq(S) /\ e \in Seq(S)
      BY <1>2, <1>5
    <3>2. QED
      BY <3>1, ConcatOfSeq
  <2>2. QED
    BY <1>2, <1>5, <2>1
<1> HIDE DEF c
<1>7. \A i \in 1 .. m + 2 : c[i] = s[i]
  <2> TAKE i \in 1 .. m + 2
  <2>1. CASE i \in 1 .. m
    BY <1>2, <1>6, <2>1
  <2>2. CASE i = m + 1
    BY <1>5, <1>6, <2>2
  <2>3. CASE i = m + 2
    BY <1>5, <1>6, <2>3
  <2>4. QED
    BY <2>1, <2>2, <2>3
<1>8. c = s
  BY <1>6, <1>7, SeqEqual
<1>9. QED
  BY <1>8 DEF c, h, e

(* An address is short, and has no ':' in it.                              *)
LEMMA AddressIsWord ==
  ASSUME NEW h \in Seq(Piece \cup Delimiter)
  PROVE  /\ is_ip(h) <=> h \in Addresses
         /\ h \in Addresses => \A i \in 1 .. Len(h) : h[i] # ":"
<1>1. ":" \notin Digits /\ ":" # "*" /\ ":" # "."
  BY NamesAssumption, DigitsAssumption
<1>2. \A b \in Digits : Number(b) <= 255 <=> b \in Bytes
  <2>1. \A n \in Nat : n <= 255 <=> n \in 0 .. 255
    OBVIOUS
  <2>2. \A b \in Digits : Number(b) \in Nat
    BY DigitsAssumption
  <2>3. QED
    BY <2>1, <2>2 DEF Bytes
<1>3. Bytes \subseteq Digits
  BY DEF Bytes
<1>4. CASE h = <<"*">>
  <2>1. is_ip(h) /\ h \in Addresses
    BY <1>4 DEF is_ip, Addresses
  <2>2. Len(h) = 1 /\ h[1] = "*"
    BY <1>4
  <2>3. QED
    BY <1>1, <2>1, <2>2
<1>5. CASE h # <<"*">>
  <2>1. ASSUME is_ip(h) PROVE h \in Addresses
    <3>1. /\ Len(h) = 7 /\ h[2] = "." /\ h[4] = "." /\ h[6] = "."
          /\ h[1] \in Bytes /\ h[3] \in Bytes /\ h[5] \in Bytes /\ h[7] \in Bytes
      BY <1>2, <1>5, <2>1 DEF is_ip
    <3>2. h = <<h[1], ".", h[3], ".", h[5], ".", h[7]>>
      <4> DEFINE w == <<h[1], ".", h[3], ".", h[5], ".", h[7]>>
      <4>1. Len(w) = 7 /\ \A i \in 1 .. 7 : w[i] = h[i]
        BY <3>1
      <4>2. h \in Seq(Piece \cup Delimiter) /\ w \in Seq({h[i] : i \in 1 .. 7} \cup {"."})
        OBVIOUS
      <4> HIDE DEF w
      <4>3. h = w
        BY <3>1, <4>1, <4>2, SeqEqual
      <4>4. QED
        BY <4>3 DEF w
    <3>3. QED
      BY <3>1, <3>2 DEF Addresses
  <2>2. ASSUME h \in Addresses PROVE is_ip(h) /\ \A i \in 1 .. Len(h) : h[i] # ":"
    <3>1. PICK a \in Bytes, b \in Bytes, c \in Bytes, d \in Bytes :
            h = <<a, ".", b, ".", c, ".", d>>
      BY <1>5, <2>2 DEF Addresses
    <3>2. /\ Len(h) = 7 /\ h[2] = "." /\ h[4] = "." /\ h[6] = "."
          /\ h[1] = a /\ h[3] = b /\ h[5] = c /\ h[7] = d
      BY <3>1
    <3>3. \A i \in {1, 3, 5, 7} : h[i] \in Digits /\ Number(h[i]) <= 255
      BY <1>2, <1>3, <3>2
    <3>4. \A i \in {2, 4, 6} : h[i] = "."
      BY <3>2
    <3>5. \A i \in 1 .. 7 : i \in {1, 3, 5, 7} \/ i \in {2, 4, 6}
      OBVIOUS
    <3>6. \A i \in 1 .. 7 : h[i] # ":"
      BY <1>1, <3>3, <3>4, <3>5
    <3>7. is_ip(h)
      BY <3>2, <3>3, <3>4 DEF is_ip
    <3>8. QED
      BY <3>2, <3>6, <3>7
  <2>3. QED
    BY <2>1, <2>2
<1>6. QED
  BY <1>4, <1>5

(* What the parser takes apart of a word that has an address.              *)
LEMMA PartsOfWord ==
  ASSUME NEW word \in Seq(Piece \cup Delimiter), NEW m \in Nat, Len(word) = m + 2,
         Colons(word) = {m + 1}
  PROVE  /\ PortOf(word) = <<word[m + 2]>> /\ SubSeq(word, 1, Len(word) - 2) = SubSeq(word, 1, m)
         /\ IpOf(word) = IF SubSeq(word, 1, m) = <<"*">> THEN AnyAddress ELSE SubSeq(word, 1, m)
<1> DEFINE c == CHOOSE i \in Colons(word) : TRUE
<1> DEFINE p == SubSeq(word, c + 1, Len(word))
<1>1. c = m + 1 /\ Colons(word) # {}
  OBVIOUS
<1>2. c + 1 = (m + 1) + 1 /\ Len(word) = (m + 1) + 1 /\ c - 1 = m /\ Len(word) - 2 = m
      /\ m + 1 \in Nat /\ 1 \in Nat /\ (m + 1) + 1 <= Len(word) /\ (m + 1) + 1 = m + 2
  <2> DEFINE n == Len(word)
  <2>1. n = m + 2
    OBVIOUS
  <2> HIDE DEF n, c
  <2>2. c + 1 = (m + 1) + 1 /\ n = (m + 1) + 1 /\ c - 1 = m /\ n - 2 = m
        /\ m + 1 \in Nat /\ 1 \in Nat /\ (m + 1) + 1 <= n /\ (m + 1) + 1 = m + 2
    BY <1>1, <2>1
  <2>3. QED
    BY <2>2 DEF n
<1>3. p = SubSeq(word, (m + 1) + 1, (m + 1) + 1)
  BY <1>2
<1>4. p \in Seq(Piece \cup Delimiter) /\ Len(p) = 1 /\ p[1] = word[m + 2]
  <2>1. /\ SubSeq(word, (m + 1) + 1, (m + 1) + 1) \in Seq(Piece \cup Delimiter)
        /\ Len(SubSeq(word, (m + 1) + 1, (m + 1) + 1)) = 1
        /\ \A i \in 1 .. 1 : SubSeq(word, (m + 1) + 1, (m + 1) + 1)[i] = word[(m + 1) + i]
    BY <1>2, SubSeqOfSeq
  <2>2. 1 \in 1 .. 1
    OBVIOUS
  <2>3. QED
    BY <1>2, <1>3, <2>1, <2>2
<1>5. PortOf(word) = p
  BY <1>1, Zenon DEF PortOf
<1>6. p = <<word[m + 2]>>
  <2> HIDE DEF p
  <2>1. QED
    BY <1>4
<1>7. IpOf(word) = IF SubSeq(word, 1, c - 1) = <<"*">> THEN AnyAddress ELSE SubSeq(word, 1, c - 1)
  BY <1>1, Zenon DEF IpOf
<1> HIDE DEF c, p
<1>8. QED
  BY <1>2, <1>5, <1>6, <1>7

(* A word of the list that has an address, and the same seen from the      *)
(* place of the ':'.                                                       *)
HasParts(word, m) ==
  /\ m \in Nat /\ Len(word) = m + 2 /\ Colons(word) = {m + 1}
  /\ SubSeq(word, 1, m) \in Addresses /\ word[m + 2] \in Ports

LEMMA PartsOfListed ==
  ASSUME NEW h \in Addresses, NEW p \in Ports, NEW word \in Seq(Piece \cup Delimiter),
         word = h \o <<":", p>>
  PROVE  HasParts(word, Len(h))
<1> DEFINE P == Piece \cup Delimiter
<1> DEFINE e == <<":", p>>
<1> DEFINE m == Len(h)
<1>1. Digits \subseteq Piece /\ "*" \in Piece /\ "." \in Piece /\ ":" \in Piece
  BY DigitsAssumption DEF Piece
<1>2. p \in Digits /\ p # ":"
  BY NamesAssumption, DigitsAssumption DEF Ports
<1>3. h \in Seq(P)
  <2>1. Bytes \subseteq P /\ "*" \in P /\ "." \in P
    BY <1>1 DEF Bytes
  <2> HIDE DEF P
  <2>2. h = <<"*">> => h \in Seq(P)
    BY <2>1
  <2>3. \A a, b, c, d \in Bytes : <<a, ".", b, ".", c, ".", d>> \in Seq(P)
    BY <2>1
  <2>4. CASE h # <<"*">>
    <3>1. PICK a \in Bytes, b \in Bytes, c \in Bytes, d \in Bytes :
            h = <<a, ".", b, ".", c, ".", d>>
      BY <2>4 DEF Addresses
    <3>2. QED
      BY <2>3, <3>1
  <2>5. QED
    BY <2>2, <2>4
<1>4. e \in Seq(P) /\ Len(e) = 2 /\ e[1] = ":" /\ e[2] = p
  BY <1>1, <1>2
<1>5. m \in Nat /\ \A i \in 1 .. m : h[i] # ":"
  BY <1>3, AddressIsWord, LenProperties
<1>6. /\ Len(word) = m + 2 /\ \A i \in 1 .. m : word[i] = h[i]
      /\ word[m + 1] = ":" /\ word[m + 2] = p
  <2> HIDE DEF P, e
  <2>1. /\ Len(word) = Len(h) + Len(e) /\ \A i \in 1 .. Len(h) : word[i] = h[i]
        /\ \A i \in 1 .. Len(e) : word[Len(h) + i] = e[i]
    BY <1>3, <1>4, ConcatOfSeq DEF e
  <2>2. 1 \in 1 .. 2 /\ 2 \in 1 .. 2
    OBVIOUS
  <2>3. QED
    BY <1>4, <2>1, <2>2
<1>7. Colons(word) = {m + 1}
  <2>1. \A i \in 1 .. m + 2 : i \in 1 .. m \/ i = m + 1 \/ i = m + 2
    <3> HIDE DEF m
    <3>1. QED
      BY <1>5
  <2>2. m + 1 \in 1 .. m + 2
    <3> HIDE DEF m
    <3>1. QED
      BY <1>5
  <2>3. \A i \in 1 .. m + 2 : word[i] = ":" <=> i = m + 1
    <3> TAKE i \in 1 .. m + 2
    <3>1. CASE i \in 1 .. m
      <4>1. i # m + 1
        <5> HIDE DEF m
        <5>1. QED
          BY <1>5, <3>1
      <4>2. QED
        BY <1>5, <1>6, <3>1, <4>1
    <3>2. CASE i = m + 1
      BY <1>6, <3>2
    <3>3. CASE i = m + 2
      <4>1. m + 2 # m + 1
        <5> HIDE DEF m
        <5>1. QED
          BY <1>5
      <4>2. QED
        BY <1>2, <1>6, <3>3, <4>1
    <3>4. QED
      BY <2>1, <3>1, <3>2, <3>3
  <2> HIDE DEF m
  <2>4. QED
    BY <1>6, <2>2, <2>3 DEF Colons
<1>8. SubSeq(word, 1, m) = h
  <2> DEFINE s == SubSeq(word, 1, m)
  <2>1. 0 \in Nat /\ 0 + m <= Len(word) /\ 0 + 1 = 1 /\ 0 + m = m /\ \A i \in 1 .. m : 0 + i = i
    <3> HIDE DEF m
    <3>1. QED
      BY <1>5, <1>6
  <2>2. /\ SubSeq(word, 0 + 1, 0 + m) \in Seq(P) /\ Len(SubSeq(word, 0 + 1, 0 + m)) = m
        /\ \A i \in 1 .. m : SubSeq(word, 0 + 1, 0 + m)[i] = word[0 + i]
    BY <1>5, <2>1, SubSeqOfSeq
  <2>3. s \in Seq(P) /\ Len(s) = Len(h) /\ \A i \in 1 .. Len(s) : s[i] = h[i]
    BY <1>6, <2>1, <2>2
  <2> HIDE DEF s
  <2>4. s = h
    BY <1>3, <2>3, SeqEqual
  <2>5. QED
    BY <2>4 DEF s
<1>9. QED
  BY <1>5, <1>6, <1>7, <1>8 DEF HasParts

LEMMA PartsOfRead ==
  ASSUME NEW word \in Seq(Piece \cup Delimiter), is_listen_value(word), Colons(word) # {}
  PROVE  \E m \in Nat : HasParts(word, m)
<1> DEFINE n == Len(word)
<1> DEFINE m == n - 2
<1>1. n \in Nat /\ Colons(word) \subseteq 1 .. n
  BY LenProperties DEF Colons
<1>2. word # <<>>
  <2>1. n # 0
    <3> HIDE DEF n
    <3>1. QED
      BY <1>1
  <2>2. QED
    BY <2>1
<1>3. is_port(PortOf(word)) /\ is_ip(SubSeq(word, 1, m)) /\ Cardinality(Colons(word)) = 1
  BY <1>2 DEF is_listen_value
<1>4. PICK c : Colons(word) = {c}
  <2>1. 1 \in Int /\ n \in Int
    BY <1>1
  <2>2. IsFiniteSet(1 .. n)
    BY <2>1, FS_Interval
  <2>3. IsFiniteSet(Colons(word))
    BY <1>1, <2>2, FS_Subset
  <2>4. QED
    BY <1>3, <2>3, FS_Singleton
<1>5. c \in 1 .. n /\ c \in Nat
  <2>1. c \in 1 .. n
    BY <1>1, <1>4
  <2> HIDE DEF n
  <2>2. QED
    BY <1>1, <2>1
<1>6. PortOf(word) = SubSeq(word, c + 1, n)
  <2>1. c = CHOOSE i \in Colons(word) : TRUE
    BY <1>4
  <2>2. QED
    BY <1>4, <2>1 DEF PortOf
<1> DEFINE k == n - c
<1>7. k \in Nat /\ c + k = n /\ c + k <= n
  <2> HIDE DEF n
  <2>1. QED
    BY <1>1, <1>5
<1>8. Len(SubSeq(word, c + 1, n)) = k /\ \A i \in 1 .. k : SubSeq(word, c + 1, n)[i] = word[c + i]
  <2>1. /\ Len(SubSeq(word, c + 1, c + k)) = k
        /\ \A i \in 1 .. k : SubSeq(word, c + 1, c + k)[i] = word[c + i]
    <3> HIDE DEF k
    <3>1. QED
      BY <1>5, <1>7, SubSeqOfSeq
  <2>2. QED
    BY <1>7, <2>1
<1>9. k = 1 /\ word[c + 1] \in Ports
  <2>1. Len(PortOf(word)) = 1 /\ PortOf(word)[1] \in Ports
    BY <1>3, PortIsNumber
  <2>2. 1 \in 1 .. 1
    OBVIOUS
  <2> HIDE DEF k, n
  <2>3. QED
    BY <1>6, <1>8, <2>1, <2>2
<1>10. m \in Nat /\ n = m + 2 /\ c = m + 1 /\ c + 1 = m + 2
  <2> HIDE DEF n
  <2>1. QED
    BY <1>1, <1>5, <1>9
<1>11. SubSeq(word, 1, m) \in Addresses
  <2> DEFINE s == SubSeq(word, 1, m)
  <2>1. 0 \in Nat /\ 0 + m <= n /\ 0 + 1 = 1 /\ 0 + m = m
    <3> HIDE DEF n, m
    <3>1. QED
      BY <1>10
  <2>2. SubSeq(word, 0 + 1, 0 + m) \in Seq(Piece \cup Delimiter)
    BY <1>10, <2>1, SubSeqOfSeq
  <2>3. s \in Seq(Piece \cup Delimiter) /\ is_ip(s)
    BY <1>3, <2>1, <2>2
  <2> HIDE DEF s
  <2>4. s \in Addresses
    BY <2>3, AddressIsWord
  <2>5. QED
    BY <2>4 DEF s
<1> HIDE DEF m, k
<1>12. HasParts(word, m)
  BY <1>4, <1>9, <1>10, <1>11 DEF HasParts
<1>13. QED
  BY <1>10, <1>12

LEMMA PartsTell ==
  ASSUME NEW word \in Seq(Piece \cup Delimiter), NEW m \in Nat, HasParts(word, m)
  PROVE  /\ is_listen_value(word) /\ word \in ListenWords
         /\ Number(PortOf(word)[1]) = WrittenPort(word) /\ IpOf(word) = WrittenAddress(word)
<1> DEFINE h == SubSeq(word, 1, m)
<1> DEFINE p == word[m + 2]
<1>1. Len(word) = m + 2 /\ Colons(word) = {m + 1} /\ h \in Addresses /\ p \in Ports
  BY DEF HasParts
<1>2. /\ PortOf(word) = <<p>> /\ SubSeq(word, 1, Len(word) - 2) = h
      /\ IpOf(word) = IF h = <<"*">> THEN AnyAddress ELSE h
  BY <1>1, PartsOfWord
<1>3. h \in Seq(Piece \cup Delimiter) /\ Len(h) = m /\ \A i \in 1 .. m : h[i] = word[i]
  <2>1. 0 \in Nat /\ 0 + m <= Len(word) /\ 0 + 1 = 1 /\ 0 + m = m /\ \A i \in 1 .. m : 0 + i = i
    BY <1>1
  <2>2. /\ SubSeq(word, 0 + 1, 0 + m) \in Seq(Piece \cup Delimiter)
        /\ Len(SubSeq(word, 0 + 1, 0 + m)) = m
        /\ \A i \in 1 .. m : SubSeq(word, 0 + 1, 0 + m)[i] = word[0 + i]
    BY <2>1, SubSeqOfSeq
  <2>3. QED
    BY <2>1, <2>2
<1>4. word = h \o <<word[m + 1], p>> /\ word[m + 1] = ":"
  <2>1. word[m + 1] = ":"
    BY <1>1 DEF Colons
  <2>2. QED
    BY <1>1, <2>1, LastTwoOfSeq
<1>5. word \in ListenWords
  <2> HIDE DEF h, p
  <2>1. QED
    BY <1>1, <1>4 DEF ListenWords
<1>6. is_listen_value(word)
  <2>1. is_port(PortOf(word))
    <3> HIDE DEF p
    <3>1. Len(<<p>>) = 1 /\ <<p>>[1] \in Ports
      BY <1>1
    <3>2. QED
      BY <1>2, <3>1, PortIsNumber
  <2>2. is_ip(SubSeq(word, 1, Len(word) - 2))
    <3> HIDE DEF h
    <3>1. QED
      BY <1>1, <1>2, <1>3, AddressIsWord
  <2>3. Cardinality(Colons(word)) = 1
    BY <1>1, FS_Singleton
  <2>4. QED
    BY <2>1, <2>2, <2>3 DEF is_listen_value
<1>7. Number(PortOf(word)[1]) = WrittenPort(word)
  <2>1. PortOf(word)[1] = p
    <3> HIDE DEF p
    <3>1. QED
      BY <1>2
  <2>2. Last(word) = p
    BY <1>1 DEF Last
  <2> HIDE DEF p
  <2>3. QED
    BY <2>1, <2>2 DEF WrittenPort
<1>8. Len(word) # 1 /\ (word[1] = "*" <=> h = <<"*">>)
  <2>1. "*" \notin Digits /\ Bytes \subseteq Digits
    BY DigitsAssumption DEF Bytes
  <2> HIDE DEF h
  <2>2. CASE h = <<"*">>
    <3>1. Len(h) = 1 /\ h[1] = "*"
      BY <2>2
    <3>2. m = 1 /\ 1 \in 1 .. 1
      BY <1>3, <3>1
    <3>3. QED
      BY <1>1, <1>3, <2>2, <3>1, <3>2
  <2>3. CASE h # <<"*">>
    <3>1. PICK a \in Bytes, b \in Bytes, c \in Bytes, d \in Bytes :
            h = <<a, ".", b, ".", c, ".", d>>
      BY <1>1, <2>3 DEF Addresses
    <3>2. Len(h) = 7 /\ h[1] = a
      BY <3>1
    <3>3. m = 7 /\ 1 \in 1 .. 7
      BY <1>3, <3>2
    <3>4. QED
      BY <1>1, <1>3, <2>1, <2>3, <3>2, <3>3
  <2>4. QED
    BY <2>2, <2>3
<1>9. WrittenAddress(word) = IF h = <<"*">> THEN AnyAddress ELSE h
  <2> HIDE DEF h
  <2>1. QED
    BY <1>2, <1>8, Zenon DEF WrittenAddress
<1>10. QED
  BY <1>2, <1>5, <1>6, <1>7, <1>9

(* The parser takes for the value of listen the words of the list.         *)
LEMMA WordsOfListen ==
  ASSUME NEW word \in Seq(Piece \cup Delimiter), word # <<>>
  PROVE  /\ is_listen_value(word) <=> word \in ListenWords
         /\ word \in ListenWords => /\ Number(PortOf(word)[1]) = WrittenPort(word)
                                    /\ IpOf(word) = WrittenAddress(word)
<1>1. ASSUME NEW h \in Addresses, NEW p \in Ports, word = h \o <<":", p>>
      PROVE  \E m \in Nat : HasParts(word, m)
  <2>1. HasParts(word, Len(h))
    BY <1>1, PartsOfListed
  <2>2. QED
    BY <2>1 DEF HasParts
<1>2. CASE \E m \in Nat : HasParts(word, m)
  BY <1>2, PartsTell
<1>3. CASE ~\E m \in Nat : HasParts(word, m)
  <2>1. word \in ListenWords <=> \E p \in Ports : word = <<p>>
    <3>1. ASSUME word \in ListenWords PROVE \E p \in Ports : word = <<p>>
      <4>1. \/ \E p \in Ports : word = <<p>>
            \/ \E h \in Addresses, p \in Ports : word = h \o <<":", p>>
        <5>1. PICK p \in Ports : word \in {<<p>>} \cup {h \o <<":", p>> : h \in Addresses}
          BY <3>1 DEF ListenWords
        <5>2. word = <<p>> \/ \E h \in Addresses : word = h \o <<":", p>>
          BY <5>1
        <5>3. QED
          BY <5>2
      <4>2. ~\E h \in Addresses, p \in Ports : word = h \o <<":", p>>
        BY <1>1, <1>3, Zenon
      <4>3. QED
        BY <4>1, <4>2, Zenon
    <3>2. ASSUME NEW p \in Ports, word = <<p>> PROVE word \in ListenWords
      BY <3>2 DEF ListenWords
    <3>3. QED
      BY <3>1, <3>2
  <2>2. is_listen_value(word) => Colons(word) = {}
    BY <1>3, PartsOfRead
  <2>3. Cardinality({}) # 1
    BY FS_EmptySet
  <2>4. is_listen_value(word) <=> Colons(word) = {} /\ Len(word) = 1 /\ word[1] \in Ports
    BY <2>2, <2>3, PortIsNumber DEF is_listen_value
  <2>5. ASSUME NEW p \in Ports, word = <<p>> 
        PROVE  Colons(word) = {} /\ Len(word) = 1 /\ word[1] \in Ports
    <3>1. p # ":"
      BY NamesAssumption, DigitsAssumption DEF Ports
    <3>2. Len(word) = 1 /\ word[1] = p
      BY <2>5
    <3>3. QED
      BY <3>1, <3>2 DEF Colons
  <2>6. ASSUME Len(word) = 1, word[1] \in Ports PROVE \E p \in Ports : word = <<p>>
    <3>1. word = <<word[1]>>
      BY <2>6
    <3>2. QED
      BY <2>6, <3>1
  <2>7. is_listen_value(word) <=> word \in ListenWords
    BY <2>1, <2>4, <2>5, <2>6
  <2>8. ASSUME word \in ListenWords
        PROVE  Number(PortOf(word)[1]) = WrittenPort(word) /\ IpOf(word) = WrittenAddress(word)
    <3>1. Colons(word) = {} /\ Len(word) = 1
      BY <2>4, <2>7, <2>8
    <3>2. PortOf(word) = word /\ IpOf(word) = AnyAddress
      BY <3>1, Zenon DEF PortOf, IpOf
    <3>3. WrittenPort(word) = Number(word[1]) /\ WrittenAddress(word) = AnyAddress
      BY <3>1 DEF WrittenPort, WrittenAddress, Last
    <3>4. QED
      BY <3>2, <3>3
  <2>9. QED
    BY <2>7, <2>8
<1>4. QED
  BY <1>2, <1>3

(* No delimiter and no keyword is the value of listen.                     *)
LEMMA ListenIsValue ==
  ASSUME NEW tok, Typed(tok), tok.type # "EOF", is_listen_value(tok.value)
  PROVE  tok.type = "VALUE"
<1>1. ASSUME NEW c \in Delimiter \cup {"server", "location", "listen", "index"},
             tok.value = <<c>>
      PROVE  FALSE
  <2>1. c # ":" /\ c \notin Digits
    <3>1. CASE c \in Delimiter
      BY <3>1, NamesAssumption, DigitsAssumption DEF Delimiter
    <3>2. CASE c \in {"server", "location", "listen", "index"}
      BY <3>2, DigitsAssumption
    <3>3. QED
      BY <3>1, <3>2
  <2> DEFINE word == <<c>>
  <2>2. Len(word) = 1 /\ word[1] = c /\ word # <<>>
    OBVIOUS
  <2>3. Colons(word) = {}
    BY <2>1, <2>2 DEF Colons
  <2>4. ~is_port(word)
    BY <2>1, <2>2 DEF is_port
  <2>5. Cardinality(Colons(word)) # 1
    <3>1. Cardinality({}) = 0
      BY FS_EmptySet
    <3>2. QED
      BY <2>3, <3>1
  <2>6. ~is_listen_value(word)
    BY <2>2, <2>4, <2>5 DEF is_listen_value
  <2>7. QED
    BY <1>1, <2>6
<1>2. \/ tok.type = "VALUE"
      \/ \E c \in Delimiter \cup {"server", "location", "listen", "index"} : tok.value = <<c>>
  BY DEF Typed
<1>3. QED
  BY <1>1, <1>2

(* What a token's value is made of; the empty one is taken for a port.     *)
LEMMA ValueOfToken ==
  ASSUME NEW t, Lexed(t), NEW i \in 1 .. Len(t)
  PROVE  t[i].value \in Seq(Piece \cup Delimiter)
<1>1. t[i] \in Token
  BY ElementOfSeq DEF Lexed
<1>2. QED
  BY <1>1 DEF Token

LEMMA EmptyIsListened == \A word : ~is_listen_value(word) => word # <<>>
BY DEF is_listen_value

LEMMA ListenReads ==
  ASSUME IInv, GInv, parse_listen_directive
  PROVE  GInv'
<1>1. PICK t : t = Words
  OBVIOUS
<1>2. PICK i : i = current
  OBVIOUS
<1>3. pc = "listen" /\ pc \in Looking
  BY DEF parse_listen_directive, Looking
<1>4. Lexed(t) /\ Len(t) \in Nat /\ (~(i <= Len(t)) => is_at_end)
  BY <1>1, <1>2, <1>3, Places
<1>5. i <= Len(t) => /\ i \in 1 .. Len(t) /\ ~is_at_end /\ Follows(t, i) /\ At(current) = t[i]
  BY <1>1, <1>2, <1>3, Situation
<1>6. i <= Len(t) =>
        /\ i \in Int /\ i - 1 \in Int /\ i > 0 /\ i <= Len(t) /\ i - 1 <= Len(t)
        /\ i + 1 - 1 = i /\ i + 1 - 2 = i - 1
  BY <1>4, <1>5, PlaceOf
<1>7. i <= Len(t) => /\ IsWord(t, i - 1, "listen") /\ ~has_location
                     /\ KindAt(t, i - 1) = "listen"
  BY <1>3, <1>4, <1>5, <1>6, Kinds DEF Follows
<1>8. CASE ~is_listen_value(At(current).value)
  <2>1. throw
    BY <1>8 DEF parse_listen_directive
  <2>2. i <= Len(t) => t[i].value \notin ListenWords
    BY <1>4, <1>5, <1>8, ValueOfToken, WordsOfListen, EmptyIsListened
  <2>3. i <= Len(t) => ~MayStand(t, i)
    BY <1>4, <1>5, <1>7, <2>2, MayFollow
  <2>4. QED
    BY <1>1, <1>2, <1>3, <2>1, <2>3, RefuseStep
<1>9. CASE is_listen_value(At(current).value)
  <2>1. /\ go("semicolon") /\ advance_token /\ pc' = "semicolon" /\ has_location' = has_location
    BY <1>9 DEF parse_listen_directive, go
  <2>2. "semicolon" \in Looking
    BY DEF Looking
  <2>3. CASE i <= Len(t)
    <3> DEFINE tok == t[i]
    <3>1. Typed(tok) /\ tok.type # "EOF" /\ is_listen_value(tok.value)
      BY <1>4, <1>5, <1>9, <2>3 DEF Lexed
    <3>2. tok.type = "VALUE"
      <4> HIDE DEF tok
      <4>1. QED
        BY <3>1, ListenIsValue
    <3>3. IsA(t, i, "VALUE")
      BY <1>6, <2>3, <3>2 DEF IsA
    <3>4. MayStand(t, i)
      <4>1. t[i].value # <<>>
        <5>1. \A c \in Delimiter : type_of_delimiter[c] # "VALUE"
          BY DEF type_of_delimiter, Delimiter
        <5>2. QED
          BY <3>1, <3>2, <5>1 DEF Typed
      <4>2. t[i].value \in ListenWords
        BY <1>4, <1>5, <2>3, <3>1, <4>1, ValueOfToken, WordsOfListen
      <4>3. QED
        BY <1>7, <2>3, <3>3, <4>2 DEF MayStand
    <3>5. Follows(t, i + 1)'
      BY <1>6, <1>7, <2>1, <2>3, <3>3 DEF Follows, EndsDirective, DirectiveEnds
    <3>6. QED
      BY <1>1, <1>2, <1>3, <2>1, <2>2, <2>3, <3>4, <3>5, OneStep
  <2>4. CASE ~(i <= Len(t))
    <3>1. current' = current
      BY <1>4, <2>1, <2>4 DEF advance_token
    <3>2. QED
      BY <1>1, <1>2, <1>3, <2>1, <2>2, <2>4, <3>1, EndStep
  <2>5. QED
    BY <2>3, <2>4
<1>10. QED
  BY <1>8, <1>9

(* The values of an index directive, as kinds.                             *)
LEMMA ValuesOfIndex ==
  ASSUME IInv, GInv, pc = "index", NEW t, t = Words, NEW i, i = current, i <= Len(t),
         NEW a, a = AfterValues
  PROVE  /\ a \in i .. Len(t) + 1 /\ i \in 1 .. Len(t)
         /\ \A k \in i .. a - 1 : KindAt(t, k) = "VALUE" /\ k \in 1 .. Len(t) /\ t[k] = tokens[k]
         /\ a <= Len(t) => KindAt(t, a) # "VALUE" /\ t[a].type # "VALUE"
         /\ i - 1 \in 1 .. Len(t) /\ KindAt(t, i - 1) = "index" /\ IsWord(t, i - 1, "index")
         /\ ~has_location
<1> DEFINE N == Len(t)
<1> DEFINE n == Len(tokens)
<1>1. /\ Lexed(t) /\ N \in Nat /\ i \in 1 .. N
      /\ IsWord(t, i - 1, "index") /\ ~has_location
  <2>1. pc \in Looking
    BY DEF Looking
  <2>2. QED
    BY <2>1, Situation DEF Follows
<1>2. /\ EndsWithEOF => n = N + 1
      /\ ~EndsWithEOF => n = N
      /\ \A k \in 1 .. N : t[k] = tokens[k]
  BY WordsProperties DEF GInv
<1>3. /\ a \in i .. n + 1 /\ n \in Nat
      /\ \A k \in i .. a - 1 : tokens[k].type = "VALUE"
      /\ a <= n => tokens[a].type # "VALUE"
  BY AfterValuesProperties, LenTypes DEF IInv
<1>4. EndsWithEOF => tokens[n].type # "VALUE"
  BY DEF EndsWithEOF
<1> HIDE DEF n, N
<1>5. a \in i .. N + 1
  <2>1. CASE EndsWithEOF
    <3>1. n \notin i .. a - 1
      BY <1>3, <1>4, <2>1
    <3>2. QED
      BY <1>1, <1>2, <1>3, <2>1, <3>1
  <2>2. CASE ~EndsWithEOF
    BY <1>1, <1>2, <1>3, <2>2
  <2>3. QED
    BY <2>1, <2>2
<1>6. \A k \in i .. a - 1 : k \in 1 .. N /\ t[k] = tokens[k] /\ t[k].type = "VALUE"
  <2>1. \A k \in i .. a - 1 : k \in 1 .. N
    BY <1>1, <1>5
  <2>2. QED
    BY <1>2, <1>3, <2>1
<1>7. a <= N => a \in 1 .. N /\ t[a].type # "VALUE"
  <2> SUFFICES ASSUME a <= N PROVE a \in 1 .. N /\ t[a].type # "VALUE"
    OBVIOUS
  <2>1. a \in 1 .. N
    BY <1>1, <1>5
  <2>2. a <= n
    BY <1>1, <1>2, <1>3, <2>1
  <2>3. QED
    BY <1>2, <1>3, <2>1, <2>2
<1>8. \A k \in 1 .. N : /\ k \in Int /\ k <= Len(t) /\ k > 0
                        /\ KindAt(t, k) = "VALUE" <=> IsA(t, k, "VALUE")
                        /\ IsA(t, k, "VALUE") <=> t[k].type = "VALUE"
  <2> TAKE k \in 1 .. N
  <2>1. k \in Int /\ k <= N /\ k > 0
    BY <1>1
  <2>2. k <= Len(t)
    BY <2>1 DEF N
  <2>3. QED
    BY <1>1, <2>1, <2>2, Kinds DEF IsA
<1>9. i - 1 \in 1 .. N /\ KindAt(t, i - 1) = "index"
  <2>1. i - 1 > 0
    BY <1>1 DEF IsWord
  <2>2. i - 1 \in 1 .. N
    BY <1>1, <2>1
  <2>3. i - 1 \in Int /\ i - 1 <= Len(t)
    BY <1>8, <2>2
  <2>4. QED
    BY <1>1, <2>2, <2>3, Kinds
<1>10. QED
  BY <1>1, <1>5, <1>6, <1>7, <1>8, <1>9 DEF N

(* The word index is the only one before its values.                       *)
LEMMA OneIndex ==
  ASSUME NEW t, Lexed(t), Len(t) \in Nat, NEW i \in 1 .. Len(t), NEW a \in i .. Len(t) + 1,
         \A k \in i .. a - 1 : KindAt(t, k) = "VALUE",
         i - 1 \in 1 .. Len(t), KindAt(t, i - 1) = "index", NEW k \in i .. a
  PROVE  /\ IndexBefore(t, k) = {i - 1}
         /\ k > i => KindAt(t, k - 1) = "VALUE" /\ KindAt(t, k - 2) # "location"
                     /\ KindAt(t, k - 2) # "listen"
<1> DEFINE N == Len(t)
<1>1. N \in Nat /\ i \in 1 .. N /\ a \in i .. N + 1 /\ k \in i .. a /\ i - 1 \in 1 .. N
  OBVIOUS
<1>2. \A x \in 1 .. N : x \in Int /\ x <= Len(t) /\ x > 0
  <2>1. \A x \in 1 .. N : x \in Int /\ x <= N /\ x > 0
    <3> HIDE DEF N
    <3>1. QED
      BY <1>1
  <2>2. QED
    BY <2>1
<1> HIDE DEF N
<1>3. i .. k - 1 \subseteq i .. a - 1 /\ i .. k - 1 \subseteq 1 .. N
  BY <1>1
<1>4. \A x \in i .. k - 1 : IsA(t, x, "VALUE") /\ KindAt(t, x) = "VALUE"
  BY <1>2, <1>3, Kinds
<1>5. i - 1 \in IndexBefore(t, k)
  <2>1. IsWord(t, i - 1, "index")
    BY <1>1, <1>2, Kinds
  <2>2. i - 1 \in 1 .. k - 1 /\ i - 1 + 1 .. k - 1 \subseteq i .. k - 1
    BY <1>1
  <2>3. QED
    BY <1>4, <2>1, <2>2 DEF IndexBefore
<1>6. ASSUME NEW j \in IndexBefore(t, k) PROVE j = i - 1
  <2>1. j \in 1 .. k - 1 /\ IsWord(t, j, "index") /\ \A x \in j + 1 .. k - 1 : IsA(t, x, "VALUE")
    BY DEF IndexBefore
  <2>2. j \in 1 .. N
    BY <1>1, <2>1
  <2>3. KindAt(t, j) = "index"
    BY <1>2, <2>1, <2>2, Kinds
  <2>4. j \notin i .. k - 1
    BY <1>4, <2>3
  <2>5. i - 1 \notin j + 1 .. k - 1
    <3>1. ~IsA(t, i - 1, "VALUE")
      BY <1>1, <1>2, Kinds
    <3>2. QED
      BY <2>1, <3>1
  <2>6. QED
    BY <1>1, <2>1, <2>4, <2>5
<1>7. ASSUME k > i
      PROVE  /\ KindAt(t, k - 1) = "VALUE"
             /\ KindAt(t, k - 2) # "location" /\ KindAt(t, k - 2) # "listen"
  <2>1. k - 1 \in i .. k - 1 /\ (k - 2 = i - 1 \/ k - 2 \in i .. k - 1)
    BY <1>1, <1>7
  <2>2. QED
    BY <1>4, <2>1
<1>8. QED
  BY <1>5, <1>6, <1>7

LEMMA IndexReads ==
  ASSUME IInv, GInv, parse_index_directive
  PROVE  GInv'
<1>1. PICK t : t = Words
  OBVIOUS
<1>2. PICK i : i = current
  OBVIOUS
<1>3. PICK a : a = AfterValues
  OBVIOUS
<1>4. pc = "index" /\ pc \in Looking
  BY DEF parse_index_directive, Looking
<1>5. Lexed(t) /\ Len(t) \in Nat
  BY <1>1, <1>4, Places
<1> DEFINE N == Len(t)
<1> DEFINE usable == Usable(current, AfterValues - 1)
<1>6. i <= N =>
        /\ a \in i .. N + 1 /\ i \in 1 .. N
        /\ \A k \in i .. a - 1 : KindAt(t, k) = "VALUE" /\ k \in 1 .. N /\ t[k] = tokens[k]
        /\ a <= N => KindAt(t, a) # "VALUE" /\ t[a].type # "VALUE"
        /\ i - 1 \in 1 .. N /\ KindAt(t, i - 1) = "index" /\ IsWord(t, i - 1, "index")
        /\ ~has_location
  BY <1>1, <1>2, <1>3, <1>4, ValuesOfIndex
<1>7. i <= N => usable = UsableIn(t, i, a - 1)
  BY <1>2, <1>3, <1>6 DEF Usable, UsableIn
<1>8. CASE usable = {}
  <2>1. throw
    BY <1>8 DEF parse_index_directive
  <2>2. CASE ~(i <= N)
    BY <1>1, <1>2, <1>4, <2>1, <2>2, RefuseStep
  <2>3. CASE i <= N /\ a = N + 1
    <3>1. KindAt(t, N) = "VALUE"
      <4>1. N \in i .. a - 1
        <5> HIDE DEF N
        <5>1. QED
          BY <1>5, <1>6, <2>3 DEF N
      <4>2. QED
        BY <1>6, <2>3, <4>1
    <3>2. N \in Int /\ N <= Len(t)
      BY <1>5
    <3>3. ~ClosesServer(t, N)
      BY <1>5, <3>1, <3>2, Kinds DEF ClosesServer
    <3>4. ~Grammatical(t)
      BY <3>3 DEF Grammatical
    <3>5. QED
      BY <1>1, <1>4, <2>1, <3>4, Refused
  <2>4. CASE i <= N /\ a # N + 1
    <3>1. a \in 1 .. N /\ a \in i .. a /\ a <= N /\ (a = i \/ a > i)
      <4>1. N \in Nat /\ i \in 1 .. N /\ a \in i .. N + 1
        BY <1>5, <1>6, <2>4
      <4> HIDE DEF N
      <4>2. QED
        BY <2>4, <4>1
    <3>2. IndexBefore(t, a) = {i - 1}
          /\ (a > i => /\ KindAt(t, a - 1) = "VALUE"
                       /\ KindAt(t, a - 2) # "location" /\ KindAt(t, a - 2) # "listen")
      BY <1>5, <1>6, <2>4, <3>1, OneIndex
    <3>3. KindAt(t, a) # "VALUE"
      BY <1>6, <2>4, <3>1
    <3>4. ~MayStand(t, a)
      <4> SUFFICES ASSUME MayStand(t, a) PROVE FALSE
        OBVIOUS
      <4>1. CASE a = i
        BY <1>5, <1>6, <2>4, <3>1, <3>3, <4>1, MayFollow
      <4>2. CASE a > i
        <5>1. DirectiveEnds(t, a)
          BY <1>5, <3>1, <3>2, <3>3, <4>2, MayFollow
        <5>2. ~IsWord(t, a - 2, "listen")
          <6>1. a - 2 \in Int /\ a - 2 <= Len(t)
            BY <1>5, <3>1, PlaceOf
          <6>2. QED
            BY <1>5, <3>2, <4>2, <6>1, Kinds
        <5>3. UsableIn(t, i - 1 + 1, a - 1) # {}
          BY <3>2, <5>1, <5>2 DEF DirectiveEnds
        <5>4. i - 1 + 1 = i
          BY <1>5, <1>6, <2>4, PlaceOf
        <5>5. QED
          BY <1>7, <1>8, <2>4, <5>3, <5>4
      <4>3. QED
        BY <3>1, <4>1, <4>2
    <3>5. ~Grammatical(t)
      BY <3>1, <3>4 DEF Grammatical
    <3>6. QED
      BY <1>1, <1>4, <2>1, <3>5, Refused
  <2>5. QED
    BY <2>2, <2>3, <2>4
<1>9. CASE usable # {}
  <2>1. /\ go("semicolon") /\ current' = a /\ pc' = "semicolon" /\ has_location' = has_location
    BY <1>3, <1>9 DEF parse_index_directive, go
  <2>2. i <= N
    <3> SUFFICES ASSUME ~(i <= N) PROVE FALSE
      OBVIOUS
    <3> DEFINE n == Len(tokens)
    <3>1. ~Beyond(current) => At(current).type = "EOF"
      BY <1>1, <1>2, <1>4, Places
    <3>2. /\ a \in i .. n + 1 /\ n \in Nat /\ i \in Nat
          /\ \A k \in i .. a - 1 : tokens[k].type = "VALUE"
      BY <1>2, <1>3, AfterValuesProperties, LenTypes DEF IInv
    <3>3. PICK k : k \in i .. a - 1
      BY <1>2, <1>3, <1>9 DEF Usable
    <3>4. i \in i .. a - 1 /\ ~(i > n)
      <4> HIDE DEF n
      <4>1. QED
        BY <3>2, <3>3
    <3>5. At(current) = tokens[i] /\ ~Beyond(current)
      BY <1>2, <3>4 DEF At, Beyond
    <3>6. QED
      BY <3>1, <3>2, <3>4, <3>5
  <2>3. i \in i .. a - 1 /\ a > i /\ a \in Nat /\ a \in i .. a
    <3>1. PICK k : k \in i .. a - 1
      BY <1>2, <1>3, <1>9 DEF Usable
    <3>2. N \in Nat /\ a \in i .. N + 1 /\ i \in 1 .. N
      BY <1>5, <1>6, <2>2
    <3> HIDE DEF N
    <3>3. QED
      BY <3>1, <3>2
  <2>4. \A k \in 1 .. N : i <= k /\ k < a => MayStand(t, k)
    <3> SUFFICES ASSUME NEW k \in 1 .. N, i <= k, k < a PROVE MayStand(t, k)
      OBVIOUS
    <3>1. k \in i .. a - 1 /\ k \in i .. a
      <4>1. N \in Nat /\ i \in 1 .. N /\ a \in Nat /\ k \in 1 .. N
        BY <1>5, <1>6, <2>2, <2>3
      <4> HIDE DEF N
      <4>2. QED
        BY <4>1
    <3>2. IndexBefore(t, k) = {i - 1}
      BY <1>5, <1>6, <2>2, <3>1, OneIndex
    <3>3. IsA(t, k, "VALUE")
      <4>1. k \in Int /\ k <= Len(t) /\ KindAt(t, k) = "VALUE"
        BY <1>5, <1>6, <2>2, <3>1, PlaceOf
      <4>2. QED
        BY <1>5, <4>1, Kinds
    <3>4. QED
      BY <3>2, <3>3 DEF MayStand
  <2>5. Follows(t, a)'
    <3>1. IndexBefore(t, a) = {i - 1} /\ KindAt(t, a - 1) = "VALUE"
      BY <1>5, <1>6, <2>2, <2>3, OneIndex
    <3>2. IsA(t, a - 1, "VALUE")
      <4>1. a - 1 \in Int /\ a - 1 <= Len(t)
        <5>1. N \in Nat /\ a \in i .. N + 1 /\ i \in 1 .. N
          BY <1>5, <1>6, <2>2
        <5>2. a - 1 \in Int /\ a - 1 <= N
          <6> HIDE DEF N
          <6>1. QED
            BY <5>1
        <5>3. QED
          BY <5>2
      <4>2. QED
        BY <1>5, <3>1, <4>1, Kinds
    <3>3. UsableIn(t, i - 1 + 1, a - 1) # {}
      <4>1. i - 1 + 1 = i
        BY <1>5, <1>6, <2>2, PlaceOf
      <4>2. QED
        BY <1>7, <1>9, <2>2, <4>1
    <3>4. DirectiveEnds(t, a)
      BY <3>1, <3>3 DEF DirectiveEnds
    <3>5. a <= Len(t) => t[a].type # "VALUE"
      BY <1>6, <2>2
    <3>6. EndsDirective(t, a)
      BY <3>2, <3>4, <3>5 DEF EndsDirective
    <3>7. QED
      BY <1>6, <2>1, <2>2, <3>6 DEF Follows
  <2>6. "semicolon" \in Looking \cup {"config"}
    BY DEF Looking
  <2> HIDE DEF usable
  <2>7. QED
    BY <1>1, <1>2, <1>4, <2>1, <2>2, <2>3, <2>4, <2>5, <2>6, ReadStep
<1>10. QED
  BY <1>8, <1>9

-----------------------------------------------------------------------------
(* The lexer's steps.                                                      *)

(* What is left to show while nothing is parsed.                           *)
LEMMA LexingStep ==
  ASSUME pc' \in {"open", "lex"}, TokensTyped', EOFIsLast', NothingYet'
  PROVE  GInv'
BY DEF GInv, ReadsGrammar, AcceptedIfGrammatical, Looking

LEMMA TokenAdded ==
  ASSUME IInv, GInv, pc = "lex", pc' = "lex", UNCHANGED parserVars, content' = content,
         pos <= Len(content), NEW t \in Token, tokens' = Append(tokens, t), Typed(t),
         t.type = "EOF" => pos' > Len(content)
  PROVE  GInv'
<1> DEFINE n == Len(tokens)
<1> DEFINE m == Len(tokens')
<1>1. tokens \in Seq(Token) /\ n \in Nat
  BY LenTypes DEF IInv
<1>2. m = n + 1 /\ (\A k \in 1 .. n : tokens'[k] = tokens[k]) /\ tokens'[n + 1] = t
  BY <1>1, AppendProperties
<1>3. \A k \in 1 .. n : Typed(tokens[k])
  BY DEF GInv, TokensTyped
<1>4. \A k \in 1 .. n : tokens[k].type # "EOF"
  <2> SUFFICES ASSUME NEW k \in 1 .. n, tokens[k].type = "EOF" PROVE FALSE
    OBVIOUS
  <2> DEFINE L == Len(content)
  <2>1. pos > L /\ pos <= L
    BY DEF GInv, EOFIsLast
  <2>2. pos \in Nat /\ L \in Nat
    BY ContentTypes, LenTypes DEF IInv
  <2> HIDE DEF L
  <2>3. QED
    BY <2>1, <2>2
<1> HIDE DEF n, m
<1>5. \A k \in 1 .. m : k \in 1 .. n \/ k = n + 1
  BY <1>1, <1>2
<1>6. \A k \in 1 .. m : Typed(tokens'[k])
  BY <1>2, <1>3, <1>5
<1>7. \A k \in 1 .. m : tokens'[k].type = "EOF" => k = m /\ t.type = "EOF"
  BY <1>2, <1>4, <1>5
<1>8. TokensTyped'
  BY <1>6 DEF m, TokensTyped, Typed
<1>9. EOFIsLast'
  BY <1>7 DEF m, EOFIsLast
<1>10. NothingYet'
  BY DEF GInv, NothingYet, parserVars, blockVars
<1>11. QED
  BY <1>8, <1>9, <1>10, LexingStep

(* The lexer pushes no empty word.                                         *)
LEMMA WordNotEmpty ==
  ASSUME LexTypes, token_word
  PROVE  read_word # <<>>
<1> DEFINE L == Len(content)
<1> DEFINE e == Skip(Here, Piece)
<1> DEFINE w == SubSeq(content, Here, e - 1)
<1>1. Here <= L /\ content[Here] \in Piece
  BY DEF token_word
<1>2. /\ Here \in 1 .. L + 1 /\ Here \in Nat /\ L \in Nat /\ e \in Here .. L + 1
      /\ e <= L => content[e] \notin Piece
      /\ \A k \in Here .. e - 1 : content[k] \in Piece
  BY HereProperties, ContentTypes, SkipProperties
<1>3. e # Here
  BY <1>1, <1>2
<1> HIDE DEF L, e
<1>4. Here \in Int /\ e - 1 \in Int /\ Here <= e - 1
  BY <1>2, <1>3
<1>5. Len(w) = IF Here <= e - 1 THEN e - 1 - Here + 1 ELSE 0
  BY <1>2, <1>4, SubSeqProperties
<1> HIDE DEF w
<1>6. Len(w) # 0
  BY <1>4, <1>5
<1>7. w # <<>>
  BY <1>6, EmptySeq
<1>8. QED
  BY <1>7 DEF w, e, read_word

LEMMA TokensRead ==
  ASSUME IInv, GInv, get_next_token, UNCHANGED parserVars
  PROVE  GInv'
<1>1. pc = "lex" /\ pc' = "lex" /\ content' = content /\ pos <= Len(content)
  BY DEF get_next_token, token_EOF, token_delimiter, comment, token_word, has_more_tokens
<1>2. LexTypes /\ Here \in Nat
  BY LenTypes, HereProperties DEF IInv
<1>3. CASE token_EOF
  <2> DEFINE t == [type |-> "EOF", value |-> <<>>, at |-> Here]
  <2>1. tokens' = Append(tokens, t) /\ pos' > Len(content)
    BY <1>3 DEF token_EOF, push_token
  <2>2. t \in Token
    <3>1. <<>> \in Seq(Piece \cup Delimiter)
      BY EmptySeq
    <3>2. QED
      BY <1>2, <3>1 DEF Token, TokenType
  <2>3. Typed(t)
    BY DEF Typed
  <2> HIDE DEF t
  <2>4. QED
    BY <1>1, <2>1, <2>2, <2>3, TokenAdded
<1>4. CASE token_delimiter
  <2> DEFINE c == content[Here]
  <2> DEFINE type == type_of_delimiter[c]
  <2> DEFINE value == <<c>>
  <2> DEFINE t == [type |-> type, value |-> value, at |-> Here]
  <2>1. tokens' = Append(tokens, t) /\ c \in Delimiter
    BY <1>4 DEF token_delimiter, push_token
  <2>2. type \in TokenType /\ type # "EOF" /\ value \in Seq(Piece \cup Delimiter)
    <3>1. type \in TokenType /\ type # "EOF"
      BY <2>1 DEF type_of_delimiter, Delimiter, TokenType
    <3>2. value \in Seq(Piece \cup Delimiter)
      BY <2>1
    <3>3. QED
      BY <3>1, <3>2
  <2>3. Typed(t)
    BY <2>1 DEF Typed
  <2>4. t \in Token /\ t.type # "EOF"
    <3> HIDE DEF type, value
    <3>1. QED
      BY <1>2, <2>2 DEF Token
  <2> HIDE DEF t
  <2>5. QED
    BY <1>1, <2>1, <2>3, <2>4, TokenAdded
<1>5. CASE comment
  <2> DEFINE L == Len(content)
  <2>1. tokens' = tokens
    BY <1>5 DEF comment
  <2>2. \A k \in 1 .. Len(tokens) : tokens[k].type # "EOF"
    <3> SUFFICES ASSUME NEW k \in 1 .. Len(tokens), tokens[k].type = "EOF" PROVE FALSE
      OBVIOUS
    <3>1. pos > L /\ pos <= L
      BY <1>1 DEF GInv, EOFIsLast
    <3>2. pos \in Nat /\ L \in Nat
      BY <1>2, ContentTypes
    <3> HIDE DEF L
    <3>3. QED
      BY <3>1, <3>2
  <2>3. EOFIsLast'
    BY <2>1, <2>2 DEF EOFIsLast
  <2>4. TokensTyped'
    BY <2>1 DEF GInv, TokensTyped
  <2>5. NothingYet'
    BY <1>1 DEF GInv, NothingYet, parserVars, blockVars
  <2>6. QED
    BY <1>1, <2>3, <2>4, <2>5, LexingStep
<1>6. CASE token_word
  <2> DEFINE type == type_of_word(read_word)
  <2> DEFINE value == read_word
  <2> DEFINE t == [type |-> type, value |-> value, at |-> Here]
  <2>1. tokens' = Append(tokens, t) /\ Here <= Len(content)
    BY <1>6 DEF token_word, push_token
  <2>2. value \in Seq(Piece \cup Delimiter)
    <3>1. value \in Seq(Piece)
      BY <1>2, <2>1, WordProperties
    <3> HIDE DEF value
    <3>2. QED
      BY <3>1
  <2>3. type \in TokenType /\ type # "EOF"
    BY DEF type_of_word, TokenType
  <2>4. value # <<>>
    BY <1>2, <1>6, WordNotEmpty
  <2>5. \/ type = "VALUE" /\ value \notin {<<"server">>, <<"location">>, <<"listen">>, <<"index">>}
        \/ type = "BLOC_KEYWORD" /\ value \in {<<"server">>, <<"location">>}
        \/ type = "DIRECTIVE_KEYWORD" /\ value \in {<<"listen">>, <<"index">>}
    BY DEF type_of_word
  <2> HIDE DEF type, value
  <2>6. Typed(t)
    BY <2>4, <2>5 DEF Typed
  <2>7. t \in Token /\ t.type # "EOF"
    BY <1>2, <2>2, <2>3 DEF Token
  <2> HIDE DEF t
  <2>8. QED
    BY <1>1, <2>1, <2>6, <2>7, TokenAdded
<1>7. QED
  BY <1>3, <1>4, <1>5, <1>6 DEF get_next_token

LEMMA LexerReads ==
  ASSUME IInv, GInv, Lexer, UNCHANGED parserVars
  PROVE  GInv'
<1>1. CASE open_file_throws
  <2>1. pc = "open" /\ pc' = "rejected" /\ tokens = <<>> /\ tokens' = <<>>
    BY <1>1 DEF open_file_throws, GInv, NothingYet
  <2>2. Words' = <<>>
    BY <2>1 DEF Words, EndsWithEOF
  <2>3. AcceptedIfGrammatical'
    BY <2>1, <2>2 DEF AcceptedIfGrammatical, Grammatical
  <2>4. TokensTyped' /\ EOFIsLast'
    BY <2>1 DEF TokensTyped, EOFIsLast
  <2>5. QED
    BY <2>1, <2>3, <2>4 DEF GInv, NothingYet, ReadsGrammar, Looking
<1>2. CASE open_file
  <2>1. pc = "open" /\ pc' = "lex" /\ tokens' = tokens /\ pos' = pos /\ content' = content
    BY <1>2 DEF open_file
  <2>2. TokensTyped' /\ EOFIsLast' /\ NothingYet'
    BY <2>1 DEF GInv, TokensTyped, EOFIsLast, NothingYet, parserVars, blockVars
  <2>3. QED
    BY <2>1, <2>2, LexingStep
<1>3. CASE get_next_token
  BY <1>3, TokensRead
<1>4. CASE lexing_ends
  <2>1. /\ pc = "lex" /\ pc' = "config" /\ UNCHANGED <<content, pos, tokens>>
        /\ current = 1 /\ current' = 1 /\ servers = <<>> /\ servers' = <<>>
    BY <1>4 DEF lexing_ends, GInv, NothingYet, IInv, StartsAtFirst, parserVars, blockVars
  <2>2. TokensTyped' /\ EOFIsLast'
    BY <2>1 DEF GInv, TokensTyped, EOFIsLast
  <2>3. NothingYet' /\ AcceptedIfGrammatical'
    BY <2>1 DEF NothingYet, AcceptedIfGrammatical
  <2>4. Follows(Words, current)'
    BY <2>1 DEF Follows
  <2>5. \A i \in 1 .. Len(Words') : ~(i < current')
    <3> DEFINE N == Len(Words')
    <3>1. \A i \in 1 .. N : ~(i < 1)
      <4> HIDE DEF N
      <4>1. QED
        OBVIOUS
    <3>2. QED
      BY <2>1, <3>1
  <2>6. ReadsGrammar'
    BY <2>4, <2>5 DEF ReadsGrammar, Reading
  <2>7. QED
    BY <2>2, <2>3, <2>6 DEF GInv
<1>5. QED
  BY <1>1, <1>2, <1>3, <1>4 DEF Lexer

-----------------------------------------------------------------------------
LEMMA InitGInv == Init => GInv
<1> SUFFICES ASSUME Init PROVE GInv
  OBVIOUS
<1>1. pc = "open" /\ tokens = <<>> /\ servers = <<>>
  BY DEF Init, LexerInit
<1>2. QED
  BY <1>1 DEF GInv, TokensTyped, EOFIsLast, NothingYet, ReadsGrammar, AcceptedIfGrammatical, Looking

LEMMA StepGInv == IInv /\ GInv /\ [Next]_vars => GInv'
<1> SUFFICES ASSUME IInv, GInv, [Next]_vars PROVE GInv'
  OBVIOUS
<1>1. CASE UNCHANGED vars
  <2>1. /\ UNCHANGED <<pc, content, pos, tokens>>
        /\ UNCHANGED <<current, beyond, servers, server, has_location>>
    BY <1>1 DEF vars, lexerVars, parserVars, blockVars
  <2>2. EndsWithEOF' = EndsWithEOF
    BY <2>1 DEF EndsWithEOF
  <2>3. Words' = Words
    BY <2>1, <2>2 DEF Words
  <2>4. TokensTyped' /\ EOFIsLast' /\ NothingYet'
    BY <2>1 DEF GInv, TokensTyped, EOFIsLast, NothingYet
  <2>5. AcceptedIfGrammatical'
    BY <2>1, <2>2, <2>3 DEF GInv, AcceptedIfGrammatical, BreaksOff
  <2>6. PICK t : t = Words
    OBVIOUS
  <2>7. Reading(t) => Reading(t)'
    BY <2>1 DEF Reading, Follows, BrokeOff, Beyond
  <2>8. ReadsGrammar'
    BY <2>1, <2>3, <2>6, <2>7 DEF GInv, ReadsGrammar, Reading, Follows, BrokeOff, Beyond
  <2>9. QED
    BY <2>4, <2>5, <2>8 DEF GInv
<1>2. CASE Lexer /\ UNCHANGED parserVars
  BY <1>2, LexerReads
<1>3. CASE parse
  BY <1>3, ConfigReads, ExpectedSteps, ServerReads, ListenReads, IndexReads, LocationReads DEF parse
<1>4. QED
  BY <1>1, <1>2, <1>3 DEF Next, load_configuration

(* Of any file: load_configuration accepts it if and only if it is of the  *)
(* language, a sequence of server blocks with the directives, values and   *)
(* locations that the parser's functions know, each in its place; only of  *)
(* a file that breaks off in a block and has no EOF, whose end is not in   *)
(* the code's hands, nothing is said when it is accepted.                  *)
THEOREM AcceptanceCorrect == Spec => []AcceptedIfGrammatical
<1>1. Init => IInv /\ GInv
  BY InitIInv, InitGInv
<1>2. (IInv /\ GInv) /\ [Next]_vars => (IInv /\ GInv)'
  BY StepIInv, StepGInv
<1>3. IInv /\ GInv => AcceptedIfGrammatical
  BY DEF GInv
<1>4. QED
  BY <1>1, <1>2, <1>3, PTL DEF Spec
=============================================================================
