---------------------------- MODULE ConfigProofs ----------------------------
(***************************************************************************)
(* Proofs about ConfigLexer and ConfigParser, for any set of files of any  *)
(* length over any names.                                                  *)
(***************************************************************************)
EXTENDS ConfigParser, DataLemmas, FiniteSetTheorems

LexTypes == content \in Files /\ pos \in 1 .. Len(content) + 1 /\ tokens \in Seq(Token)

ParseTypes ==
  /\ current \in 1 .. Len(tokens) + 1 /\ beyond \in Junk
  /\ servers \in Seq(Server) /\ server \in Server /\ has_location \in BOOLEAN

PcType == pc \in {"open", "lex", "config", "accepted", "rejected", "died"} \cup Looking

(* A token that is no delimiter is made of pieces of a word.               *)
ValuesAreWords ==
  \A k \in 1 .. Len(tokens) :
    tokens[k].type \notin {"LBRACE", "RBRACE", "SEMICOLON"} => tokens[k].value \in Seq(Piece)

(* _current is set when the tokens are there.                              *)
StartsAtFirst == pc \in {"open", "lex"} => current = 1

(* The path of a location is one token back where '{' is expected and two  *)
(* where '}' is; if it is not, there is no '}'.                            *)
PathSeen ==
  /\ pc = "location_lbrace" => current > 1 /\ tokens[current - 1].value \in Seq(Piece)
  /\ pc = "location_rbrace" =>
       \/ current > 2 /\ tokens[current - 2].value \in Seq(Piece)
       \/ Beyond(current) /\ beyond.type = "LBRACE"

IInv == TypeOK /\ ValuesAreWords /\ StartsAtFirst /\ PathSeen /\ StopsAtEOF

LEMMA Types == TypeOK <=> PcType /\ LexTypes /\ ParseTypes
BY Zenon DEF TypeOK, PcType, LexTypes, ParseTypes

-----------------------------------------------------------------------------
(* Scans.                                                                  *)

LEMMA ContentTypes ==
  ASSUME LexTypes
  PROVE  /\ content \in Seq(Blank \cup Delimiter \cup Piece) /\ Len(content) \in Nat
         /\ content # <<>> => content[Len(content)] = "newline"
         /\ pos \in Nat
<1>1. content \in Seq(Blank \cup Delimiter \cup Piece)
  BY FilesAssumption DEF LexTypes
<1>2. Len(content) \in Nat
  BY <1>1, LenProperties
<1>3. pos \in Nat
  <2> DEFINE L == Len(content)
  <2>1. pos \in 1 .. L + 1
    BY DEF LexTypes
  <2> HIDE DEF L
  <2>2. QED
    BY <1>2, <2>1 DEF L
<1>4. QED
  BY <1>1, <1>2, <1>3, FilesAssumption DEF LexTypes

(* A scan stops at the first place that is not in the set.                 *)
LEMMA SkipProperties ==
  ASSUME LexTypes, NEW S, NEW i \in 1 .. Len(content) + 1
  PROVE  /\ Skip(i, S) \in i .. Len(content) + 1
         /\ \A k \in i .. Skip(i, S) - 1 : content[k] \in S
         /\ Skip(i, S) <= Len(content) => content[Skip(i, S)] \notin S
<1> DEFINE L == Len(content)
<1> DEFINE Stops == {j \in i .. L + 1 : j <= L => content[j] \notin S}
<1>1. L \in Nat
  BY ContentTypes
<1>2. i \in 1 .. L + 1
  OBVIOUS
<1> HIDE DEF L
<1>3. Stops # {} /\ Stops \subseteq Nat
  <2>1. L + 1 \in Stops
    BY <1>1, <1>2
  <2>2. i .. L + 1 \subseteq Nat
    BY <1>1, <1>2
  <2>3. QED
    BY <2>1, <2>2
<1>4. PICK j \in Stops : \A y \in Stops : j <= y
  BY <1>3, LeastNatural
<1>5. \A k \in i .. j - 1 : content[k] \in S
  <2>1. ASSUME NEW k \in i .. j - 1, content[k] \notin S PROVE FALSE
    <3>1. k \in i .. L + 1 /\ ~(j <= k)
      BY <1>1, <1>2, <1>4
    <3>2. k \in Stops
      BY <2>1, <3>1
    <3>3. QED
      BY <1>4, <3>1, <3>2
  <2>2. QED
    BY <2>1
<1>6. \E x \in i .. Len(content) + 1 :
        /\ \A k \in i .. x - 1 : content[k] \in S
        /\ x <= Len(content) => content[x] \notin S
  BY <1>4, <1>5 DEF L
<1>7. QED
  BY <1>6 DEF Skip

LEMMA HereProperties ==
  ASSUME LexTypes
  PROVE  /\ Here \in pos .. Len(content) + 1 /\ Here \in 1 .. Len(content) + 1 /\ Here \in Nat
         /\ Here <= Len(content) => Here \in 1 .. Len(content)
<1> DEFINE L == Len(content)
<1>1. Here \in pos .. L + 1 /\ pos \in 1 .. L + 1 /\ L \in Nat
  BY SkipProperties, ContentTypes DEF Here, LexTypes
<1> HIDE DEF L
<1>2. Here \in 1 .. L + 1 /\ Here \in Nat /\ (Here <= L => Here \in 1 .. L)
  BY <1>1
<1>3. QED
  BY <1>1, <1>2 DEF L

(* A word is not empty where it begins, and all pieces.                    *)
LEMMA WordProperties ==
  ASSUME LexTypes, Here <= Len(content)
  PROVE  /\ read_word \in Seq(Piece)
         /\ Here + Len(read_word) \in 1 .. Len(content) + 1
<1> DEFINE L == Len(content)
<1> DEFINE e == Skip(Here, Piece)
<1>1. /\ Here \in 1 .. L + 1 /\ Here \in Nat /\ L \in Nat
      /\ e \in Here .. L + 1 /\ \A k \in Here .. e - 1 : content[k] \in Piece
  BY HereProperties, ContentTypes, SkipProperties
<1> HIDE DEF L, e
<1>2. Here \in Int /\ e - 1 \in Int
  BY <1>1
<1> DEFINE w == SubSeq(content, Here, e - 1)
<1>3. w \in Seq(Piece) /\ Len(w) = IF Here <= e - 1 THEN e - 1 - Here + 1 ELSE 0
  BY <1>1, <1>2, SubSeqProperties
<1> HIDE DEF w
<1>4. Here + Len(w) \in 1 .. L + 1
  BY <1>1, <1>3
<1>5. QED
  BY <1>3, <1>4 DEF w, e, L, read_word

-----------------------------------------------------------------------------
LEMMA InitIInv == Init => IInv
<1> SUFFICES ASSUME Init PROVE IInv
  OBVIOUS
<1> USE DEF Init, LexerInit
<1>1. LexTypes
  <2>1. content \in Files
    OBVIOUS
  <2>2. Len(content) \in Nat
    BY <2>1, FilesAssumption, LenProperties
  <2>3. 1 \in 1 .. Len(content) + 1
    <3> DEFINE L == Len(content)
    <3>1. L \in Nat
      BY <2>2
    <3> HIDE DEF L
    <3>2. 1 \in 1 .. L + 1
      BY <3>1
    <3>3. QED
      BY <3>2 DEF L
  <2>4. QED
    BY <2>1, <2>3, EmptySeq DEF LexTypes
<1>2. ParseTypes
  <2>1. server \in Server
    BY EmptySeq DEF unread_server, Server
  <2>2. Len(tokens) = 0 /\ current = 1
    OBVIOUS
  <2>3. current \in 1 .. Len(tokens) + 1
    BY <2>2
  <2>4. beyond \in Junk /\ servers \in Seq(Server) /\ has_location \in BOOLEAN
    BY EmptySeq
  <2>5. QED
    BY <2>1, <2>3, <2>4 DEF ParseTypes
<1>3. TypeOK
  BY <1>1, <1>2, Types DEF PcType
<1>4. ValuesAreWords /\ StartsAtFirst /\ PathSeen /\ StopsAtEOF
  BY DEF ValuesAreWords, StartsAtFirst, PathSeen, StopsAtEOF, Looking
<1>5. QED
  BY <1>3, <1>4 DEF IInv

-----------------------------------------------------------------------------
(* Tokens.                                                                 *)

LEMMA LenTypes ==
  ASSUME TypeOK
  PROVE  /\ Len(tokens) \in Nat /\ tokens \in Seq(Token)
         /\ current \in 1 .. Len(tokens) + 1 /\ current \in Nat
         /\ LexTypes
<1> DEFINE n == Len(tokens)
<1>1. tokens \in Seq(Token) /\ current \in 1 .. n + 1 /\ LexTypes
  BY DEF TypeOK, LexTypes
<1>2. n \in Nat
  BY <1>1, LenProperties
<1> HIDE DEF n
<1>3. current \in Nat
  BY <1>1, <1>2
<1>4. QED
  BY <1>1, <1>2, <1>3 DEF n

(* advance_token stays where the input ends.                               *)
LEMMA AdvanceProperties ==
  ASSUME TypeOK, StopsAtEOF, pc \in Looking \cup {"config"}, advance_token
  PROVE  /\ current' \in 1 .. Len(tokens) + 1
         /\ (tokens # <<>> /\ tokens[Len(tokens)].type = "EOF") => ~(current' > Len(tokens))
         /\ ~is_at_end => current' = current + 1 /\ current <= Len(tokens)
         /\ is_at_end => current' = current
<1> DEFINE n == Len(tokens)
<1>1. n \in Nat /\ current \in 1 .. n + 1 /\ current \in Nat
  BY LenTypes
<1>2. CASE is_at_end
  <2>1. current' = current
    BY <1>2 DEF advance_token
  <2>2. (tokens # <<>> /\ tokens[Len(tokens)].type = "EOF") => ~(current > Len(tokens))
    BY DEF StopsAtEOF, Beyond
  <2>3. QED
    BY <1>1, <1>2, <2>1, <2>2
<1>3. CASE ~is_at_end
  <2>1. current' = current + 1
    BY <1>3 DEF advance_token
  <2>2. ~(current > n) /\ tokens[current].type # "EOF"
    BY <1>3 DEF is_at_end, Beyond, is_token_type, At
  <2>3. tokens[n].type = "EOF" => current # n
    BY <2>2
  <2> HIDE DEF n
  <2>4. current' \in 1 .. n + 1 /\ current <= n
    BY <1>1, <2>1, <2>2
  <2>5. tokens[n].type = "EOF" => ~(current' > n)
    BY <1>1, <2>1, <2>2, <2>3
  <2>6. QED
    BY <1>3, <2>1, <2>4, <2>5 DEF n
<1>4. QED
  BY <1>2, <1>3

(* What is left to show of a step of the parser.                           *)
LEMMA ParserStep ==
  ASSUME IInv,
         UNCHANGED <<content, pos, tokens, beyond>>,
         pc' \in {"config", "accepted", "rejected", "died"} \cup Looking,
         current' \in 1 .. Len(tokens) + 1,
         servers' \in Seq(Server), server' \in Server, has_location' \in BOOLEAN,
         PathSeen',
         (pc' \in Looking \cup {"config"} /\ tokens # <<>> /\ tokens[Len(tokens)].type = "EOF")
           => ~(current' > Len(tokens))
  PROVE  IInv'
<1>1. TypeOK'
  <2>1. PcType'
    BY DEF PcType
  <2>2. LexTypes'
    BY DEF IInv, TypeOK, LexTypes
  <2>3. beyond' \in Junk
    BY DEF IInv, TypeOK
  <2>4. ParseTypes'
    BY <2>3 DEF ParseTypes
  <2>5. QED
    BY <2>1, <2>2, <2>4 DEF TypeOK, PcType, LexTypes, ParseTypes
<1>2. ValuesAreWords'
  BY DEF IInv, ValuesAreWords
<1>3. StartsAtFirst'
  BY DEF StartsAtFirst, Looking
<1>4. StopsAtEOF'
  BY DEF StopsAtEOF, Beyond
<1>5. QED
  BY <1>1, <1>2, <1>3, <1>4 DEF IInv

(* An exception leaves nothing to look at.                                 *)
LEMMA ThrowStep ==
  ASSUME IInv, throw
  PROVE  IInv'
<1>1. pc' \in {"rejected", "died"}
  BY DEF throw
<1>2. /\ UNCHANGED <<content, pos, tokens, beyond>>
      /\ current' = current /\ server' = server /\ has_location' = has_location /\ servers' = <<>>
  BY DEF throw
<1>3. current' \in 1 .. Len(tokens) + 1 /\ server' \in Server /\ has_location' \in BOOLEAN
  BY <1>2 DEF IInv, TypeOK
<1>4. servers' \in Seq(Server)
  BY <1>2, EmptySeq
<1>5. PathSeen' /\ pc' \notin Looking \cup {"config"}
  BY <1>1 DEF PathSeen, Looking
<1>6. QED
  BY <1>1, <1>2, <1>3, <1>4, <1>5, ParserStep

(* A step over one token that changes no block, to a place where no path   *)
(* is remembered.                                                          *)
LEMMA GoStep ==
  ASSUME IInv, NEW next \in Looking \cup {"config"},
         next \notin {"location_lbrace", "location_rbrace"},
         pc \in Looking \cup {"config"}, go(next), advance_token,
         servers' \in Seq(Server), server' \in Server, has_location' \in BOOLEAN
  PROVE  IInv'
<1>1. pc' = next /\ UNCHANGED <<content, pos, tokens, beyond>>
  BY DEF go
<1>2. /\ current' \in 1 .. Len(tokens) + 1
      /\ (tokens # <<>> /\ tokens[Len(tokens)].type = "EOF") => ~(current' > Len(tokens))
  BY AdvanceProperties DEF IInv
<1>3. PathSeen'
  BY <1>1 DEF PathSeen
<1>4. QED
  BY <1>1, <1>2, <1>3, ParserStep

LEMMA BlocksKept ==
  ASSUME IInv, UNCHANGED blockVars
  PROVE  servers' \in Seq(Server) /\ server' \in Server /\ has_location' \in BOOLEAN
BY DEF IInv, TypeOK, blockVars

-----------------------------------------------------------------------------
(* The parser's steps.                                                     *)

(* parse_config, without its end.                                          *)
LEMMA ConfigSteps ==
  ASSUME IInv, config_server \/ config_throws \/ config_ends
  PROVE  IInv'
<1>1. CASE config_server
  <2>1. servers' \in Seq(Server) /\ has_location' \in BOOLEAN
    BY <1>1 DEF config_server, IInv, TypeOK
  <2>2. server' \in Server
    BY <1>1, EmptySeq DEF config_server, new_server, unread_server, Server
  <2>3. QED
    BY <1>1, <2>1, <2>2, GoStep DEF config_server, Looking
<1>2. CASE config_throws
  BY <1>2, ThrowStep DEF config_throws
<1>3. CASE config_ends
  <2>1. pc' \in {"accepted", "rejected"} /\ UNCHANGED <<content, pos, tokens, beyond>>
    BY <1>3 DEF config_ends, go
  <2>2. current' = current /\ UNCHANGED blockVars
    BY <1>3 DEF config_ends
  <2>3. current' \in 1 .. Len(tokens) + 1
    BY <2>2 DEF IInv, TypeOK
  <2>4. PathSeen' /\ pc' \notin Looking \cup {"config"}
    BY <2>1 DEF PathSeen, Looking
  <2>5. QED
    BY <2>1, <2>2, <2>3, <2>4, BlocksKept, ParserStep
<1>4. QED
  BY <1>1, <1>2, <1>3

(* parse_server_block, parse_server_directives and the semicolon.          *)
LEMMA ServerSteps ==
  ASSUME IInv,
         \/ server_lbrace \/ server_rbrace \/ server_throws \/ semicolon
         \/ parse_server_directives("listen") \/ parse_server_directives("index")
         \/ location_begins
  PROVE  IInv'
<1>1. ASSUME NEW state \in Looking, NEW type, NEW next \in Looking,
             next \notin {"location_lbrace", "location_rbrace"},
             expected_token_type(state, type, next)
      PROVE  IInv'
  <2>1. CASE throw
    BY <2>1, ThrowStep
  <2>2. CASE go(next) /\ advance_token /\ UNCHANGED blockVars
    BY <1>1, <2>2, BlocksKept, GoStep DEF expected_token_type
  <2>3. QED
    BY <1>1, <2>1, <2>2 DEF expected_token_type
<1>2. CASE server_lbrace \/ semicolon
  BY <1>1, <1>2 DEF server_lbrace, semicolon, Looking
<1>3. CASE server_rbrace
  <2>1. server \in Server /\ servers \in Seq(Server) /\ has_location \in BOOLEAN
    BY DEF IInv, TypeOK
  <2>2. servers' \in Seq(Server)
    BY <1>3, <2>1, AppendProperties DEF server_rbrace
  <2>3. server' \in Server /\ has_location' \in BOOLEAN
    BY <1>3, <2>1 DEF server_rbrace
  <2>4. QED
    BY <1>3, <2>2, <2>3, GoStep DEF server_rbrace, Looking
<1>4. CASE server_throws
  BY <1>4, ThrowStep DEF server_throws
<1>5. CASE parse_server_directives("listen") \/ parse_server_directives("index")
  BY <1>5, BlocksKept, GoStep DEF parse_server_directives, InServer, Looking
<1>6. CASE location_begins
  BY <1>6, BlocksKept, GoStep DEF location_begins, InServer, Looking
<1>7. QED
  BY <1>2, <1>3, <1>4, <1>5, <1>6

(* location_url and the brace after it: where the path is.                 *)
LEMMA LocationSteps ==
  ASSUME IInv, location_url \/ location_lbrace
  PROVE  IInv'
<1>1. CASE throw
  BY <1>1, ThrowStep
<1> DEFINE n == Len(tokens)
<1>2. n \in Nat /\ current \in 1 .. n + 1 /\ current \in Nat
  BY LenTypes DEF IInv
<1>3. CASE location_url /\ ~throw
  <2>1. /\ pc = "location" /\ is_token_type("VALUE") /\ is_directory(current_token.value)
        /\ go("location_lbrace") /\ advance_token /\ UNCHANGED blockVars
    BY <1>3 DEF location_url
  <2>2. ~is_at_end
    BY <2>1 DEF is_directory, current_token
  <2>3. /\ current' \in 1 .. n + 1 /\ current' = current + 1 /\ current <= n
        /\ (tokens # <<>> /\ tokens[n].type = "EOF") => ~(current' > n)
    BY <2>1, <2>2, AdvanceProperties DEF IInv, Looking
  <2>4. tokens[current].type = "VALUE"
    BY <2>1, <2>2 DEF is_at_end, is_token_type, At
  <2>5. current \in 1 .. n
    <3> HIDE DEF n
    <3>1. QED
      BY <1>2, <2>3
  <2>6. tokens[current].value \in Seq(Piece)
    BY <2>4, <2>5 DEF IInv, ValuesAreWords
  <2>7. current' > 1 /\ current' - 1 = current
    <3> HIDE DEF n
    <3>1. QED
      BY <1>2, <2>3
  <2>8. pc' = "location_lbrace" /\ UNCHANGED <<content, pos, tokens, beyond>>
    BY <2>1 DEF go
  <2>9. PathSeen'
    BY <2>6, <2>7, <2>8 DEF PathSeen
  <2>10. pc' \in Looking
    BY <2>8 DEF Looking
  <2>11. QED
    BY <2>1, <2>3, <2>8, <2>9, <2>10, BlocksKept, ParserStep
<1>4. CASE location_lbrace /\ ~throw
  <2>1. /\ pc = "location_lbrace" /\ is_token_type("LBRACE")
        /\ go("location_rbrace") /\ advance_token /\ UNCHANGED blockVars
    BY <1>4 DEF location_lbrace, expected_token_type
  <2>2. /\ current' \in 1 .. n + 1
        /\ ~is_at_end => current' = current + 1 /\ current <= n
        /\ is_at_end => current' = current
        /\ (tokens # <<>> /\ tokens[n].type = "EOF") => ~(current' > n)
    BY <2>1, AdvanceProperties DEF IInv, Looking
  <2>3. pc' = "location_rbrace" /\ UNCHANGED <<content, pos, tokens, beyond>>
    BY <2>1 DEF go
  <2>4. current > 1 /\ tokens[current - 1].value \in Seq(Piece)
    BY <2>1 DEF IInv, PathSeen
  <2>5. PathSeen'
    <3>1. CASE is_at_end
      <4>1. Beyond(current) /\ beyond.type = "LBRACE"
        BY <2>1, <3>1 DEF is_at_end, is_token_type, At
      <4>2. QED
        BY <2>2, <2>3, <3>1, <4>1 DEF PathSeen, Beyond
    <3>2. CASE ~is_at_end
      <4>1. current' > 2 /\ current' - 2 = current - 1
        <5>1. current' = current + 1
          BY <2>2, <3>2
        <5>2. QED
          BY <1>2, <2>4, <5>1
      <4>2. QED
        BY <2>3, <2>4, <4>1 DEF PathSeen
    <3>3. QED
      BY <3>1, <3>2
  <2>6. pc' \in Looking
    BY <2>3 DEF Looking
  <2>7. QED
    BY <2>1, <2>2, <2>3, <2>5, <2>6, BlocksKept, ParserStep
<1>5. QED
  BY <1>1, <1>3, <1>4

(* A c_server with one more location, another address or another index.    *)
LEMMA ServerUpdates ==
  ASSUME NEW srv \in Server, NEW word \in Seq(Piece), NEW number \in 0 .. MaxPort
  PROVE  /\ [srv EXCEPT !.locations = @ \cup {word}] \in Server
         /\ [srv EXCEPT !.port = number, !.ip = word] \in Server
         /\ [srv EXCEPT !.index = word] \in Server
<1> DEFINE Word == Seq(Piece)
<1> DEFINE Port == (0 .. MaxPort) \cup {Unset}
<1> DEFINE R == [port : Port, ip : Word, index : Word, locations : SUBSET Word]
<1>1. \A x : x \in R <=> x \in Server
  BY Zenon DEF Server
<1>2. number \in Port /\ word \in Word
  OBVIOUS
<1> HIDE DEF Word, Port
<1>3. srv \in R
  BY <1>1
<1> DEFINE more == srv.locations \cup {word}
<1>4. more \in SUBSET Word
  BY <1>2, <1>3
<1> HIDE DEF more
<1>5. [srv EXCEPT !.locations = more] \in R
  BY <1>3, <1>4
<1>6. [srv EXCEPT !.index = word] \in R
  BY <1>2, <1>3
<1>7. [srv EXCEPT !.port = number, !.ip = word] \in R
  <2> DEFINE t == [srv EXCEPT !.port = number]
  <2>1. t \in R
    BY <1>2, <1>3
  <2>2. [srv EXCEPT !.port = number, !.ip = word] = [t EXCEPT !.ip = word]
    BY <1>3
  <2> HIDE DEF t
  <2>3. [t EXCEPT !.ip = word] \in R
    BY <1>2, <2>1
  <2> HIDE DEF R
  <2>4. QED
    BY <2>2, <2>3
<1> HIDE DEF R
<1>8. [srv EXCEPT !.locations = more] \in Server
  BY <1>1, <1>5
<1>9. QED
  BY <1>1, <1>6, <1>7, <1>8 DEF more

(* The path of the location that ends is among the tokens.                 *)
LEMMA LocationEnds ==
  ASSUME IInv, location_rbrace
  PROVE  IInv'
<1>1. CASE ~is_token_type("RBRACE")
  BY <1>1, ThrowStep DEF location_rbrace
<1>2. CASE is_token_type("RBRACE")
  <2>1. /\ pc = "location_rbrace" /\ go("server") /\ advance_token
        /\ server' = [server EXCEPT !.locations = @ \cup {At(current - 2).value}]
        /\ has_location' = TRUE /\ UNCHANGED servers
    BY <1>2 DEF location_rbrace
  <2>2. current > 2 /\ tokens[current - 2].value \in Seq(Piece)
    BY <1>2, <2>1 DEF IInv, PathSeen, is_token_type, At
  <2>3. ~Beyond(current - 2)
    <3> DEFINE n == Len(tokens)
    <3>1. n \in Nat /\ current \in 1 .. n + 1
      BY LenTypes DEF IInv
    <3> HIDE DEF n
    <3>2. ~(current - 2 > n)
      BY <3>1
    <3>3. QED
      BY <3>2 DEF n, Beyond
  <2>4. At(current - 2).value \in Seq(Piece)
    BY <2>2, <2>3 DEF At
  <2>5. server \in Server /\ servers \in Seq(Server)
    BY DEF IInv, TypeOK
  <2>6. server' \in Server
    <3> DEFINE path == At(current - 2).value
    <3>1. path \in Seq(Piece) /\ server' = [server EXCEPT !.locations = @ \cup {path}]
      BY <2>1, <2>4
    <3> HIDE DEF path
    <3>2. 0 \in 0 .. MaxPort
      BY DEF MaxPort
    <3>3. [server EXCEPT !.locations = @ \cup {path}] \in Server
      BY <2>5, <3>1, <3>2, ServerUpdates
    <3>4. QED
      BY <3>1, <3>3
  <2>7. servers' \in Seq(Server) /\ has_location' \in BOOLEAN
    BY <2>1, <2>5
  <2>8. QED
    BY <2>1, <2>6, <2>7, GoStep DEF Looking
<1>3. QED
  BY <1>1, <1>2

-----------------------------------------------------------------------------
(* Directives.                                                             *)

LEMMA AnyAddressIsWord == AnyAddress \in Seq(Piece)
<1>1. "0" \in Piece /\ "." \in Piece
  BY DigitsAssumption DEF Piece
<1>2. QED
  BY <1>1 DEF AnyAddress

LEMMA MaxPortIsNumber == MaxPort \in Nat
BY DEF MaxPort

(* Of a value that is accepted the part after the only ':' is one number,  *)
(* and the part before it an address.                                      *)
LEMMA ListenProperties ==
  ASSUME NEW word \in Seq(Piece \cup Delimiter), is_listen_value(word)
  PROVE  /\ word # <<>> => Number(PortOf(word)[1]) \in 0 .. MaxPort
         /\ IpOf(word) \in Seq(Piece)
<1>1. word # <<>> => is_port(PortOf(word))
  BY DEF is_listen_value, PortOf
<1>2. word # <<>> => Number(PortOf(word)[1]) \in 0 .. MaxPort
  <2> SUFFICES ASSUME word # <<>> PROVE Number(PortOf(word)[1]) \in 0 .. MaxPort
    OBVIOUS
  <2> DEFINE d == PortOf(word)[1]
  <2>1. d \in Digits /\ Number(d) <= MaxPort
    BY <1>1 DEF is_port
  <2> HIDE DEF d
  <2>2. Number(d) \in Nat
    BY <2>1, DigitsAssumption
  <2>3. Number(d) \in 0 .. MaxPort
    BY <2>1, <2>2, MaxPortIsNumber
  <2>4. QED
    BY <2>3 DEF d
<1>3. CASE Colons(word) = {}
  <2>1. IpOf(word) = AnyAddress
    BY <1>3, Zenon DEF IpOf
  <2>2. QED
    BY <1>2, <2>1, AnyAddressIsWord, Zenon
<1>4. CASE Colons(word) # {}
  <2> DEFINE n == Len(word)
  <2> DEFINE c == CHOOSE i \in Colons(word) : TRUE
  <2> DEFINE host == SubSeq(word, 1, c - 1)
  <2>1. n \in Nat /\ c \in 1 .. n
    BY <1>4, LenProperties DEF Colons
  <2>2. word # <<>>
    <3>1. n # 0
      <4> HIDE DEF n, c
      <4>1. QED
        BY <2>1
    <3>2. QED
      BY <3>1
  <2>3. is_port(PortOf(word)) /\ is_ip(SubSeq(word, 1, n - 2))
    BY <1>4, <2>2 DEF is_listen_value, PortOf
  <2>4. c = n - 1
    <3> DEFINE port == SubSeq(word, c + 1, n)
    <3>1. Len(port) = 1
      BY <1>4, <2>3 DEF is_port, PortOf
    <3>2. c + 1 \in Int /\ n \in Int
      <4> HIDE DEF n, c
      <4>1. QED
        BY <2>1
    <3>3. \A k \in c + 1 .. n : word[k] \in Piece \cup Delimiter
      <4>1. \A k \in c + 1 .. n : k \in 1 .. n
        <5> HIDE DEF n, c
        <5>1. QED
          BY <2>1
      <4>2. QED
        BY <4>1, ElementOfSeq
    <3> DEFINE length == Len(port)
    <3>4. length = 1 /\ length = IF c + 1 <= n THEN n - (c + 1) + 1 ELSE 0
      BY <3>1, <3>2, <3>3, SubSeqProperties
    <3> HIDE DEF length, port, n, c
    <3>5. QED
      BY <2>1, <3>4
  <2>5. c - 1 = n - 2
    <3> HIDE DEF n, c
    <3>1. QED
      BY <2>1, <2>4
  <2>6. is_ip(host)
    BY <2>3, <2>5
  <2>7. host # <<"*">> => host \in Seq(Piece)
    <3> SUFFICES ASSUME host # <<"*">> PROVE host \in Seq(Piece)
      OBVIOUS
    <3>1. host \in Seq(Piece \cup Delimiter)
      <4>1. 1 \in Int /\ c - 1 \in Int /\ \A k \in 1 .. c - 1 : k \in 1 .. n
        <5> HIDE DEF n, c
        <5>1. QED
          BY <2>1
      <4>2. \A k \in 1 .. c - 1 : word[k] \in Piece \cup Delimiter
        BY <4>1, ElementOfSeq
      <4>3. QED
        BY <4>1, <4>2, SubSeqProperties
    <3>2. /\ Len(host) = 7
          /\ \A i \in {2, 4, 6} : host[i] = "."
          /\ \A i \in {1, 3, 5, 7} : host[i] \in Digits
      BY <2>6 DEF is_ip
    <3> HIDE DEF host
    <3>3. \A i \in 1 .. 7 : host[i] \in Piece
      <4>1. Digits \subseteq Piece /\ "." \in Piece
        BY DigitsAssumption DEF Piece
      <4>2. \A i \in 1 .. 7 : i \in {2, 4, 6} \/ i \in {1, 3, 5, 7}
        OBVIOUS
      <4>3. QED
        BY <3>2, <4>1, <4>2
    <3>4. host \in [1 .. 7 -> Piece]
      <4>1. host \in [1 .. 7 -> Piece \cup Delimiter]
        BY <3>1, <3>2, LenProperties
      <4>2. QED
        BY <3>3, <4>1
    <3>5. 7 \in Nat
      OBVIOUS
    <3>6. QED
      BY <3>4, <3>5, FunctionIsSeq
  <2>8. IpOf(word) = IF host = <<"*">> THEN AnyAddress ELSE host
    BY <1>4 DEF IpOf
  <2> HIDE DEF host
  <2>9. IpOf(word) \in Seq(Piece)
    BY <2>7, <2>8, AnyAddressIsWord
  <2>10. QED
    BY <1>2, <2>9
<1>5. QED
  BY <1>2, <1>3, <1>4

LEMMA ListenStep ==
  ASSUME IInv, parse_listen_directive
  PROVE  IInv'
<1> DEFINE word == At(current).value
<1>1. CASE ~is_listen_value(word)
  BY <1>1, ThrowStep DEF parse_listen_directive
<1>2. CASE is_listen_value(word)
  <2> DEFINE number == IF word = <<>> THEN 0 ELSE Number(PortOf(word)[1])
  <2>1. /\ pc = "listen" /\ go("semicolon") /\ advance_token
        /\ server' = [server EXCEPT !.port = number, !.ip = IpOf(word)]
        /\ UNCHANGED <<servers, has_location>>
    BY <1>2 DEF parse_listen_directive
  <2>2. word \in Seq(Piece \cup Delimiter)
    <3>1. CASE Beyond(current)
      <4>1. beyond \in Junk
        BY DEF IInv, TypeOK
      <4>2. QED
        BY <3>1, <4>1, SetsAssumption DEF At
    <3>2. CASE ~Beyond(current)
      <4> DEFINE n == Len(tokens)
      <4>1. n \in Nat /\ current \in 1 .. n + 1 /\ tokens \in Seq(Token) /\ ~(current > n)
        BY <3>2, LenTypes DEF IInv, Beyond
      <4>2. current \in 1 .. n
        <5> HIDE DEF n
        <5>1. QED
          BY <4>1
      <4>3. tokens[current] \in Token
        BY <4>1, <4>2, ElementOfSeq
      <4>4. QED
        BY <3>2, <4>3 DEF At, Token
    <3>3. QED
      BY <3>1, <3>2
  <2>3. number \in 0 .. MaxPort /\ IpOf(word) \in Seq(Piece)
    <3> HIDE DEF word
    <3>1. /\ word # <<>> => Number(PortOf(word)[1]) \in 0 .. MaxPort
          /\ IpOf(word) \in Seq(Piece)
      BY <1>2, <2>2, ListenProperties
    <3>2. 0 \in 0 .. MaxPort
      BY MaxPortIsNumber
    <3>3. QED
      BY <3>1, <3>2, Zenon
  <2> HIDE DEF word, number
  <2>4. server \in Server /\ servers \in Seq(Server) /\ has_location \in BOOLEAN
    BY DEF IInv, TypeOK
  <2>5. server' \in Server
    <3> DEFINE ip == IpOf(word)
    <3>1. ip \in Seq(Piece) /\ server' = [server EXCEPT !.port = number, !.ip = ip]
      BY <2>1, <2>3
    <3> HIDE DEF ip
    <3>2. [server EXCEPT !.port = number, !.ip = ip] \in Server
      BY <2>3, <2>4, <3>1, ServerUpdates
    <3>3. QED
      BY <3>1, <3>2
  <2>6. QED
    BY <2>1, <2>4, <2>5, GoStep DEF Looking
<1>3. QED
  BY <1>1, <1>2

(* The values of an index directive end before the input does.             *)
LEMMA AfterValuesProperties ==
  ASSUME TypeOK
  PROVE  /\ AfterValues \in current .. Len(tokens) + 1
         /\ AfterValues \in 1 .. Len(tokens) + 1
         /\ \A k \in current .. AfterValues - 1 : tokens[k].type = "VALUE"
         /\ AfterValues <= Len(tokens) => tokens[AfterValues].type # "VALUE"
<1> DEFINE n == Len(tokens)
<1> DEFINE Stops == {i \in current .. n + 1 : i <= n => tokens[i].type # "VALUE"}
<1>1. n \in Nat /\ current \in 1 .. n + 1 /\ current \in Nat
  BY LenTypes
<1> HIDE DEF n
<1>2. Stops # {} /\ Stops \subseteq Nat
  <2>1. n + 1 \in Stops
    BY <1>1
  <2>2. current .. n + 1 \subseteq Nat
    BY <1>1
  <2>3. QED
    BY <2>1, <2>2
<1>3. PICK j \in Stops : \A y \in Stops : j <= y
  BY <1>2, LeastNatural
<1>4. \A k \in current .. j - 1 : tokens[k].type = "VALUE"
  <2>1. ASSUME NEW k \in current .. j - 1, tokens[k].type # "VALUE" PROVE FALSE
    <3>1. k \in current .. n + 1 /\ ~(j <= k)
      BY <1>1, <1>3
    <3>2. k \in Stops
      BY <2>1, <3>1
    <3>3. QED
      BY <1>3, <3>1, <3>2
  <2>2. QED
    BY <2>1
<1>5. \E x \in current .. Len(tokens) + 1 :
        /\ \A k \in current .. x - 1 : tokens[k].type = "VALUE"
        /\ x <= Len(tokens) => tokens[x].type # "VALUE"
  BY <1>3, <1>4 DEF n
<1>6. /\ AfterValues \in current .. Len(tokens) + 1
      /\ \A k \in current .. AfterValues - 1 : tokens[k].type = "VALUE"
      /\ AfterValues <= Len(tokens) => tokens[AfterValues].type # "VALUE"
  BY <1>5 DEF AfterValues
<1>7. AfterValues \in 1 .. n + 1
  <2>1. AfterValues \in current .. n + 1
    BY <1>6 DEF n
  <2>2. QED
    BY <1>1, <2>1
<1>8. QED
  BY <1>6, <1>7 DEF n

LEMMA IndexStep ==
  ASSUME IInv, parse_index_directive
  PROVE  IInv'
<1> DEFINE n == Len(tokens)
<1> DEFINE usable == Usable(current, AfterValues - 1)
<1>1. CASE usable = {}
  BY <1>1, ThrowStep DEF parse_index_directive
<1>2. CASE usable # {}
  <2> DEFINE first == CHOOSE i \in usable : \A j \in usable : i <= j
  <2>1. /\ pc = "index" /\ go("semicolon") /\ current' = AfterValues
        /\ server' = [server EXCEPT !.index = tokens[first].value]
        /\ UNCHANGED <<servers, has_location>>
    BY <1>2 DEF parse_index_directive
  <2>2. n \in Nat /\ current \in 1 .. n + 1 /\ AfterValues \in current .. n + 1
        /\ AfterValues \in 1 .. n + 1
    BY LenTypes, AfterValuesProperties DEF IInv
  <2>3. tokens[first].value \in Seq(Piece)
    <3>1. usable \subseteq Nat
      <4>1. usable \subseteq current .. AfterValues - 1
        BY DEF Usable
      <4> HIDE DEF usable, n
      <4>2. current .. AfterValues - 1 \subseteq Nat
        BY <2>2
      <4>3. QED
        BY <4>1, <4>2
    <3> HIDE DEF usable
    <3>2. first \in usable
      BY <1>2, <3>1, LeastNatural
    <3>3. tokens[first].value \in Executable
      BY <3>2 DEF usable, Usable
    <3>4. QED
      BY <3>3, SetsAssumption
  <2>4. server \in Server /\ servers \in Seq(Server) /\ has_location \in BOOLEAN
    BY DEF IInv, TypeOK
  <2>5. server' \in Server
    <3> DEFINE file == tokens[first].value
    <3>1. file \in Seq(Piece) /\ server' = [server EXCEPT !.index = file]
      BY <2>1, <2>3
    <3> HIDE DEF file
    <3>2. 0 \in 0 .. MaxPort
      BY DEF MaxPort
    <3>3. [server EXCEPT !.index = file] \in Server
      BY <2>4, <3>1, <3>2, ServerUpdates
    <3>4. QED
      BY <3>1, <3>3
  <2>6. (tokens # <<>> /\ tokens[n].type = "EOF") => ~(AfterValues > n)
    <3> SUFFICES ASSUME tokens # <<>>, tokens[n].type = "EOF", AfterValues > n PROVE FALSE
      OBVIOUS
    <3>1. ~(current > n)
      BY <2>1 DEF IInv, StopsAtEOF, Looking, Beyond
    <3>2. n \in current .. AfterValues - 1
      <4> HIDE DEF n
      <4>1. QED
        BY <2>2, <3>1
    <3>3. QED
      BY <3>2, AfterValuesProperties DEF IInv
  <2>7. pc' = "semicolon" /\ UNCHANGED <<content, pos, tokens, beyond>>
    BY <2>1 DEF go
  <2>8. PathSeen' /\ pc' \in Looking
    BY <2>7 DEF PathSeen, Looking
  <2>9. current' \in 1 .. Len(tokens) + 1
    BY <2>1, <2>2
  <2>10. (tokens # <<>> /\ tokens[Len(tokens)].type = "EOF") => ~(current' > Len(tokens))
    BY <2>1, <2>6
  <2>11. servers' \in Seq(Server) /\ has_location' \in BOOLEAN
    BY <2>1, <2>4
  <2> HIDE DEF n, usable, first
  <2>12. QED
    BY <2>5, <2>7, <2>8, <2>9, <2>10, <2>11, ParserStep
<1>3. QED
  BY <1>1, <1>2

-----------------------------------------------------------------------------
(* The lexer's steps.                                                      *)

(* What is left to show of a step that may add a token.                    *)
LEMMA LexerStep ==
  ASSUME IInv, UNCHANGED parserVars, content' = content,
         pc \in {"open", "lex"}, pc' \in {"lex", "rejected"},
         pos' \in 1 .. Len(content) + 1,
         \/ tokens' = tokens
         \/ \E t \in Token : /\ tokens' = Append(tokens, t)
                             /\ t.type \notin {"LBRACE", "RBRACE", "SEMICOLON"}
                                  => t.value \in Seq(Piece)
  PROVE  IInv'
<1> DEFINE n == Len(tokens)
<1> DEFINE m == Len(tokens')
<1>1. /\ n \in Nat /\ tokens \in Seq(Token)
      /\ current = 1 /\ current' = 1
  BY LenTypes DEF IInv, StartsAtFirst, parserVars
<1>2. tokens' \in Seq(Token) /\ m \in Nat
  <2>1. tokens' \in Seq(Token)
    BY <1>1, AppendProperties
  <2>2. QED
    BY <2>1, LenProperties
<1>3. TypeOK'
  <2>1. content' \in Files /\ pos' \in 1 .. Len(content') + 1
    BY DEF IInv, TypeOK
  <2>2. LexTypes'
    BY <1>2, <2>1 DEF LexTypes
  <2>3. current' \in 1 .. m + 1
    <3> HIDE DEF m
    <3>1. QED
      BY <1>1, <1>2
  <2>4. /\ beyond' \in Junk
        /\ servers' \in Seq(Server) /\ server' \in Server /\ has_location' \in BOOLEAN
    BY DEF IInv, TypeOK, parserVars, blockVars
  <2>5. ParseTypes'
    BY <2>3, <2>4 DEF ParseTypes
  <2>6. PcType'
    BY DEF PcType
  <2>7. QED
    BY <2>2, <2>5, <2>6 DEF TypeOK, PcType, LexTypes, ParseTypes
<1>4. ValuesAreWords'
  <2>1. CASE tokens' = tokens
    BY <2>1 DEF IInv, ValuesAreWords
  <2>2. CASE tokens' # tokens
    <3>1. PICK t \in Token : /\ tokens' = Append(tokens, t)
                             /\ t.type \notin {"LBRACE", "RBRACE", "SEMICOLON"}
                                  => t.value \in Seq(Piece)
      BY <2>2
    <3>2. m = n + 1 /\ tokens'[n + 1] = t /\ \A k \in 1 .. n : tokens'[k] = tokens[k]
      BY <1>1, <3>1, AppendProperties
    <3>3. \A k \in 1 .. n : tokens'[k].type \notin {"LBRACE", "RBRACE", "SEMICOLON"}
                               => tokens'[k].value \in Seq(Piece)
      BY <3>2 DEF IInv, ValuesAreWords
    <3>4. \A k \in 1 .. m : k \in 1 .. n \/ k = n + 1
      <4> HIDE DEF n, m
      <4>1. QED
        BY <1>1, <3>2
    <3>5. \A k \in 1 .. m : tokens'[k].type \notin {"LBRACE", "RBRACE", "SEMICOLON"}
                               => tokens'[k].value \in Seq(Piece)
      BY <3>1, <3>2, <3>3, <3>4
    <3>6. QED
      BY <3>5 DEF ValuesAreWords
  <2>3. QED
    BY <2>1, <2>2
<1>5. StartsAtFirst' /\ PathSeen' /\ StopsAtEOF'
  BY <1>1 DEF StartsAtFirst, PathSeen, StopsAtEOF, Looking
<1>6. QED
  BY <1>3, <1>4, <1>5 DEF IInv

LEMMA OpenSteps ==
  ASSUME IInv, UNCHANGED parserVars, open_file_throws \/ open_file
  PROVE  IInv'
<1>1. /\ pc \in {"open", "lex"} /\ pc' \in {"lex", "rejected"}
      /\ content' = content /\ pos' = pos /\ tokens' = tokens
  BY DEF open_file_throws, open_file
<1>2. pos' \in 1 .. Len(content) + 1
  BY <1>1 DEF IInv, TypeOK
<1>3. QED
  BY <1>1, <1>2, LexerStep

(* get_next_token.                                                         *)
LEMMA TokenSteps ==
  ASSUME IInv, UNCHANGED parserVars, get_next_token
  PROVE  IInv'
<1> DEFINE L == Len(content)
<1>1. /\ Here \in 1 .. L + 1 /\ Here \in Nat /\ L \in Nat /\ LexTypes
      /\ Here <= L => Here \in 1 .. L
  BY LenTypes, HereProperties, ContentTypes DEF IInv
<1>2. CASE token_EOF
  <2> DEFINE t == [type |-> "EOF", value |-> <<>>, at |-> Here]
  <2>1. /\ pc = "lex" /\ pc' = "lex" /\ content' = content
        /\ pos' = Here /\ tokens' = Append(tokens, t)
    BY <1>2 DEF token_EOF, has_more_tokens, push_token
  <2>2. <<>> \in Seq(Piece) /\ <<>> \in Seq(Piece \cup Delimiter)
    BY EmptySeq
  <2>3. t \in Token /\ t.value \in Seq(Piece)
    BY <1>1, <2>2 DEF Token, TokenType
  <2> HIDE DEF t
  <2>4. QED
    BY <1>1, <2>1, <2>3, LexerStep
<1>3. CASE token_delimiter
  <2> DEFINE c == content[Here]
  <2> DEFINE t == [type |-> type_of_delimiter[c], value |-> <<c>>, at |-> Here]
  <2>1. /\ pc = "lex" /\ pc' = "lex" /\ content' = content
        /\ pos' = Here + 1 /\ tokens' = Append(tokens, t) /\ Here <= L /\ c \in Delimiter
    BY <1>3 DEF token_delimiter, has_more_tokens, push_token
  <2>2. type_of_delimiter[c] \in {"LBRACE", "RBRACE", "SEMICOLON"}
    BY <2>1 DEF type_of_delimiter, Delimiter
  <2>3. <<c>> \in Seq(Piece \cup Delimiter)
    BY <2>1
  <2>4. pos' \in 1 .. L + 1
    <3> HIDE DEF L
    <3>1. QED
      BY <1>1, <2>1
  <2>5. t \in Token /\ t.type \in {"LBRACE", "RBRACE", "SEMICOLON"}
    <3> DEFINE type == type_of_delimiter[c]
    <3> DEFINE value == <<c>>
    <3>1. type \in TokenType /\ value \in Seq(Piece \cup Delimiter)
      BY <2>2, <2>3 DEF TokenType
    <3> HIDE DEF type, value
    <3>2. [type |-> type, value |-> value, at |-> Here] \in Token
      BY <1>1, <3>1 DEF Token
    <3>3. QED
      BY <2>2, <3>2 DEF type, value
  <2> HIDE DEF t
  <2>6. QED
    BY <2>1, <2>4, <2>5, LexerStep
<1>4. CASE comment
  <2> DEFINE e == Skip(Here, NotNewline)
  <2>1. /\ pc = "lex" /\ pc' = "lex" /\ content' = content /\ tokens' = tokens
        /\ pos' = e + 1 /\ Here <= L
    BY <1>4 DEF comment, has_more_tokens, skip_line
  <2>2. e \in Here .. L + 1 /\ \A k \in Here .. e - 1 : content[k] \in NotNewline
    BY <1>1, SkipProperties
  <2>3. e # L + 1
    <3> SUFFICES ASSUME e = L + 1 PROVE FALSE
      OBVIOUS
    <3>1. L \in Here .. e - 1 /\ L # 0
      <4> HIDE DEF L, e
      <4>1. QED
        BY <1>1, <2>1
    <3>2. content[L] \in NotNewline
      BY <2>2, <3>1
    <3>3. content # <<>>
      BY <3>1
    <3>4. content[L] = "newline"
      BY <1>1, <3>3, ContentTypes
    <3>5. "newline" \notin NotNewline
      BY NamesAssumption DEF NotNewline, Delimiter, Piece, Blank
    <3>6. QED
      BY <3>2, <3>4, <3>5
  <2>4. pos' \in 1 .. L + 1
    <3> HIDE DEF L, e
    <3>1. QED
      BY <1>1, <2>1, <2>2, <2>3
  <2>5. QED
    BY <2>1, <2>4, LexerStep
<1>5. CASE token_word
  <2> DEFINE t == [type |-> type_of_word(read_word), value |-> read_word, at |-> Here]
  <2>1. /\ pc = "lex" /\ pc' = "lex" /\ content' = content
        /\ pos' = Here + Len(read_word) /\ tokens' = Append(tokens, t) /\ Here <= L
    BY <1>5 DEF token_word, has_more_tokens, push_token
  <2>2. read_word \in Seq(Piece) /\ pos' \in 1 .. L + 1
    BY <1>1, <2>1, WordProperties
  <2>3. t \in Token /\ t.value \in Seq(Piece)
    <3> DEFINE type == type_of_word(read_word)
    <3> DEFINE value == read_word
    <3>1. type \in TokenType
      BY DEF type_of_word, TokenType
    <3>2. value \in Seq(Piece)
      BY <2>2
    <3> HIDE DEF type, value
    <3>3. value \in Seq(Piece \cup Delimiter)
      BY <3>2
    <3>4. [type |-> type, value |-> value, at |-> Here] \in Token
      BY <1>1, <3>1, <3>3 DEF Token
    <3>5. QED
      BY <3>2, <3>4 DEF type, value
  <2> HIDE DEF t
  <2>4. QED
    BY <2>1, <2>2, <2>3, LexerStep
<1>6. QED
  BY <1>2, <1>3, <1>4, <1>5 DEF get_next_token

(* The parser begins at the first token, and there is one if the last is   *)
(* the end of the input.                                                   *)
LEMMA LexingEndsStep ==
  ASSUME IInv, UNCHANGED parserVars, lexing_ends
  PROVE  IInv'
<1> DEFINE n == Len(tokens)
<1>1. /\ UNCHANGED <<content, pos, tokens, beyond, servers, server, has_location>>
      /\ current' = current /\ current = 1 /\ pc' = "config"
  BY DEF lexing_ends, parserVars, blockVars, IInv, StartsAtFirst
<1>2. current' \in 1 .. n + 1 /\ servers' \in Seq(Server) /\ server' \in Server
      /\ has_location' \in BOOLEAN
  BY <1>1 DEF IInv, TypeOK
<1>3. tokens # <<>> => ~(current' > n)
  <2> SUFFICES ASSUME tokens # <<>> PROVE ~(current' > n)
    OBVIOUS
  <2>1. n \in Nat /\ n # 0
    BY LenTypes, EmptySeq DEF IInv
  <2> HIDE DEF n
  <2>2. QED
    BY <1>1, <2>1
<1>4. PathSeen'
  BY <1>1 DEF PathSeen
<1>5. QED
  BY <1>1, <1>2, <1>3, <1>4, ParserStep

-----------------------------------------------------------------------------
LEMMA StepIInv == IInv /\ [Next]_vars => IInv'
<1> SUFFICES ASSUME IInv, [Next]_vars PROVE IInv'
  OBVIOUS
<1>1. CASE UNCHANGED vars
  BY <1>1 DEF vars, lexerVars, parserVars, blockVars, IInv, TypeOK, ValuesAreWords,
              StartsAtFirst, PathSeen, StopsAtEOF, Beyond
<1>2. CASE Lexer /\ UNCHANGED parserVars
  BY <1>2, OpenSteps, TokenSteps, LexingEndsStep DEF Lexer
<1>3. CASE parse
  BY <1>3, ConfigSteps, ServerSteps, LocationSteps, LocationEnds, ListenStep, IndexStep DEF parse
<1>4. QED
  BY <1>1, <1>2, <1>3 DEF Next, load_configuration

(* The strengthening is an invariant of every configuration.               *)
THEOREM Inductive == Spec => []IInv
<1>1. Init => IInv
  BY InitIInv
<1>2. IInv /\ [Next]_vars => IInv'
  BY StepIInv
<1>3. QED
  BY <1>1, <1>2, PTL DEF Spec

(* Of any file every value that load_configuration keeps is one: a port is *)
(* a number of 16 bits or was never set, an address, a file and a path are *)
(* words; the scans and _current stay within the file and the tokens.      *)
THEOREM TypeCorrect == Spec => []TypeOK
<1>1. IInv => TypeOK
  BY DEF IInv
<1>2. QED
  BY <1>1, Inductive, PTL

(* In no file that has an end of input do the parser's steps go past it,   *)
(* advance_token's and those of the loop that collects the values of an    *)
(* index directive.                                                        *)
THEOREM EndCorrect == Spec => []StopsAtEOF
<1>1. IInv => StopsAtEOF
  BY DEF IInv
<1>2. QED
  BY <1>1, Inductive, PTL

-----------------------------------------------------------------------------
(* The tokens of a file: the scan at pos has made those that begin before, *)
(* and stands where neither a word nor a comment goes on.                  *)

(* Where tokens begin before p.                                            *)
Begun(p) == {i \in 1 .. Len(content) : BeginsToken(i) /\ i < p}

(* ts are the tokens that begin before p.                                  *)
TokensBefore(p, ts) ==
  /\ \A k \in 1 .. Len(ts) : IsToken(ts[k]) /\ ts[k].at < p
  /\ \A k \in 1 .. Len(ts) - 1 : ts[k].at < ts[k + 1].at
  /\ Len(ts) = Cardinality(Begun(p))

(* No word goes on at p, and no comment.                                   *)
Between(p) ==
  /\ p = 1 \/ content[p - 1] \notin Piece \/ content[p] \notin Piece
  /\ \A j \in 1 .. p - 1 : ~(OpensComment(j) /\ SameLine(j, p))

(* Up to the end of the file, or all of them.                              *)
Scanned(p, ts) ==
  IF p <= Len(content) THEN TokensBefore(p, ts) /\ Between(p)
  ELSE AreTokens(ts)

ScanInv ==
  /\ pc = "open" => pos = 1 /\ tokens = <<>>
  /\ pc = "lex" => content # <<>> /\ Scanned(pos, tokens)
  /\ pc \in Looking \cup {"config"} => AreTokens(tokens)

(* What a place of a file holds is one of these.                           *)
LEMMA PlaceKinds ==
  ASSUME NEW c
  PROVE  /\ c \in Blank => c \notin Piece \cup Delimiter
         /\ c \in Delimiter => c \notin Piece \cup Blank
         /\ c \in Piece => c \notin Delimiter \cup Blank
         /\ c \in Blank \cup Delimiter => c # "#"
         /\ "newline" \notin NotNewline /\ "#" \in Piece
         /\ c \in Blank \cup Delimiter \cup Piece /\ c \notin NotNewline => c = "newline"
BY NamesAssumption DEF Blank, Delimiter, Piece, NotNewline

(* A file that is read is not empty and ends with a newline.               *)
LEMMA LastIsNewline ==
  ASSUME LexTypes, content # <<>>
  PROVE  /\ Len(content) \in Nat /\ Len(content) \in 1 .. Len(content)
         /\ content[Len(content)] = "newline"
         /\ \A i \in 1 .. Len(content) : content[i] \in Blank \cup Delimiter \cup Piece
<1> DEFINE L == Len(content)
<1>1. /\ content \in Seq(Blank \cup Delimiter \cup Piece) /\ L \in Nat
      /\ content[L] = "newline"
  BY ContentTypes
<1>2. L # 0
  BY <1>1, EmptySeq
<1>3. \A i \in 1 .. L : content[i] \in Blank \cup Delimiter \cup Piece
  BY <1>1, LenProperties
<1> HIDE DEF L
<1>4. L \in 1 .. L
  BY <1>1, <1>2
<1>5. QED
  BY <1>1, <1>3, <1>4 DEF L

LEMMA BegunFinite ==
  ASSUME LexTypes, NEW p
  PROVE  IsFiniteSet(Begun(p)) /\ Cardinality(Begun(p)) \in Nat
<1>1. Len(content) \in Nat
  BY ContentTypes
<1> DEFINE L == Len(content)
<1>2. IsFiniteSet(1 .. L)
  <2>1. L \in Int /\ 1 \in Int
    BY <1>1
  <2>2. QED
    BY <2>1, FS_Interval
<1>3. Begun(p) \subseteq 1 .. L
  BY DEF Begun
<1>4. IsFiniteSet(Begun(p))
  BY <1>2, <1>3, FS_Subset
<1>5. QED
  BY <1>4, FS_CardinalityType

(* Nothing begins from p to q.                                             *)
LEMMA NothingBegins ==
  ASSUME NEW p \in Nat, NEW q \in Nat, p <= q, LexTypes,
         \A i \in p .. q - 1 : ~BeginsToken(i)
  PROVE  Begun(q) = Begun(p)
<1> DEFINE L == Len(content)
<1>1. L \in Nat
  BY ContentTypes
<1> HIDE DEF L
<1>2. ASSUME NEW i \in 1 .. L, BeginsToken(i), i < q PROVE i < p
  <2>1. i \in p .. q - 1 \/ i < p
    BY <1>1, <1>2
  <2>2. QED
    BY <1>2, <2>1
<1>3. ASSUME NEW i \in 1 .. L, i < p PROVE i < q
  BY <1>1, <1>3
<1>4. QED
  BY <1>2, <1>3 DEF Begun, L

(* One token begins from p to q, at p.                                     *)
LEMMA OneBegins ==
  ASSUME NEW p \in 1 .. Len(content), NEW q \in Nat, p < q, LexTypes,
         BeginsToken(p), \A i \in p + 1 .. q - 1 : ~BeginsToken(i)
  PROVE  Cardinality(Begun(q)) = Cardinality(Begun(p)) + 1
<1> DEFINE L == Len(content)
<1>1. L \in Nat
  BY ContentTypes
<1>2. p \in 1 .. L
  OBVIOUS
<1> HIDE DEF L
<1>3. ASSUME NEW i \in 1 .. L, BeginsToken(i), i < q PROVE i < p \/ i = p
  <2>1. i \in p + 1 .. q - 1 \/ i < p \/ i = p
    BY <1>1, <1>2, <1>3
  <2>2. QED
    BY <1>3, <2>1
<1>4. ASSUME NEW i \in 1 .. L, i < p PROVE i < q
  BY <1>1, <1>2, <1>4
<1>5. Begun(q) = Begun(p) \cup {p}
  BY <1>2, <1>3, <1>4 DEF Begun, L
<1>6. p \notin Begun(p)
  <2>1. ~(p < p)
    BY <1>1, <1>2
  <2>2. QED
    BY <2>1 DEF Begun
<1>7. QED
  BY <1>5, <1>6, BegunFinite, FS_AddElement

LEMMA NoMore ==
  ASSUME NEW p \in Nat, NEW q \in Nat, p <= q, LexTypes,
         \A i \in p .. q - 1 : ~BeginsToken(i),
         NEW ts \in Seq(Token), TokensBefore(p, ts)
  PROVE  TokensBefore(q, ts)
<1> DEFINE n == Len(ts)
<1>1. Begun(q) = Begun(p)
  BY NothingBegins
<1>2. \A k \in 1 .. n : IsToken(ts[k]) /\ ts[k].at < q
  <2> SUFFICES ASSUME NEW k \in 1 .. n PROVE IsToken(ts[k]) /\ ts[k].at < q
    OBVIOUS
  <2>1. IsToken(ts[k]) /\ ts[k].at < p
    BY DEF TokensBefore
  <2>2. ts[k].at \in Nat
    <3>1. ts[k] \in Token
      BY ElementOfSeq
    <3>2. QED
      BY <3>1 DEF Token
  <2>3. QED
    BY <2>1, <2>2
<1>3. QED
  BY <1>1, <1>2 DEF TokensBefore

LEMMA OneMore ==
  ASSUME NEW p \in 1 .. Len(content), NEW q \in Nat, p < q, LexTypes,
         BeginsToken(p), \A i \in p + 1 .. q - 1 : ~BeginsToken(i),
         NEW ts \in Seq(Token), TokensBefore(p, ts),
         NEW t \in Token, IsToken(t), t.at = p
  PROVE  TokensBefore(q, Append(ts, t))
<1> DEFINE n == Len(ts)
<1> DEFINE us == Append(ts, t)
<1> DEFINE b == Cardinality(Begun(p))
<1>1. /\ us \in Seq(Token) /\ Len(us) = n + 1 /\ us[n + 1] = t /\ n \in Nat
      /\ \A k \in 1 .. n : us[k] = ts[k] /\ ts[k] \in Token
  BY AppendProperties, LenProperties
<1>2. n = b /\ \A k \in 1 .. n : IsToken(ts[k]) /\ ts[k].at < p
  BY DEF TokensBefore
<1>3. \A k \in 1 .. n - 1 : ts[k].at < ts[k + 1].at
  BY DEF TokensBefore
<1>4. Len(us) = Cardinality(Begun(q))
  <2>1. Cardinality(Begun(q)) = b + 1
    BY OneBegins
  <2>2. QED
    BY <1>1, <1>2, <2>1
<1>5. p \in Nat
  <2> DEFINE L == Len(content)
  <2>1. L \in Nat /\ p \in 1 .. L
    BY ContentTypes
  <2> HIDE DEF L
  <2>2. QED
    BY <2>1
<1> HIDE DEF n, us, b
<1>6. \A k \in 1 .. n : us[k].at \in Nat
  BY <1>1 DEF Token
<1>7. \A k \in 1 .. n + 1 : k \in 1 .. n \/ k = n + 1
  BY <1>1
<1>8. \A k \in 1 .. n + 1 : IsToken(us[k]) /\ us[k].at < q
  <2>1. ASSUME NEW k \in 1 .. n PROVE IsToken(us[k]) /\ us[k].at < q
    <3>1. IsToken(us[k]) /\ us[k].at < p /\ us[k].at \in Nat
      BY <1>1, <1>2, <1>6
    <3>2. QED
      BY <1>5, <3>1
  <2>2. IsToken(us[n + 1]) /\ us[n + 1].at < q
    BY <1>1
  <2>3. QED
    BY <1>7, <2>1, <2>2
<1>9. \A k \in 1 .. n + 1 - 1 : us[k].at < us[k + 1].at
  <2> SUFFICES ASSUME NEW k \in 1 .. n + 1 - 1 PROVE us[k].at < us[k + 1].at
    OBVIOUS
  <2>1. k \in 1 .. n /\ k \in Nat
    BY <1>1
  <2>2. CASE k = n
    BY <1>1, <1>2, <2>1, <2>2
  <2>3. CASE k # n
    <3>1. k \in 1 .. n - 1 /\ k + 1 \in 1 .. n
      BY <1>1, <2>1, <2>3
    <3>2. us[k] = ts[k] /\ us[k + 1] = ts[k + 1]
      BY <1>1, <2>1, <3>1
    <3>3. QED
      BY <1>3, <3>1, <3>2
  <2>4. QED
    BY <2>2, <2>3
<1>10. QED
  BY <1>1, <1>4, <1>8, <1>9 DEF TokensBefore, us

(* The end of the input is the last token, if there is one.                *)
LEMMA AllBegun ==
  ASSUME LexTypes, NEW ts \in Seq(Token), TokensBefore(Len(content) + 1, ts)
  PROVE  /\ EndsInComment => AreTokens(ts)
         /\ ~EndsInComment => \A t \in Token : t.type = "EOF" => AreTokens(Append(ts, t))
<1> DEFINE L == Len(content)
<1> DEFINE n == Len(ts)
<1> DEFINE begins == {i \in 1 .. L : BeginsToken(i)}
<1>1. L \in Nat /\ n \in Nat
  BY ContentTypes, LenProperties
<1>2. Begun(L + 1) = begins
  <2> HIDE DEF L
  <2>1. \A i \in 1 .. L : i < L + 1
    BY <1>1
  <2>2. QED
    BY <2>1 DEF Begun, L
<1>3. n = Cardinality(begins)
  BY <1>2 DEF TokensBefore
<1>4. /\ \A k \in 1 .. n : IsToken(ts[k])
      /\ \A k \in 1 .. n - 1 : ts[k].at < ts[k + 1].at
  BY DEF TokensBefore
<1>5. ASSUME EndsInComment PROVE AreTokens(ts)
  <2>1. n = n + 0
    BY <1>1
  <2>2. QED
    BY <1>3, <1>4, <1>5, <2>1 DEF AreTokens
<1>6. ASSUME ~EndsInComment, NEW t \in Token, t.type = "EOF" PROVE AreTokens(Append(ts, t))
  <2> DEFINE us == Append(ts, t)
  <2>1. /\ Len(us) = n + 1 /\ us[n + 1] = t
        /\ \A k \in 1 .. n : us[k] = ts[k]
    BY AppendProperties
  <2>2. \A k \in 1 .. n : IsToken(us[k])
    BY <1>4, <2>1
  <2>3. \A k \in 1 .. n - 1 : us[k].at < us[k + 1].at
    <3> HIDE DEF n, us
    <3>1. \A k \in 1 .. n - 1 : k \in 1 .. n /\ k + 1 \in 1 .. n
      BY <1>1
    <3>2. QED
      BY <1>4, <2>1, <3>1
  <2> HIDE DEF us
  <2>4. QED
    BY <1>3, <1>6, <2>1, <2>2, <2>3 DEF AreTokens, us
<1>7. QED
  BY <1>5, <1>6

(* No token and no comment begins among blanks.                            *)
LEMMA AtHere ==
  ASSUME LexTypes, content # <<>>, pos <= Len(content), Between(pos)
  PROVE  /\ \A i \in pos .. Here - 1 : ~BeginsToken(i)
         /\ Here <= Len(content) => Between(Here)
         /\ Here > Len(content) => ~EndsInComment
<1> DEFINE L == Len(content)
<1> DEFINE h == Here
<1>1. /\ L \in Nat /\ pos \in Nat /\ h \in Nat /\ pos \in 1 .. L + 1 /\ h \in pos .. L + 1
      /\ \A i \in pos .. h - 1 : content[i] \in Blank
  BY ContentTypes, HereProperties, SkipProperties DEF LexTypes, Here
<1> HIDE DEF h
<1>2. \A i \in pos .. h - 1 : ~BeginsToken(i)
  BY <1>1 DEF BeginsToken
<1>3. \A j \in pos .. h - 1 : ~OpensComment(j)
  BY <1>1, PlaceKinds DEF OpensComment
<1>4. ASSUME NEW j \in 1 .. pos - 1, NEW q \in Nat, pos <= q, OpensComment(j), SameLine(j, q)
      PROVE  FALSE
  <2>1. \A k \in j .. pos - 1 : k \in j .. q - 1
    BY <1>1, <1>4
  <2>2. SameLine(j, pos)
    BY <1>4, <2>1 DEF SameLine
  <2>3. QED
    BY <1>4, <2>2 DEF Between
<1>5. ASSUME h <= L PROVE Between(h)
  <2>1. h = 1 \/ content[h - 1] \notin Piece \/ content[h] \notin Piece
    <3>1. CASE h = pos
      BY <3>1 DEF Between
    <3>2. CASE h # pos
      <4>1. h - 1 \in pos .. h - 1
        <5> HIDE DEF L
        <5>1. QED
          BY <1>1, <3>2
      <4>2. content[h - 1] \in Blank
        BY <1>1, <4>1
      <4>3. QED
        BY <4>2, PlaceKinds
    <3>3. QED
      BY <3>1, <3>2
  <2>2. ASSUME NEW j \in 1 .. h - 1, OpensComment(j), SameLine(j, h) PROVE FALSE
    <3>1. (j \in 1 .. pos - 1 \/ j \in pos .. h - 1) /\ pos <= h
      <4> HIDE DEF L
      <4>1. QED
        BY <1>1
    <3>2. QED
      BY <1>1, <1>3, <1>4, <2>2, <3>1
  <2>3. QED
    BY <2>1, <2>2 DEF Between
<1>6. ASSUME h > L, EndsInComment PROVE FALSE
  <2>1. PICK j \in 1 .. L : OpensComment(j) /\ SameLine(j, L)
    BY <1>6 DEF EndsInComment, InComment
  <2>2. j \in 1 .. pos - 1 \/ j \in pos .. h - 1
    <3>1. j \in 1 .. L /\ h > L
      BY <1>6
    <3> HIDE DEF L
    <3>2. QED
      BY <1>1, <3>1
  <2>3. QED
    BY <1>1, <1>3, <1>4, <2>1, <2>2
<1>7. QED
  BY <1>2, <1>5, <1>6 DEF h

(* Between tokens a place is in a comment only if one opens there.         *)
LEMMA NoComment ==
  ASSUME LexTypes, NEW h \in 1 .. Len(content), Between(h), content[h] # "#"
  PROVE  ~InComment(h)
<1> DEFINE L == Len(content)
<1>1. L \in Nat /\ h \in 1 .. L
  BY ContentTypes
<1> SUFFICES ASSUME NEW j \in 1 .. h, OpensComment(j), SameLine(j, h) PROVE FALSE
  BY DEF InComment
<1>2. j # h
  BY DEF OpensComment
<1>3. j \in 1 .. h - 1
  <2> HIDE DEF L
  <2>1. QED
    BY <1>1, <1>2
<1>4. QED
  BY <1>3 DEF Between

(* After a token.                                                          *)
LEMMA BetweenNext ==
  ASSUME LexTypes, NEW h \in 1 .. Len(content), NEW q \in Nat, h < q, Between(h),
         \A j \in h .. q - 1 : ~OpensComment(j),
         content[q - 1] \notin Piece \/ content[q] \notin Piece
  PROVE  Between(q)
<1> DEFINE L == Len(content)
<1>1. L \in Nat /\ h \in 1 .. L
  BY ContentTypes
<1> SUFFICES ASSUME NEW j \in 1 .. q - 1, OpensComment(j), SameLine(j, q) PROVE FALSE
  BY DEF Between
<1> HIDE DEF L
<1>2. j \in 1 .. h - 1
  <2>1. j \in 1 .. h - 1 \/ j \in h .. q - 1
    BY <1>1
  <2>2. QED
    BY <2>1
<1>3. \A k \in j .. h - 1 : k \in j .. q - 1
  BY <1>1
<1>4. SameLine(j, h)
  BY <1>3 DEF SameLine
<1>5. QED
  BY <1>2, <1>4 DEF Between

LEMMA DelimiterScanned ==
  ASSUME LexTypes, content # <<>>, NEW h \in 1 .. Len(content), Between(h),
         content[h] \in Delimiter,
         NEW t \in Token, t.at = h, t.value = <<content[h]>>, t.type # "EOF"
  PROVE  /\ BeginsToken(h) /\ IsToken(t)
         /\ h + 1 \in 1 .. Len(content) /\ Between(h + 1)
<1> DEFINE L == Len(content)
<1> DEFINE c == content[h]
<1> DEFINE q == h + 1
<1>1. L \in Nat /\ h \in 1 .. L /\ h \in Nat /\ content[L] = "newline"
  <2>1. L \in Nat /\ h \in 1 .. L /\ content[L] = "newline"
    BY LastIsNewline
  <2> HIDE DEF L
  <2>2. QED
    BY <2>1
<1>2. c \notin Piece \cup Blank /\ c # "#" /\ "newline" \in Blank
  BY PlaceKinds DEF Blank
<1>3. BeginsToken(h)
  BY <1>2, NoComment DEF BeginsToken
<1>4. q \in 1 .. L /\ q \in Nat /\ h < q /\ q - 1 = h
  <2>1. h # L
    BY <1>1, <1>2
  <2> HIDE DEF L
  <2>2. QED
    BY <1>1, <2>1
<1>5. \A j \in h .. q - 1 : ~OpensComment(j)
  <2>1. \A j \in h .. q - 1 : j = h
    BY <1>1
  <2>2. QED
    BY <1>2, <2>1 DEF OpensComment
<1>6. Between(q)
  <2>1. content[q - 1] \notin Piece
    BY <1>2, <1>4
  <2> HIDE DEF q
  <2>2. QED
    BY <1>4, <1>5, <2>1, BetweenNext
<1>7. IsToken(t)
  <2>1. Len(t.value) = 1
    OBVIOUS
  <2>2. SubSeq(content, h, h) = <<c>>
    <3> DEFINE w == SubSeq(content, h, h)
    <3>1. \A i \in h .. h : content[i] \in Delimiter
      BY <1>1
    <3>2. h \in Int
      BY <1>1
    <3>3. /\ w \in Seq(Delimiter) /\ Len(w) = IF h <= h THEN h - h + 1 ELSE 0
          /\ \A i \in 1 .. h - h + 1 : w[i] = content[h + i - 1]
      BY <3>1, <3>2, SubSeqProperties
    <3> HIDE DEF w
    <3>4. Len(w) = 1 /\ 1 \in 1 .. h - h + 1 /\ h + 1 - 1 = h
      BY <1>1, <3>3
    <3>5. w[1] = c
      BY <3>3, <3>4
    <3>6. <<c>> \in Seq(Delimiter) /\ Len(<<c>>) = 1 /\ <<c>>[1] = c
      OBVIOUS
    <3>7. \A i \in 1 .. Len(w) : w[i] = <<c>>[i]
      <4>1. \A i \in 1 .. 1 : i = 1
        OBVIOUS
      <4>2. QED
        BY <3>4, <3>5, <3>6, <4>1
    <3>8. w = <<c>>
      BY <3>3, <3>4, <3>6, <3>7, SeqEqual
    <3>9. QED
      BY <3>8 DEF w
  <2>3. h + Len(t.value) = q
    BY <2>1
  <2>4. t.value = SubSeq(content, h, q - 1)
    BY <1>4, <2>2
  <2>5. h \in 1 .. Len(content) /\ t.at = h /\ t.type # "EOF" /\ content[h] \in Delimiter
    OBVIOUS
  <2> HIDE DEF q
  <2>6. QED
    BY <1>3, <2>3, <2>4, <2>5 DEF IsToken, q
<1>8. QED
  BY <1>3, <1>4, <1>6, <1>7

LEMMA WordScanned ==
  ASSUME LexTypes, content # <<>>, Here \in 1 .. Len(content), Between(Here),
         content[Here] \in Piece \ {"#"},
         NEW t \in Token, t.at = Here, t.value = read_word, t.type # "EOF"
  PROVE  LET q == Here + Len(read_word) IN
         /\ BeginsToken(Here) /\ IsToken(t)
         /\ q \in 1 .. Len(content) /\ Here < q /\ Between(q)
         /\ \A i \in Here + 1 .. q - 1 : ~BeginsToken(i)
<1> DEFINE L == Len(content)
<1> DEFINE h == Here
<1> DEFINE e == Skip(Here, Piece)
<1> DEFINE w == SubSeq(content, h, e - 1)
<1>1. L \in Nat /\ h \in 1 .. L /\ content[L] = "newline" /\ "newline" \notin Piece
  BY LastIsNewline, PlaceKinds DEF Blank
<1>2. h \in Nat /\ e \in h .. L + 1 /\ e \in Nat
  <2>1. e \in h .. L + 1
    BY HereProperties, SkipProperties
  <2> HIDE DEF L, e, h
  <2>2. QED
    BY <1>1, <2>1
<1>3. (\A k \in h .. e - 1 : content[k] \in Piece) /\ (e <= L => content[e] \notin Piece)
  BY HereProperties, SkipProperties
<1>4. e # h /\ e # L + 1
  <2>1. e # h
    BY <1>1, <1>3
  <2>2. ASSUME e = L + 1 PROVE FALSE
    <3>1. L \in h .. e - 1
      <4>1. e = L + 1
        BY <2>2
      <4> HIDE DEF L, e, h
      <4>2. QED
        BY <1>1, <1>2, <4>1
    <3>2. QED
      BY <1>1, <1>3, <3>1
  <2>3. QED
    BY <2>1, <2>2
<1>5. /\ e \in 1 .. L /\ h < e /\ h <= e - 1 /\ e - 1 \in h .. e - 1 /\ h \in Int /\ e - 1 \in Int
      /\ \A i \in h + 1 .. e - 1 : i \in h .. e - 1 /\ i - 1 \in h .. e - 1 /\ i > 1
  <2> HIDE DEF L, e, h
  <2>1. QED
    BY <1>1, <1>2, <1>4
<1>6. Len(w) = e - h /\ h + Len(w) = e
  <2>1. Len(w) = IF h <= e - 1 THEN e - 1 - h + 1 ELSE 0
    BY <1>3, <1>5, SubSeqProperties
  <2> HIDE DEF L, e, h, w
  <2>2. QED
    BY <1>2, <1>5, <2>1
<1>7. content[h] \in Piece /\ content[h] # "#" /\ content[e] \notin Piece
  BY <1>3, <1>5
<1> HIDE DEF L, e, h
<1>8. BeginsToken(h)
  <2>1. ~InComment(h)
    BY <1>1, <1>7, NoComment DEF L, h
  <2>2. h > 1 => content[h - 1] \notin Piece
    <3>1. h # 1 => content[h - 1] \notin Piece
      BY <1>7 DEF Between, h
    <3>2. QED
      BY <1>2, <3>1
  <2>3. QED
    BY <1>7, <2>1, <2>2, PlaceKinds DEF BeginsToken
<1>9. \A i \in h + 1 .. e - 1 : ~BeginsToken(i) /\ ~OpensComment(i)
  <2> SUFFICES ASSUME NEW i \in h + 1 .. e - 1 PROVE ~BeginsToken(i) /\ ~OpensComment(i)
    OBVIOUS
  <2>1. content[i] \in Piece /\ content[i - 1] \in Piece /\ i > 1
    BY <1>3, <1>5
  <2>2. content[i] \notin Delimiter
    BY <2>1, PlaceKinds
  <2>3. QED
    BY <2>1, <2>2 DEF BeginsToken, OpensComment
<1>10. Between(e)
  <2>1. \A j \in h .. e - 1 : ~OpensComment(j)
    <3>1. ~OpensComment(h)
      BY <1>7 DEF OpensComment
    <3>2. \A j \in h .. e - 1 : j = h \/ j \in h + 1 .. e - 1
      BY <1>2
    <3>3. QED
      BY <1>9, <3>1, <3>2
  <2>2. QED
    BY <1>1, <1>2, <1>5, <1>7, <2>1, BetweenNext DEF L, h
<1>11. IsToken(t)
  <2>1. t.at = h /\ t.value = w /\ t.type # "EOF" /\ h \in 1 .. Len(content)
    BY <1>1 DEF h, e, L, read_word
  <2>2. content[h] \notin Delimiter
    BY <1>7, PlaceKinds
  <2>3. e > h
    BY <1>2, <1>5
  <2>4. t.value = SubSeq(content, h, e - 1)
    BY <2>1
  <2>5. h + Len(t.value) = e
    BY <1>6, <2>1
  <2> HIDE DEF w
  <2>6. QED
    BY <1>3, <1>7, <1>8, <2>1, <2>2, <2>3, <2>4, <2>5 DEF IsToken
<1>12. Here + Len(read_word) = e
  BY <1>6 DEF h, e, read_word
<1>13. QED
  BY <1>5, <1>8, <1>9, <1>10, <1>11, <1>12 DEF h, L

LEMMA CommentScanned ==
  ASSUME LexTypes, content # <<>>, Here \in 1 .. Len(content), Between(Here), content[Here] = "#"
  PROVE  /\ skip_line \in 2 .. Len(content) + 1 /\ Here < skip_line
         /\ \A i \in Here .. skip_line - 1 : ~BeginsToken(i)
         /\ skip_line <= Len(content) => Between(skip_line)
         /\ skip_line > Len(content) => EndsInComment
<1> DEFINE L == Len(content)
<1> DEFINE h == Here
<1> DEFINE e == Skip(Here, NotNewline)
<1>1. /\ L \in Nat /\ h \in 1 .. L /\ content[L] = "newline" /\ "newline" \notin NotNewline
      /\ \A i \in 1 .. L : content[i] \in Blank \cup Delimiter \cup Piece
  BY LastIsNewline, PlaceKinds
<1>2. h \in Nat /\ e \in h .. L + 1 /\ e \in Nat
  <2>1. e \in h .. L + 1
    BY HereProperties, SkipProperties
  <2> HIDE DEF L, e, h
  <2>2. QED
    BY <1>1, <2>1
<1>3. (\A k \in h .. e - 1 : content[k] \in NotNewline) /\ (e <= L => content[e] \notin NotNewline)
  BY HereProperties, SkipProperties
<1>4. e # L + 1
  <2> SUFFICES ASSUME e = L + 1 PROVE FALSE
    OBVIOUS
  <2>1. L \in h .. e - 1
    <3>1. e = L + 1
      OBVIOUS
    <3> HIDE DEF L, e, h
    <3>2. QED
      BY <1>1, <1>2, <3>1
  <2>2. QED
    BY <1>1, <1>3, <2>1
<1>5. e \in 1 .. L /\ e <= L
  <2> HIDE DEF L, e, h
  <2>1. QED
    BY <1>1, <1>2, <1>4
<1>6. content[e] = "newline"
  BY <1>1, <1>3, <1>5, PlaceKinds
<1>7. content[h] = "#" /\ "#" \in Piece /\ "newline" \notin Piece
  BY PlaceKinds DEF Blank
<1>8. skip_line = e + 1
  BY DEF skip_line
<1> HIDE DEF L, e, h
<1>9. OpensComment(h)
  <2>1. h # 1 => content[h - 1] \notin Piece
    BY <1>7 DEF Between, h
  <2>2. h > 1 => content[h - 1] \notin Piece
    BY <1>2, <2>1
  <2>3. QED
    BY <1>7, <2>2 DEF OpensComment
<1>10. \A i \in h .. e : InComment(i)
  <2> SUFFICES ASSUME NEW i \in h .. e PROVE InComment(i)
    OBVIOUS
  <2>1. h \in 1 .. i /\ \A k \in h .. i - 1 : k \in h .. e - 1
    BY <1>1, <1>2
  <2>2. SameLine(h, i)
    BY <1>1, <1>3, <2>1 DEF SameLine
  <2>3. QED
    BY <1>9, <2>1, <2>2 DEF InComment
<1> DEFINE q == e + 1
<1>11. q \in 2 .. L + 1 /\ h < q /\ q - 1 = e /\ e \in h .. e
  BY <1>1, <1>2, <1>5
<1>12. \A i \in h .. q - 1 : ~BeginsToken(i)
  BY <1>10, <1>11 DEF BeginsToken
<1>13. Between(q)
  <2>1. content[q - 1] \notin Piece
    BY <1>6, <1>7, <1>11
  <2>2. ASSUME NEW j \in 1 .. q - 1, SameLine(j, q) PROVE FALSE
    <3>1. e \in j .. q - 1
      BY <1>2, <1>11, <2>2
    <3>2. QED
      BY <1>6, <2>2, <3>1 DEF SameLine
  <2> HIDE DEF q
  <2>3. QED
    BY <2>1, <2>2 DEF Between
<1>14. ASSUME q > L PROVE EndsInComment
  <2>1. e = L
    BY <1>1, <1>5, <1>14
  <2>2. InComment(L)
    BY <1>10, <1>11, <2>1
  <2>3. QED
    BY <2>2 DEF EndsInComment, L
<1> HIDE DEF q
<1>15. skip_line = q
  BY <1>8 DEF q
<1>16. QED
  BY <1>11, <1>12, <1>13, <1>14, <1>15 DEF h, L

LEMMA SameFile ==
  ASSUME content' = content, NEW p, NEW ts, pos' = p, tokens' = ts
  PROVE  /\ Scanned(p, ts) => Scanned(pos, tokens)'
         /\ AreTokens(ts) => AreTokens(tokens)'
<1>1. \A i : BeginsToken(i)' <=> BeginsToken(i)
  BY DEF BeginsToken, InComment, OpensComment, SameLine
<1>2. EndsInComment' <=> EndsInComment
  BY DEF EndsInComment, InComment, OpensComment, SameLine
<1>3. \A t : IsToken(t)' <=> IsToken(t)
  BY <1>1 DEF IsToken
<1>4. AreTokens(ts) => AreTokens(tokens)'
  BY <1>1, <1>2, <1>3 DEF AreTokens
<1>5. TokensBefore(p, ts) => TokensBefore(pos, tokens)'
  BY <1>1, <1>3 DEF TokensBefore, Begun
<1>6. Between(p) => Between(pos)'
  BY DEF Between, OpensComment, SameLine
<1>7. QED
  BY <1>4, <1>5, <1>6 DEF Scanned

(* get_next_token.                                                         *)
LEMMA TokensScanned ==
  ASSUME IInv, ScanInv, get_next_token, IInv'
  PROVE  ScanInv'
<1> DEFINE L == Len(content)
<1> DEFINE n == Len(tokens)
<1>1. /\ pc = "lex" /\ pc' = "lex" /\ content' = content /\ pos <= L
      /\ content # <<>> /\ TokensBefore(pos, tokens) /\ Between(pos)
  BY DEF get_next_token, token_EOF, token_delimiter, comment, token_word, has_more_tokens,
         ScanInv, Scanned
<1>2. LexTypes /\ tokens \in Seq(Token) /\ tokens' \in Seq(Token) /\ n \in Nat
  BY LenTypes DEF IInv, TypeOK
<1>3. /\ \A i \in pos .. Here - 1 : ~BeginsToken(i)
      /\ Here <= L => Between(Here)
      /\ Here > L => ~EndsInComment
  BY <1>1, <1>2, AtHere
<1>4. L \in Nat /\ pos \in Nat /\ Here \in Nat /\ pos <= Here
      /\ Here \in 1 .. L + 1 /\ (Here <= L => Here \in 1 .. L)
  <2>1. L \in Nat /\ pos \in Nat /\ Here \in Nat /\ Here \in pos .. L + 1
        /\ Here \in 1 .. L + 1 /\ (Here <= L => Here \in 1 .. L)
    BY <1>2, ContentTypes, HereProperties
  <2> HIDE DEF L
  <2>2. QED
    BY <2>1
<1>5. TokensBefore(Here, tokens)
  BY <1>1, <1>2, <1>3, <1>4, NoMore
<1>6. ASSUME Scanned(pos', tokens') PROVE ScanInv'
  <2>1. PICK p : p = pos'
    OBVIOUS
  <2>2. PICK ts : ts = tokens'
    OBVIOUS
  <2>3. Scanned(pos, tokens)'
    BY <1>1, <1>6, <2>1, <2>2, SameFile
  <2>4. QED
    BY <1>1, <2>3 DEF ScanInv, Looking
<1>7. ASSUME NEW t, tokens' = Append(tokens, t) PROVE t \in Token
  <2>1. Len(tokens') = n + 1 /\ tokens'[n + 1] = t
    BY <1>2, <1>7
  <2>2. n + 1 \in 1 .. n + 1
    BY <1>2
  <2>3. QED
    BY <1>2, <2>1, <2>2, ElementOfSeq
<1>8. CASE token_EOF
  <2> DEFINE t == [type |-> "EOF", value |-> <<>>, at |-> Here]
  <2>1. Here > L /\ pos' = Here /\ tokens' = Append(tokens, t)
    BY <1>8 DEF token_EOF, push_token
  <2>2. t \in Token /\ t.type = "EOF"
    BY <1>7, <2>1
  <2> HIDE DEF t
  <2>3. Here = L + 1 /\ ~(Here <= L)
    <3> HIDE DEF L
    <3>1. QED
      BY <1>4, <2>1
  <2>4. AreTokens(Append(tokens, t))
    BY <1>2, <1>3, <1>5, <2>1, <2>2, <2>3, AllBegun
  <2>5. Scanned(pos', tokens')
    BY <2>1, <2>3, <2>4 DEF Scanned
  <2>6. QED
    BY <1>6, <2>5
<1>9. CASE token_delimiter
  <2> DEFINE c == content[Here]
  <2> DEFINE t == [type |-> type_of_delimiter[c], value |-> <<c>>, at |-> Here]
  <2>1. Here <= L /\ c \in Delimiter /\ pos' = Here + 1 /\ tokens' = Append(tokens, t)
    BY <1>9 DEF token_delimiter, push_token
  <2>2. /\ t \in Token /\ t.at = Here /\ t.value = <<content[Here]>>
        /\ t.type = type_of_delimiter[c]
    BY <1>7, <2>1
  <2>3. t.type # "EOF"
    BY <2>1, <2>2 DEF type_of_delimiter, Delimiter
  <2> HIDE DEF t
  <2> DEFINE h == Here
  <2> DEFINE q == h + 1
  <2>4. h \in 1 .. Len(content) /\ t.at = h /\ t.value = <<content[h]>> /\ Between(h)
        /\ TokensBefore(h, tokens) /\ h \in Nat /\ content[h] \in Delimiter
    BY <1>3, <1>4, <1>5, <2>1, <2>2
  <2>5. pos' = q
    BY <2>1
  <2> HIDE DEF h
  <2>6. BeginsToken(h) /\ IsToken(t) /\ q \in 1 .. Len(content) /\ Between(q)
    BY <1>1, <1>2, <2>2, <2>3, <2>4, DelimiterScanned
  <2>7. q \in Nat /\ h < q /\ \A i \in h + 1 .. q - 1 : FALSE
    BY <2>4
  <2> HIDE DEF q
  <2>8. TokensBefore(q, Append(tokens, t))
    BY <1>2, <2>2, <2>4, <2>6, <2>7, OneMore
  <2>9. q <= Len(content)
    <3>1. q \in 1 .. L
      BY <2>6
    <3> HIDE DEF L
    <3>2. q <= L
      BY <1>4, <3>1
    <3>3. QED
      BY <3>2 DEF L
  <2>10. Scanned(pos', tokens')
    BY <2>1, <2>5, <2>6, <2>8, <2>9 DEF Scanned
  <2>11. QED
    BY <1>6, <2>10
<1>10. CASE comment
  <2> DEFINE q == skip_line
  <2>1. Here <= L /\ content[Here] = "#" /\ pos' = q /\ tokens' = tokens
    BY <1>10 DEF comment
  <2>2. /\ q \in 2 .. L + 1 /\ Here < q
        /\ \A i \in Here .. q - 1 : ~BeginsToken(i)
        /\ q <= L => Between(q)
        /\ q > L => EndsInComment
    BY <1>1, <1>2, <1>3, <1>4, <2>1, CommentScanned
  <2> HIDE DEF q
  <2>3. q \in Nat /\ Here <= q /\ (q <= L \/ (q > L /\ q = L + 1 /\ ~(q <= L)))
    <3> HIDE DEF L
    <3>1. QED
      BY <1>4, <2>2
  <2>4. TokensBefore(q, tokens)
    BY <1>2, <1>4, <1>5, <2>2, <2>3, NoMore
  <2>5. CASE q <= L
    BY <1>6, <2>1, <2>2, <2>4, <2>5 DEF Scanned
  <2>6. CASE q > L /\ q = L + 1 /\ ~(q <= L)
    <3>1. AreTokens(tokens)
      BY <1>2, <2>2, <2>4, <2>6, AllBegun
    <3>2. QED
      BY <1>6, <2>1, <2>6, <3>1 DEF Scanned
  <2>7. QED
    BY <2>3, <2>5, <2>6
<1>11. CASE token_word
  <2> DEFINE t == [type |-> type_of_word(read_word), value |-> read_word, at |-> Here]
  <2> DEFINE q == Here + Len(read_word)
  <2>1. Here <= L /\ content[Here] \in Piece \ {"#"} /\ pos' = q /\ tokens' = Append(tokens, t)
    BY <1>11 DEF token_word, push_token
  <2>2. t \in Token /\ t.at = Here /\ t.value = read_word /\ t.type = type_of_word(read_word)
    BY <1>7, <2>1
  <2>3. t.type # "EOF"
    BY <2>2 DEF type_of_word
  <2> HIDE DEF t
  <2>4. /\ BeginsToken(Here) /\ IsToken(t)
        /\ q \in 1 .. Len(content) /\ Here < q /\ Between(q)
        /\ \A i \in Here + 1 .. q - 1 : ~BeginsToken(i)
    BY <1>1, <1>2, <1>3, <1>4, <2>1, <2>2, <2>3, WordScanned
  <2> HIDE DEF q
  <2>5. q \in Nat /\ q <= L
    <3>1. q \in 1 .. L
      BY <2>4
    <3> HIDE DEF L
    <3>2. QED
      BY <1>4, <3>1
  <2>6. Here \in 1 .. Len(content)
    BY <1>4, <2>1
  <2> DEFINE h == Here
  <2>7. /\ h \in 1 .. Len(content) /\ h < q /\ BeginsToken(h) /\ t.at = h
        /\ \A i \in h + 1 .. q - 1 : ~BeginsToken(i)
        /\ TokensBefore(h, tokens)
    BY <1>5, <2>2, <2>4, <2>6
  <2> HIDE DEF h
  <2>8. TokensBefore(q, Append(tokens, t))
    BY <1>2, <2>2, <2>4, <2>5, <2>7, OneMore
  <2>9. Scanned(pos', tokens')
    BY <2>1, <2>4, <2>5, <2>8 DEF Scanned
  <2>10. QED
    BY <1>6, <2>9
<1>12. QED
  BY <1>8, <1>9, <1>10, <1>11 DEF get_next_token

LEMMA InitScanInv == Init => ScanInv
BY DEF Init, LexerInit, ScanInv, Looking

(* At the first place nothing has begun.                                   *)
LEMMA FileOpened ==
  ASSUME IInv, ScanInv, open_file
  PROVE  ScanInv'
<1> DEFINE L == Len(content)
<1>1. /\ pos = 1 /\ tokens = <<>> /\ content # <<>> /\ pc' = "lex"
      /\ content' = content /\ pos' = 1 /\ tokens' = <<>>
  BY DEF open_file, ScanInv
<1>2. LexTypes /\ L \in Nat /\ L \in 1 .. L
  BY <1>1, LenTypes, LastIsNewline DEF IInv
<1>3. Begun(1) = {}
  <2>1. \A i \in 1 .. L : ~(i < 1)
    <3> HIDE DEF L
    <3>1. QED
      BY <1>2
  <2>2. QED
    BY <2>1 DEF Begun
<1>4. TokensBefore(1, <<>>)
  <2>1. Cardinality(Begun(1)) = 0
    BY <1>3, FS_EmptySet
  <2>2. QED
    BY <2>1 DEF TokensBefore
<1>5. Between(1)
  BY DEF Between
<1>6. 1 <= L
  <2> HIDE DEF L
  <2>1. QED
    BY <1>2
<1>7. Scanned(1, <<>>)
  BY <1>4, <1>5, <1>6 DEF Scanned
<1>8. Scanned(pos, tokens)'
  BY <1>1, <1>7, SameFile
<1>9. QED
  BY <1>1, <1>8 DEF ScanInv, Looking

(* The parser reads the tokens and changes none.                           *)
LEMMA ParsingKeepsTokens ==
  ASSUME parse
  PROVE  /\ UNCHANGED <<content, pos, tokens>> /\ pc \in Looking \cup {"config"}
         /\ pc' \notin {"open", "lex"}
<1>1. ASSUME NEW next, go(next) PROVE UNCHANGED <<content, pos, tokens>> /\ pc' = next
  BY <1>1 DEF go
<1>2. ASSUME throw PROVE UNCHANGED <<content, pos, tokens>> /\ pc' \in {"rejected", "died"}
  BY <1>2 DEF throw
<1>3. CASE config_server \/ config_throws \/ config_ends
  <2>1. pc = "config" /\ (go("server_lbrace") \/ throw \/ go("rejected") \/ go("accepted"))
    BY <1>3 DEF config_server, config_throws, config_ends
  <2>2. QED
    BY <1>1, <1>2, <2>1
<1>4. CASE server_lbrace \/ semicolon \/ location_lbrace
  <2>1. /\ pc \in {"server_lbrace", "semicolon", "location_lbrace"}
        /\ go("server") \/ go("location_rbrace") \/ throw
    BY <1>4 DEF server_lbrace, semicolon, location_lbrace, expected_token_type
  <2>2. QED
    BY <1>1, <1>2, <2>1 DEF Looking
<1>5. CASE server_rbrace \/ server_throws \/ location_begins
  <2>1. pc = "server" /\ (go("config") \/ go("location") \/ throw)
    BY <1>5 DEF server_rbrace, server_throws, location_begins, InServer
  <2>2. QED
    BY <1>1, <1>2, <2>1 DEF Looking
<1>6. CASE parse_server_directives("listen") \/ parse_server_directives("index")
  <2>1. pc = "server" /\ (go("listen") \/ go("index"))
    BY <1>6 DEF parse_server_directives, InServer
  <2>2. QED
    BY <1>1, <2>1 DEF Looking
<1>7. CASE parse_listen_directive \/ parse_index_directive
  <2>1. pc \in {"listen", "index"} /\ (go("semicolon") \/ throw)
    BY <1>7 DEF parse_listen_directive, parse_index_directive
  <2>2. QED
    BY <1>1, <1>2, <2>1 DEF Looking
<1>8. CASE location_url \/ location_rbrace
  <2>1. pc \in {"location", "location_rbrace"}
        /\ (go("location_lbrace") \/ go("server") \/ throw)
    BY <1>8 DEF location_url, location_rbrace
  <2>2. QED
    BY <1>1, <1>2, <2>1 DEF Looking
<1>9. QED
  BY <1>3, <1>4, <1>5, <1>6, <1>7, <1>8 DEF parse

(* What is read of a file stays what it is while it is parsed.             *)
LEMMA StepScanInv == IInv /\ IInv' /\ ScanInv /\ [Next]_vars => ScanInv'
<1> SUFFICES ASSUME IInv, IInv', ScanInv, [Next]_vars PROVE ScanInv'
  OBVIOUS
<1>1. ASSUME UNCHANGED <<content, pos, tokens>>,
             pc' = pc \/ (pc \in Looking \cup {"config"} /\ pc' \notin {"open", "lex"})
      PROVE  ScanInv'
  <2>1. PICK p : p = pos
    OBVIOUS
  <2>2. PICK ts : ts = tokens
    OBVIOUS
  <2>3. /\ Scanned(pos, tokens) => Scanned(pos, tokens)'
        /\ AreTokens(tokens) => AreTokens(tokens)'
    BY <1>1, <2>1, <2>2, SameFile
  <2>4. QED
    BY <1>1, <2>3 DEF ScanInv, Looking
<1>2. CASE UNCHANGED vars
  BY <1>1, <1>2 DEF vars, lexerVars
<1>3. CASE open_file_throws
  BY <1>3 DEF open_file_throws, ScanInv, Looking
<1>4. CASE open_file
  BY <1>4, FileOpened
<1>5. CASE get_next_token
  BY <1>5, TokensScanned
<1>6. CASE lexing_ends
  <2>1. /\ pc = "lex" /\ pc' = "config" /\ UNCHANGED <<content, pos, tokens>>
        /\ ~(pos <= Len(content))
    <3> DEFINE L == Len(content)
    <3>1. pos > L /\ L \in Nat /\ pos \in Nat
      BY <1>6, LenTypes, ContentTypes DEF lexing_ends, IInv
    <3> HIDE DEF L
    <3>2. ~(pos <= L)
      BY <3>1
    <3>3. QED
      BY <1>6, <3>2 DEF lexing_ends, L
  <2>2. AreTokens(tokens)
    BY <2>1 DEF ScanInv, Scanned
  <2>3. PICK p : p = pos
    OBVIOUS
  <2>4. PICK ts : ts = tokens
    OBVIOUS
  <2>5. AreTokens(tokens)'
    BY <2>1, <2>2, <2>3, <2>4, SameFile
  <2>6. QED
    BY <2>1, <2>5 DEF ScanInv
<1>7. CASE parse
  BY <1>1, <1>7, ParsingKeepsTokens
<1>8. QED
  BY <1>2, <1>3, <1>4, <1>5, <1>6, <1>7 DEF Next, Lexer, load_configuration

(* ScanInv holds in every reachable state: while a file is read what is    *)
(* before pos has been cut into tokens, and no place of it lies in two.    *)
THEOREM Scans == Spec => []ScanInv
<1>1. Init => ScanInv
  BY InitScanInv
<1>2. IInv /\ IInv' /\ ScanInv /\ [Next]_vars => ScanInv'
  BY StepScanInv
<1>3. QED
  BY <1>1, <1>2, Inductive, PTL DEF Spec

(* Of any file the tokens are those that begin in it, in order, each with  *)
(* all of its pieces, and the end of the input unless it ends in a comment.*)
THEOREM TokensCorrect == Spec => []TokensOfFile
<1>1. ScanInv => TokensOfFile
  BY DEF ScanInv, AreTokens, TokensOfFile
<1>2. QED
  BY <1>1, Scans, PTL

-----------------------------------------------------------------------------
(* What is left of a load becomes less.                                    *)

LEMMA LexerProgresses ==
  ASSUME IInv, IInv', Lexer, UNCHANGED parserVars
  PROVE  Progress
<1> DEFINE L == Len(content)
<1>1. CASE open_file_throws \/ open_file \/ lexing_ends
  BY <1>1 DEF open_file_throws, open_file, lexing_ends, Progress, Stage, Looking
<1>2. CASE get_next_token
  <2>1. pc = "lex" /\ pc' = "lex" /\ content' = content /\ pos <= L
    BY <1>2 DEF get_next_token, token_EOF, token_delimiter, comment, token_word, has_more_tokens
  <2>2. /\ Here \in pos .. L + 1 /\ Here \in Nat /\ L \in Nat /\ LexTypes
        /\ Here \in 1 .. L + 1
    BY LenTypes, HereProperties, ContentTypes DEF IInv
  <2>3. pos \in 1 .. L + 1 /\ pos' \in 1 .. L + 1
    BY <2>1 DEF IInv, TypeOK
  <2>4. pos < pos'
    <3>1. CASE token_EOF
      <4>1. pos' = Here /\ Here > L
        BY <3>1 DEF token_EOF
      <4> HIDE DEF L
      <4>2. QED
        BY <2>1, <2>2, <2>3, <4>1
    <3>2. CASE token_delimiter
      <4>1. pos' = Here + 1
        BY <3>2 DEF token_delimiter
      <4> HIDE DEF L
      <4>2. QED
        BY <2>2, <2>3, <4>1
    <3>3. CASE comment
      <4> DEFINE e == Skip(Here, NotNewline)
      <4>1. pos' = e + 1 /\ e \in Here .. L + 1
        BY <2>2, <3>3, SkipProperties DEF comment, skip_line
      <4> HIDE DEF L, e
      <4>2. QED
        BY <2>2, <2>3, <4>1
    <3>4. CASE token_word
      <4> DEFINE e == Skip(Here, Piece)
      <4> DEFINE w == SubSeq(content, Here, e - 1)
      <4>1. /\ pos' = Here + Len(w) /\ Here <= L /\ content[Here] \in Piece
        BY <3>4 DEF token_word, read_word
      <4>2. /\ e \in Here .. L + 1 /\ \A k \in Here .. e - 1 : content[k] \in Piece
            /\ e <= L => content[e] \notin Piece
        BY <2>2, SkipProperties
      <4>3. e # Here
        BY <4>1, <4>2
      <4> HIDE DEF L, e
      <4>4. Here \in Int /\ e - 1 \in Int /\ Here <= e - 1 /\ e \in Int
        BY <2>2, <4>2, <4>3
      <4>5. Len(w) = e - 1 - Here + 1
        BY <4>2, <4>4, SubSeqProperties
      <4> HIDE DEF w
      <4>6. QED
        BY <2>2, <2>3, <4>1, <4>4, <4>5
    <3>5. QED
      BY <1>2, <3>1, <3>2, <3>3, <3>4 DEF get_next_token
  <2>5. Stage = 2 /\ Stage' = 2
    BY <2>1 DEF Stage
  <2>6. Unread = L + 1 - pos /\ Unread' = L + 1 - pos'
    BY <2>1, <2>5 DEF Unread
  <2>7. L + 1 - pos' \in 0 .. (L + 1 - pos) - 1
    <3> HIDE DEF L
    <3>1. QED
      BY <2>2, <2>3, <2>4, LessLeft
  <2>8. QED
    BY <2>5, <2>6, <2>7 DEF Progress
<1>3. QED
  BY <1>1, <1>2 DEF Lexer

LEMMA EndProgresses ==
  ASSUME pc \in Looking \cup {"config"}, pc' \in {"accepted", "rejected", "died"}
  PROVE  Progress
BY DEF Progress, Stage, Looking

(* A step over tokens, or one that is a look less.                         *)
LEMMA LookProgresses ==
  ASSUME IInv, UNCHANGED tokens,
         pc \in Looking \cup {"config"}, pc' \in Looking \cup {"config"},
         current' \in 1 .. Len(tokens) + 1,
         current' > current \/ (current' = current /\ Looks' < Looks)
  PROVE  Progress
<1> DEFINE n == Len(tokens)
<1>1. Stage = 1 /\ Stage' = 1
  BY DEF Stage, Looking
<1>2. Unread = n + 1 - current /\ Unread' = n + 1 - current'
  BY <1>1 DEF Unread
<1>3. n \in Nat /\ current \in 1 .. n + 1 /\ current' \in 1 .. n + 1
  BY LenTypes DEF IInv
<1>4. CASE current' > current
  <2>1. n + 1 - current' \in 0 .. (n + 1 - current) - 1
    <3> HIDE DEF n
    <3>1. QED
      BY <1>3, <1>4, LessLeft
  <2>2. QED
    BY <1>1, <1>2, <2>1 DEF Progress
<1>5. CASE current' = current /\ Looks' < Looks
  BY <1>1, <1>2, <1>5 DEF Progress
<1>6. QED
  BY <1>4, <1>5

(* Where advance_token stays there must be a look less.                    *)
LEMMA AdvanceProgresses ==
  ASSUME IInv, NEW next \in Looking \cup {"config"},
         pc \in Looking \cup {"config"}, go(next), advance_token,
         is_at_end => Looks' < Looks
  PROVE  Progress
<1> DEFINE n == Len(tokens)
<1>1. pc' = next /\ UNCHANGED tokens
  BY DEF go
<1>2. /\ current' \in 1 .. n + 1
      /\ ~is_at_end => current' = current + 1
      /\ is_at_end => current' = current
  BY AdvanceProperties DEF IInv
<1>3. n \in Nat /\ current \in Nat
  BY LenTypes DEF IInv
<1>4. ~is_at_end => current' > current
  BY <1>2, <1>3
<1>5. QED
  BY <1>1, <1>2, <1>4, LookProgresses

LEMMA ExpectedProgresses ==
  ASSUME IInv, NEW state \in Looking, NEW type, NEW next \in Looking,
         expected_token_type(state, type, next),
         (pc = state /\ pc' = next) => Looks' < Looks
  PROVE  Progress
<1>1. CASE throw
  BY <1>1, EndProgresses DEF expected_token_type, throw
<1>2. CASE go(next) /\ advance_token
  BY <1>2, AdvanceProgresses DEF expected_token_type, go
<1>3. QED
  BY <1>1, <1>2 DEF expected_token_type

LEMMA ParserProgresses ==
  ASSUME IInv, IInv', parse
  PROVE  Progress
<1>1. CASE config_server
  BY <1>1, AdvanceProgresses DEF config_server, AtServer, Looking
<1>2. CASE config_throws \/ server_throws
  BY <1>2, EndProgresses DEF config_throws, server_throws, throw, Looking
<1>3. CASE config_ends
  BY <1>3, EndProgresses DEF config_ends, go
<1>4. CASE server_lbrace
  BY <1>4, ExpectedProgresses DEF server_lbrace, Looking, Looks
<1>5. CASE semicolon
  BY <1>5, ExpectedProgresses DEF semicolon, Looking, Looks
<1>6. CASE location_lbrace
  BY <1>6, ExpectedProgresses DEF location_lbrace, Looking, Looks
<1>7. CASE server_rbrace
  BY <1>7, AdvanceProgresses DEF server_rbrace, go, Looking, Looks
<1>8. CASE parse_server_directives("listen") \/ parse_server_directives("index")
  BY <1>8, AdvanceProgresses DEF parse_server_directives, InServer, Looking
<1>9. CASE location_begins
  BY <1>9, AdvanceProgresses DEF location_begins, InServer, Looking
<1>10. CASE parse_listen_directive
  <2>1. CASE throw
    BY <1>10, <2>1, EndProgresses DEF parse_listen_directive, throw, Looking
  <2>2. CASE go("semicolon") /\ advance_token
    BY <1>10, <2>2, AdvanceProgresses DEF parse_listen_directive, go, Looking, Looks
  <2>3. QED
    BY <1>10, <2>1, <2>2 DEF parse_listen_directive
<1>11. CASE parse_index_directive
  <2>1. CASE throw
    BY <1>11, <2>1, EndProgresses DEF parse_index_directive, throw, Looking
  <2>2. CASE go("semicolon") /\ current' = AfterValues
    <3> DEFINE n == Len(tokens)
    <3>1. pc = "index" /\ pc' = "semicolon" /\ UNCHANGED tokens
      BY <1>11, <2>2 DEF parse_index_directive, go
    <3>2. /\ n \in Nat /\ current \in Nat /\ current' \in current .. n + 1
          /\ current' \in 1 .. n + 1
      BY <2>2, LenTypes, AfterValuesProperties DEF IInv
    <3>3. Looks' < Looks
      BY <3>1 DEF Looks
    <3>4. current' > current \/ current' = current
      <4> HIDE DEF n
      <4>1. QED
        BY <3>2
    <3>5. QED
      BY <3>1, <3>2, <3>3, <3>4, LookProgresses DEF Looking
  <2>3. QED
    BY <1>11, <2>1, <2>2 DEF parse_index_directive
<1>12. CASE location_url
  <2>1. CASE throw
    BY <1>12, <2>1, EndProgresses DEF location_url, throw, Looking
  <2>2. CASE ~throw
    <3>1. /\ pc = "location" /\ is_directory(current_token.value)
          /\ go("location_lbrace") /\ advance_token
      BY <1>12, <2>2 DEF location_url
    <3>2. ~is_at_end
      BY <3>1 DEF is_directory, current_token
    <3>3. QED
      BY <3>1, <3>2, AdvanceProgresses DEF Looking
  <2>3. QED
    BY <2>1, <2>2
<1>13. CASE location_rbrace
  <2>1. CASE throw
    BY <1>13, <2>1, EndProgresses DEF location_rbrace, throw, Looking
  <2>2. CASE go("server") /\ advance_token
    BY <1>13, <2>2, AdvanceProgresses DEF location_rbrace, go, Looking, Looks
  <2>3. QED
    BY <1>13, <2>1, <2>2 DEF location_rbrace
<1>14. QED
  BY <1>1, <1>2, <1>3, <1>4, <1>5, <1>6, <1>7, <1>8, <1>9, <1>10, <1>11, <1>12, <1>13 DEF parse

(* Of any file, of any length, every step of a load leaves less to do, in  *)
(* an order in which nothing can become less without end: neither the      *)
(* lexer's loops nor the parser's turn for ever.                           *)
THEOREM LoadEnds == Spec => LoadProgresses
<1>1. IInv /\ IInv' /\ [Next]_vars => [Progress]_vars
  BY LexerProgresses, ParserProgresses DEF Next, load_configuration
<1>2. QED
  BY <1>1, Inductive, PTL DEF Spec, LoadProgresses
=============================================================================
