---------------------------- MODULE ConfigParser -----------------------------
(***************************************************************************)
(* class c_parser of srcs/server_config/: the recursive descent over the   *)
(* tokens of c_lexer, which it extends, the c_server objects it fills and  *)
(* c_webserv_config::load_configuration, which it works for.  One action   *)
(* is what the code does from one look at *_current to the next.           *)
(*                                                                         *)
(* pc names what is expected next: config and server are the two loops.    *)
(* Every exception is a std::exception, which parse() or load_configuration*)
(* catches: rejected.                                                      *)
(***************************************************************************)
EXTENDS ConfigLexer, SequencesExt

CONSTANTS
  Digits,      \* the names of digits only
  Number(_),   \* strtol of such a name
  Executable,  \* the words for which access(_, X_OK) succeeds
  Unset,       \* _port of a new c_server, which has no initialiser
  Junk         \* what the memory behind the tokens may hold

Other == "OTHER"   \* a type that is none of TokenType

ASSUME DigitsAssumption ==
  /\ Digits \subseteq Name /\ "0" \in Digits /\ "*" \in Name \ Digits
  /\ Digits \cap {"server", "location", "listen", "index"} = {}
  /\ \A d \in Digits : Number(d) \in Nat
ASSUME SetsAssumption ==
  /\ Executable \subseteq Seq(Piece) \ {<<>>} /\ Unset \notin Nat
  /\ \A t \in Junk : /\ t.type \in TokenType \cup {Other}
                     /\ t.value \in Seq(Piece \cup Delimiter)

VARIABLES
  current,       \* _current
  beyond,        \* what dereferencing tokens.end() gives
  servers,       \* the local servers, then _servers
  server,        \* the local server
  has_location   \* the local has_location

blockVars  == <<servers, server, has_location>>
parserVars == <<current, beyond, blockVars>>
vars == <<lexerVars, parserVars>>

-----------------------------------------------------------------------------
(* Navigation.                                                             *)

Beyond(i) == i > Len(tokens)

At(i) == IF Beyond(i) THEN beyond ELSE tokens[i]

is_token_type(type)   == At(current).type = type
is_token_value(value) == At(current).value = value

is_at_end == Beyond(current) \/ is_token_type("EOF")

current_token ==
  IF is_at_end THEN [type |-> "EOF", value |-> <<>>, at |-> 0] ELSE At(current)

(* Mutant: the last token is taken for the end.                            *)
advance_short ==
  current' = IF Beyond(current + 1) \/ is_token_type("EOF") THEN current ELSE current + 1

(* Mutant: the end is not looked for.                                      *)
advance_always == current' = current + 1

advance_token == current' = IF is_at_end THEN current ELSE current + 1

(* invalid_argument; the message is made of the value of *_current, which  *)
(* need not be a string if there is no token.                              *)
throw ==
  /\ pc' = "rejected" \/ (Beyond(current) /\ pc' = "died")
  /\ servers' = <<>>
  /\ UNCHANGED <<content, pos, tokens, current, beyond, server, has_location>>

go(next) == pc' = next /\ UNCHANGED <<content, pos, tokens, beyond>>

(* expected_token_type, and on to the next token.                          *)
expected_token_type(state, type, next) ==
  /\ pc = state
  /\ IF is_token_type(type)
     THEN go(next) /\ advance_token /\ UNCHANGED blockVars
     ELSE throw

-----------------------------------------------------------------------------
(* parse_config.                                                           *)

AtServer == ~is_at_end /\ is_token_value(<<"server">>) /\ is_token_type("BLOC_KEYWORD")

(* A c_server no directive has been read for.                              *)
unread_server == [port |-> Unset, ip |-> <<>>, index |-> <<>>, locations |-> {}]

(* Mutant: the block before is not forgotten.                              *)
kept_server == server

(* parse_server_block has its own.                                         *)
new_server == unread_server

config_server ==
  /\ pc = "config" /\ AtServer
  /\ go("server_lbrace") /\ advance_token
  /\ server' = new_server /\ has_location' = FALSE
  /\ UNCHANGED servers

config_throws == pc = "config" /\ ~is_at_end /\ ~AtServer /\ throw

(* Without a server parse_config throws.                                   *)
config_ends ==
  /\ pc = "config" /\ is_at_end
  /\ go(IF servers = <<>> THEN "rejected" ELSE "accepted")
  /\ UNCHANGED <<current, blockVars>>

server_lbrace == expected_token_type("server_lbrace", "LBRACE", "server")

-----------------------------------------------------------------------------
(* parse_server_block.                                                     *)

InServer == pc = "server" /\ ~is_token_type("RBRACE") /\ ~is_at_end

server_rbrace ==
  /\ pc = "server" /\ is_token_type("RBRACE")
  /\ go("config") /\ advance_token
  /\ servers' = Append(servers, server)
  /\ UNCHANGED <<server, has_location>>

directive_allowed == is_token_type("DIRECTIVE_KEYWORD") /\ ~has_location

parse_server_directives(keyword) ==
  /\ InServer /\ directive_allowed /\ is_token_value(<<keyword>>)
  /\ go(keyword) /\ advance_token
  /\ UNCHANGED blockVars

AtLocation == is_token_type("BLOC_KEYWORD") /\ is_token_value(<<"location">>)

location_begins ==
  /\ InServer /\ AtLocation
  /\ go("location") /\ advance_token
  /\ UNCHANGED blockVars

(* The end of the tokens, a word that is no directive or location, or a    *)
(* directive after a location.                                             *)
server_throws ==
  /\ pc = "server" /\ ~is_token_type("RBRACE")
  /\ is_at_end \/ (~directive_allowed /\ ~AtLocation)
  /\ throw

-----------------------------------------------------------------------------
(* Directives.                                                             *)

AnyAddress == <<"0", ".", "0", ".", "0", ".", "0">>

(* ERANGE is an error number, which the port is compared with.             *)
ERANGE  == 34
MaxPort == 65535

(* Mutant: the upper bound is not checked.                                 *)
any_port(digits) ==
  Len(digits) = 1 /\ digits[1] \in Digits /\ Number(digits[1]) # ERANGE

(* Mutant: the upper bound is taken for a size.                            *)
port_below(digits) ==
  Len(digits) = 1 /\ digits[1] \in Digits /\ Number(digits[1]) \in (0 .. MaxPort - 1) \ {ERANGE}

is_port(digits) ==
  /\ Len(digits) = 1 /\ digits[1] \in Digits
  /\ Number(digits[1]) # ERANGE /\ Number(digits[1]) <= MaxPort

(* parse_ip: "*", or four numbers of one byte with dots between.           *)
is_ip(host) ==
  \/ host = <<"*">>
  \/ /\ Len(host) = 7
     /\ \A i \in {2, 4, 6} : host[i] = "."
     /\ \A i \in {1, 3, 5, 7} : host[i] \in Digits /\ Number(host[i]) <= 255

Colons(word) == {i \in 1 .. Len(word) : word[i] = ":"}

(* Of "port" or "ip:port", the two parts.                                  *)
PortOf(word) ==
  IF Colons(word) = {} THEN word
  ELSE SubSeq(word, (CHOOSE i \in Colons(word) : TRUE) + 1, Len(word))

IpOf(word) ==
  LET host == SubSeq(word, 1, (CHOOSE i \in Colons(word) : TRUE) - 1) IN
  IF Colons(word) = {} \/ host = <<"*">> THEN AnyAddress ELSE host

(* The end of the input is an empty word, which is read as port 0 before   *)
(* the missing semicolon is found.                                         *)
is_listen_value(word) ==
  \/ word = <<>>
  \/ Colons(word) = {} /\ is_port(word)
  \/ /\ Cardinality(Colons(word)) = 1 /\ is_port(PortOf(word))
     /\ is_ip(SubSeq(word, 1, Len(word) - 2))

parse_listen_directive ==
  /\ pc = "listen"
  /\ LET word == At(current).value IN
     IF is_listen_value(word)
     THEN /\ server' = [server EXCEPT !.port = IF word = <<>> THEN 0 ELSE Number(PortOf(word)[1]),
                                      !.ip = IpOf(word)]
          /\ go("semicolon") /\ advance_token
          /\ UNCHANGED <<servers, has_location>>
     ELSE throw

(* The first token from current on that is no value.                       *)
AfterValues ==
  CHOOSE i \in current .. Len(tokens) + 1 :
    /\ \A k \in current .. i - 1 : tokens[k].type = "VALUE"
    /\ i <= Len(tokens) => tokens[i].type # "VALUE"

Usable(first, last) == {i \in first .. last : tokens[i].value \in Executable}

(* The first of the values that is executable.  If what is behind the      *)
(* tokens looks like a value, the loop that collects them does not end.    *)
parse_index_directive ==
  /\ pc = "index" /\ ~(Beyond(AfterValues) /\ beyond.type = "VALUE")
  /\ LET usable == Usable(current, AfterValues - 1) IN
     IF usable # {}
     THEN /\ server' = [server EXCEPT !.index =
                          tokens[CHOOSE i \in usable : \A j \in usable : i <= j].value]
          /\ go("semicolon") /\ current' = AfterValues
          /\ UNCHANGED <<servers, has_location>>
     ELSE throw

semicolon == expected_token_type("semicolon", "SEMICOLON", "server")

-----------------------------------------------------------------------------
(* parse_location_block.                                                   *)

(* A path that does not end in '/' has no code yet: the '}' that is        *)
(* expected next is not there.                                             *)
is_directory(word) == word # <<>> /\ word[1] = "/" /\ word[Len(word)] = "/"

location_url ==
  /\ pc = "location"
  /\ IF is_token_type("VALUE") /\ is_directory(current_token.value)
     THEN go("location_lbrace") /\ advance_token /\ UNCHANGED blockVars
     ELSE throw

location_lbrace == expected_token_type("location_lbrace", "LBRACE", "location_rbrace")

(* location_directives does not step over the directive and so finds no    *)
(* semicolon: nothing but '}' is accepted.                                 *)
location_rbrace ==
  /\ pc = "location_rbrace"
  /\ IF is_token_type("RBRACE")
     THEN /\ server' = [server EXCEPT !.locations = @ \cup {At(current - 2).value}]
          /\ has_location' = TRUE
          /\ go("server") /\ advance_token
          /\ UNCHANGED servers
     ELSE throw

-----------------------------------------------------------------------------
(* Nothing looks behind the tokens if the last of them is EOF.             *)
Init ==
  /\ LexerInit
  /\ current = 1
  /\ beyond \in Junk /\ (~EndsInComment => beyond = CHOOSE t \in Junk : TRUE)
  /\ servers = <<>> /\ server = unread_server /\ has_location = FALSE

parse ==
  \/ config_server \/ config_throws \/ config_ends
  \/ server_lbrace \/ server_rbrace \/ server_throws
  \/ parse_server_directives("listen") \/ parse_server_directives("index")
  \/ parse_listen_directive \/ parse_index_directive \/ semicolon
  \/ location_begins \/ location_url \/ location_lbrace \/ location_rbrace

load_configuration == (Lexer /\ UNCHANGED parserVars) \/ parse

Next == load_configuration

Spec == Init /\ [][Next]_vars
LiveSpec == Spec /\ WF_vars(load_configuration)
-----------------------------------------------------------------------------
Looking == {"server_lbrace", "server", "listen", "index", "semicolon", "location",
            "location_lbrace", "location_rbrace"}

Server == [port : (0 .. MaxPort) \cup {Unset}, ip : Seq(Piece), index : Seq(Piece),
           locations : SUBSET Seq(Piece)]

TypeOK ==
  /\ pc \in {"open", "lex", "config", "accepted", "rejected", "died"} \cup Looking
  /\ content \in Files /\ pos \in 1 .. Len(content) + 1 /\ tokens \in Seq(Token)
  /\ current \in 1 .. Len(tokens) + 1 /\ beyond \in Junk
  /\ servers \in Seq(Server) /\ server \in Server /\ has_location \in BOOLEAN

(* The parser does not leave the tokens of a file whose input has an end:  *)
(* no sequence of calls steps over EOF (parser.cpp:39-48).                 *)
StopsAtEOF ==
  (pc \in Looking \cup {"config"} /\ tokens # <<>> /\ tokens[Len(tokens)].type = "EOF")
    => ~Beyond(current)

(* Every file is accepted or rejected in the end.                          *)
Loads == ~EndsInComment ~> (pc \in {"accepted", "rejected"})

(* How far a load has come: the stage it is in, what it has not scanned of *)
(* the file or not stepped over of the tokens, and how many looks it has   *)
(* left at a token that no step may lead over.                             *)
Stage ==
  IF pc = "open" THEN 3 ELSE IF pc = "lex" THEN 2
  ELSE IF pc \in Looking \cup {"config"} THEN 1 ELSE 0

Unread == IF Stage = 2 THEN Len(content) + 1 - pos ELSE Len(tokens) + 1 - current

Looks ==
  IF pc = "config" THEN 1 ELSE IF pc = "server" THEN 2
  ELSE IF pc \in {"server_lbrace", "semicolon", "location_rbrace"} THEN 3 ELSE 4

Progress ==
  \/ Stage' < Stage
  \/ Stage' = Stage /\ Unread' \in 0 .. Unread - 1
  \/ Stage' = Stage /\ Unread' = Unread /\ Looks' < Looks

(* No step leads back to where a load has been: each steps over a part of  *)
(* the file or a token, or, at a token that it looks at without a step or  *)
(* at the end where advance_token stays, comes closer to the end of the    *)
(* block.  So no file, of any length, is loaded without end, except in the *)
(* loop of parse_index_directive behind the tokens (parser.cpp:39-400,     *)
(* lexer.cpp:75-221).                                                      *)
LoadProgresses == [][Progress]_vars

-----------------------------------------------------------------------------
(* The language, told by what may stand before each token instead of by    *)
(* descent: t is a sequence of tokens without EOF.                         *)

EndsWithEOF == tokens # <<>> /\ tokens[Len(tokens)].type = "EOF"

Words == IF EndsWithEOF THEN Front(tokens) ELSE tokens

(* The words that listen and location take, as a list of what may be       *)
(* written: of the port numbers the code refuses one, 34.                  *)
PortNumbers == (0 .. 65535) \ {34}
Ports       == {p \in Digits : Number(p) \in PortNumbers}
Bytes       == {b \in Digits : Number(b) \in 0 .. 255}
Addresses   == {<<"*">>} \cup {<<a, ".", b, ".", c, ".", d>> : a, b, c, d \in Bytes}
ListenWords == UNION {{<<p>>} \cup {h \o <<":", p>> : h \in Addresses} : p \in Ports}

WrittenPort(word)    == Number(Last(word))
WrittenAddress(word) ==
  IF Len(word) = 1 \/ word[1] = "*" THEN AnyAddress ELSE SubSeq(word, 1, Len(word) - 2)

IsPath(word)         == word # <<>> /\ Head(word) = "/"
NamesDirectory(word) == IsPath(word) /\ Last(word) = "/"

IsA(t, i, type)    == i > 0 /\ t[i].type = type
IsWord(t, i, word) == i > 0 /\ t[i].value = <<word>> /\ t[i].type # "VALUE"

OpensServer(t, i)    == IsA(t, i, "LBRACE") /\ IsWord(t, i - 1, "server")
ClosesLocation(t, i) == IsA(t, i, "RBRACE") /\ IsA(t, i - 1, "LBRACE") /\ IsA(t, i - 2, "VALUE")
ClosesServer(t, i)   == IsA(t, i, "RBRACE") /\ ~ClosesLocation(t, i)

(* The place of the index before i if there are only values in between.    *)
IndexBefore(t, i) ==
  {j \in 1 .. i - 1 : IsWord(t, j, "index") /\ \A k \in j + 1 .. i - 1 : IsA(t, k, "VALUE")}

UsableIn(t, first, last) == {k \in first .. last : t[k].value \in Executable}

DirectiveEnds(t, i) ==
  \/ IsWord(t, i - 2, "listen")
  \/ \E j \in IndexBefore(t, i) : UsableIn(t, j + 1, i - 1) # {}

MayStand(t, i) ==
  \/ IsWord(t, i, "server") /\ (i = 1 \/ ClosesServer(t, i - 1))
  \/ OpensServer(t, i)
  \/ IsA(t, i, "LBRACE") /\ IsA(t, i - 1, "VALUE") /\ IsWord(t, i - 2, "location")
  \/ IsA(t, i, "DIRECTIVE_KEYWORD") /\ (IsA(t, i - 1, "SEMICOLON") \/ OpensServer(t, i - 1))
  \/ IsA(t, i, "SEMICOLON") /\ IsA(t, i - 1, "VALUE") /\ DirectiveEnds(t, i)
  \/ /\ IsWord(t, i, "location") \/ ClosesServer(t, i)
     /\ IsA(t, i - 1, "SEMICOLON") \/ OpensServer(t, i - 1) \/ ClosesLocation(t, i - 1)
  \/ ClosesLocation(t, i)
  \/ /\ IsA(t, i, "VALUE")
     /\ \/ IsWord(t, i - 1, "listen") /\ t[i].value \in ListenWords
        \/ IsWord(t, i - 1, "location") /\ NamesDirectory(t[i].value)
        \/ IndexBefore(t, i) # {}

Grammatical(t) ==
  /\ t # <<>> /\ ClosesServer(t, Len(t))
  /\ \A i \in 1 .. Len(t) : MayStand(t, i)

(* The tokens break off inside a block and without EOF, as those of a file *)
(* that ends in a comment do: what is read behind them may pass for the    *)
(* rest of the block.                                                      *)
BreaksOff == ~EndsWithEOF /\ ~ClosesServer(Words, Len(Words))

(* A configuration is accepted if and only if it is a sequence of blocks,  *)
(* with the directives, values and locations that the code knows, in their *)
(* places; the acceptance of one that breaks off is not looked at          *)
(* (parser.cpp:119-400).  The repository describes a larger language: see  *)
(* DescribedIsNotRefused.                                                  *)
AcceptedIfGrammatical ==
  /\ (pc = "accepted" /\ ~BreaksOff) => Grammatical(Words)
  /\ pc \in {"rejected", "died"} => ~Grammatical(Words)

(* The last of a block's tokens that satisfies P gives the value.          *)
Block(t, n) ==
  LET begins == {i \in 1 .. Len(t) : IsWord(t, i, "server")}
      first  == CHOOSE i \in begins : Cardinality({j \in begins : j < i}) = n - 1
  IN  {i \in first .. Len(t) : \A j \in begins : j > first => i < j}

Latest(S)   == CHOOSE i \in S : \A j \in S : j <= i
Earliest(S) == CHOOSE i \in S : \A j \in S : i <= j

(* The servers are those of the file: one for each block, with the port    *)
(* and address of its last listen directive, the first usable file of its  *)
(* last index directive and the paths of its locations; what one block     *)
(* does not say is not taken from another (parser.cpp:161-390).            *)
ServersAsWritten ==
  (pc = "accepted" /\ Grammatical(Words)) =>
    LET t == Words IN
    /\ Len(servers) = Cardinality({i \in 1 .. Len(t) : IsWord(t, i, "server")})
    /\ \A n \in 1 .. Len(servers) :
         LET listens == {i \in Block(t, n) : IsWord(t, i - 1, "listen")}
             indexes == {i \in Block(t, n) : IsWord(t, i - 1, "index")}
             last    == Latest(indexes)
             files   == {i \in last .. Len(t) : /\ t[i].value \in Executable
                                                /\ \A j \in last .. i : IsA(t, j, "VALUE")}
         IN  /\ servers[n].port =
                  IF listens = {} THEN Unset ELSE WrittenPort(t[Latest(listens)].value)
             /\ servers[n].ip =
                  IF listens = {} THEN <<>> ELSE WrittenAddress(t[Latest(listens)].value)
             /\ servers[n].index =
                  IF indexes = {} THEN <<>> ELSE t[Earliest(files)].value
             /\ servers[n].locations =
                  {t[i].value : i \in {i \in Block(t, n) : IsWord(t, i - 1, "location")}}

-----------------------------------------------------------------------------
(* What the code says of itself and does not do.                           *)

(* parser.cpp:22-23: what is behind the tokens reads as TOKEN_EOF; it is   *)
(* not read as memory.                                                     *)
OnlyTokensAreRead == pc \in Looking => ~Beyond(current)

DescribedPort(t, i) ==
  /\ IsWord(t, i - 1, "listen")
  /\ \E p \in Digits : t[i].value = <<p>> /\ Number(p) \in 0 .. 65535

DescribedLocation(t, i) ==
  \/ IsWord(t, i - 1, "location") /\ IsPath(t[i].value)
  \/ /\ IsA(t, i, "DIRECTIVE_KEYWORD")
     /\ IsA(t, i - 1, "LBRACE") /\ IsA(t, i - 2, "VALUE")

(* A rejected file is not rejected at a word that the repository describes *)
(* there: a port of "[0-65535]" (parser.cpp:256), a directory or a file    *)
(* after location (location.hpp:91-99), a directive between the braces of  *)
(* a location (default.conf:40).                                           *)
DescribedIsNotRefused ==
  (pc = "rejected" /\ tokens # <<>> /\ ~Beyond(current)) =>
    ~DescribedPort(tokens, current) /\ ~DescribedLocation(tokens, current)
=============================================================================
