----------------------------- MODULE ConfigLexer -----------------------------
(***************************************************************************)
(* class c_lexer of srcs/server_config/: a configuration file is read and  *)
(* cut into tokens by its constructor, one get_next_token() at a time.     *)
(*                                                                         *)
(* A file is a sequence of marks and of the pieces that words are made of: *)
(* names and the characters that the parser looks for in them.  A word is  *)
(* the sequence of its pieces, and no two names are next to each other in  *)
(* it.  A token's line and column are one number, its place in the file.   *)
(***************************************************************************)
EXTENDS Integers, Sequences, FiniteSets

CONSTANTS
  Name,    \* pieces of words without a character of their own meaning
  Files    \* the contents a file may have

Blank     == {"blank", "newline"}
Delimiter == {"{", "}", ";"}
Piece     == Name \cup {"/", ".", ":", "#"}

ASSUME NamesAssumption ==
  /\ {"server", "location", "listen", "index"} \subseteq Name
  /\ Name \cap (Blank \cup Delimiter \cup {"/", ".", ":", "#"}) = {}

(* open_file ends every line with a newline.                               *)
ASSUME FilesAssumption ==
  \A f \in Files :
    /\ f \in Seq(Blank \cup Delimiter \cup Piece)
    /\ f # <<>> => f[Len(f)] = "newline"
    /\ \A i \in 1 .. Len(f) - 1 : ~(f[i] \in Name /\ f[i + 1] \in Name)

TokenType == {"BLOC_KEYWORD", "DIRECTIVE_KEYWORD", "VALUE", "LBRACE", "RBRACE",
              "SEMICOLON", "EOF"}

Token == [type : TokenType, value : Seq(Piece \cup Delimiter), at : Nat]

VARIABLES
  pc,       \* open, lex; then the parser's
  content,  \* _content
  pos,      \* _pos
  tokens    \* _tokens

lexerVars == <<pc, content, pos, tokens>>

-----------------------------------------------------------------------------
(* The first place from i on that is not in S, or the end.                 *)
Skip(i, S) ==
  CHOOSE j \in i .. Len(content) + 1 :
    /\ \A k \in i .. j - 1 : content[k] \in S
    /\ j <= Len(content) => content[j] \notin S

(* Where get_next_token finds itself after skip_whitespace.                *)
Here == Skip(pos, Blank)

(* '#' begins a comment only where a word might begin.                     *)
read_word == SubSeq(content, Here, Skip(Here, Piece) - 1)

type_of_word(word) ==
  IF word \in {<<"server">>, <<"location">>} THEN "BLOC_KEYWORD"
  ELSE IF word \in {<<"listen">>, <<"index">>} THEN "DIRECTIVE_KEYWORD"
  ELSE "VALUE"

type_of_delimiter ==
  [c \in Delimiter |-> IF c = "{" THEN "LBRACE" ELSE IF c = "}" THEN "RBRACE" ELSE "SEMICOLON"]

push_token(type, value) ==
  tokens' = Append(tokens, [type |-> type, value |-> value, at |-> Here])

-----------------------------------------------------------------------------
(* A file that cannot be opened, or is empty: both throw.                  *)
open_file_throws ==
  /\ pc = "open"
  /\ pc' = "rejected"
  /\ UNCHANGED <<content, pos, tokens>>

open_file ==
  /\ pc = "open" /\ content # <<>>
  /\ pc' = "lex"
  /\ UNCHANGED <<content, pos, tokens>>

has_more_tokens == pc = "lex" /\ pos <= Len(content)

token_EOF ==
  /\ has_more_tokens /\ Here > Len(content)
  /\ push_token("EOF", <<>>)
  /\ pos' = Here
  /\ UNCHANGED <<pc, content>>

token_delimiter ==
  /\ has_more_tokens /\ Here <= Len(content) /\ content[Here] \in Delimiter
  /\ push_token(type_of_delimiter[content[Here]], <<content[Here]>>)
  /\ pos' = Here + 1
  /\ UNCHANGED <<pc, content>>

NotNewline == {"blank"} \cup Delimiter \cup Piece

(* Mutant: the newline is not skipped.                                     *)
skip_line_short == Skip(Here, NotNewline)

(* Mutant: the loop's condition is the wrong way round.                    *)
skip_line_stays == Here

(* To the beginning of the next line.                                      *)
skip_line == Skip(Here, NotNewline) + 1

comment ==
  /\ has_more_tokens /\ Here <= Len(content) /\ content[Here] = "#"
  /\ pos' = skip_line
  /\ UNCHANGED <<pc, content, tokens>>

token_word ==
  /\ has_more_tokens /\ Here <= Len(content) /\ content[Here] \in Piece \ {"#"}
  /\ push_token(type_of_word(read_word), read_word)
  /\ pos' = Here + Len(read_word)
  /\ UNCHANGED <<pc, content>>

(* The constructors return, c_parser's with _current at the first token.   *)
lexing_ends ==
  /\ pc = "lex" /\ pos > Len(content)
  /\ pc' = "config"
  /\ UNCHANGED <<content, pos, tokens>>

-----------------------------------------------------------------------------
LexerInit ==
  /\ pc = "open"
  /\ content \in Files /\ pos = 1 /\ tokens = <<>>

get_next_token == token_EOF \/ token_delimiter \/ comment \/ token_word

Lexer == open_file_throws \/ open_file \/ get_next_token \/ lexing_ends

-----------------------------------------------------------------------------
(* What the tokens are to be, place by place and without a scan.           *)

SameLine(i, j) == \A k \in i .. j - 1 : content[k] # "newline"

(* Inside a word '#' is a piece of it.                                     *)
OpensComment(i) == content[i] = "#" /\ (i > 1 => content[i - 1] \notin Piece)

InComment(i) == \E j \in 1 .. i : OpensComment(j) /\ SameLine(j, i)

BeginsToken(i) ==
  /\ content[i] \notin Blank /\ ~InComment(i)
  /\ content[i] \in Delimiter \/ (i > 1 => content[i - 1] \notin Piece)

(* The last line holds a comment: nothing is left for the token EOF.       *)
EndsInComment == InComment(Len(content))

(* A delimiter, or a whole word: all the pieces that are together there.   *)
IsToken(t) ==
  LET next == t.at + Len(t.value) IN
  /\ t.at \in 1 .. Len(content) /\ BeginsToken(t.at)
  /\ t.type # "EOF" /\ t.value = SubSeq(content, t.at, next - 1)
  /\ IF content[t.at] \in Delimiter THEN next = t.at + 1
     ELSE /\ next > t.at /\ content[next] \notin Piece
          /\ \A k \in t.at .. next - 1 : content[k] \in Piece

(* One token for each place where one begins, in order, and the end of the *)
(* input after them unless the file ends in a comment.                     *)
AreTokens(ts) ==
  LET count == Cardinality({i \in 1 .. Len(content) : BeginsToken(i)})
  IN  /\ \A k \in 1 .. count : IsToken(ts[k])
      /\ \A k \in 1 .. count - 1 : ts[k].at < ts[k + 1].at
      /\ Len(ts) = count + (IF EndsInComment THEN 0 ELSE 1)
      /\ ~EndsInComment => ts[count + 1].type = "EOF"

(* The tokens are those of the file, each with all of its pieces and       *)
(* nothing else, and no place is scanned twice or left out                 *)
(* (lexer.cpp:145-221).                                                    *)
TokensOfFile == pc = "config" => AreTokens(tokens)
=============================================================================
