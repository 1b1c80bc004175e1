------------------------------ MODULE Request -------------------------------
(***************************************************************************)
(* class c_request of srcs/request/: parse_request() over the lines of a   *)
(* request head, one action for each line and one for the checks that end  *)
(* it.                                                                     *)
(*                                                                         *)
(* A line is what getline() cuts at '\n'; cr tells whether '\r' came before *)
(* it.  The parser removes the last character of a line in either case, so *)
(* a line without '\r' loses a character of its text.  A start line is its *)
(* words between single spaces.  A field line is a name, what separates it *)
(* from the value ("none": no colon in the line; "colon": a colon and no   *)
(* space after it; "space": a colon and a space) and the rest.             *)
(***************************************************************************)
EXTENDS Naturals, Sequences

CONSTANTS
  Text,          \* the character strings that requests are made of
  NoText,        \* ... and the empty one
  DropFirst(_),  \* substr(1)
  DropLast(_),   \* erase(size() - 1)
  Trim(_),       \* ft_trim
  Token,         \* the strings that are valid header names
  Clean,         \* the strings without control characters
  Digits,        \* the strings of digits, the empty one included
  Number(_),     \* strtoul
  Requests       \* the heads that may arrive

Methods == {"GET", "POST", "DELETE"}

Words   == Methods \cup {"HTTP/1.1", "Host", "Content-Length", "Transfer-Encoding"}

StartLine == [words : Seq(Text) \ {<<>>}, cr : BOOLEAN]
FieldLine == [name : Text, sep : {"none", "colon", "space"}, value : Text, cr : BOOLEAN]

(* The line that ends a head, and what the code takes for it.              *)
IsBlank(t) == t.name = NoText /\ t.sep = "none"
Blank == [name |-> NoText, sep |-> "none", value |-> NoText, cr |-> TRUE]

ASSUME TextAssumption ==
  /\ Words \cup {NoText} \subseteq Text /\ NoText \notin Words
  /\ Token \subseteq Text \ {NoText} /\ Clean \subseteq Text /\ Digits \subseteq Text
  /\ \A t \in Text : Trim(t) \in Text
  /\ \A t \in Digits : Number(t) \in Nat
  /\ \A t \in Text \ {NoText} : DropFirst(t) \in Text /\ DropLast(t) \in Text

(* handle_client_read only hands over a buffer with a blank line in it.    *)
ASSUME RequestsAssumption ==
  \A r \in Requests :
    /\ r.start \in StartLine
    /\ r.fields \in Seq(FieldLine)
    /\ r.fields # <<>> /\ r.fields[Len(r.fields)] = Blank

VARIABLES
  pc,              \* start, headers, parsed or thrown; Exchange adds answered
  request,         \* the lines of raw_request
  pos,             \* the field line that getline() returns next
  method, target,  \* _method, _target, _version: the version is what follows
  version,         \* the second space, spaces in it included
  headers,         \* _headers
  status_code,     \* _status_code
  error,           \* _error
  has_body,        \* _has_body
  content_length   \* _content_length

startVars   == <<method, target, version>>
statusVars  == <<status_code, error>>
requestVars == <<pc, request, pos, startVars, headers, statusVars, has_body, content_length>>

-----------------------------------------------------------------------------
(* Lines.                                                                  *)

(* The start line after erase(size() - 1): without '\r' the last character *)
(* of the text goes, which may be the space before an empty last word.     *)
StartText(l) ==
  LET n == Len(l.words) IN
  IF l.cr THEN l.words
  ELSE IF l.words[n] = NoText THEN SubSeq(l.words, 1, n - 1)
  ELSE [l.words EXCEPT ![n] = DropLast(@)]

(* A field line after erase(size() - 1).                                   *)
FieldText(l) ==
  IF l.cr THEN l
  ELSE IF l.sep # "none" /\ l.value # NoText THEN [l EXCEPT !.value = DropLast(@)]
  ELSE IF l.sep = "space" THEN [l EXCEPT !.sep = "colon"]
  ELSE IF l.sep = "colon" THEN [l EXCEPT !.sep = "none"]
  ELSE [l EXCEPT !.name = DropLast(@)]

(* A bare '\n': there is no character to erase, and erase(npos) throws.    *)
StartIsEmpty(l) == ~l.cr /\ l.words = <<NoText>>
FieldIsEmpty(l) == ~l.cr /\ IsBlank(l)

(* "Name:" and no more: substr() from beyond the end of the line throws.   *)
EndsAtColon(t) == t.sep = "colon" /\ t.value = NoText

(* Mutant: the value is stored as it was sent.                             *)
field_value_untrimmed(t) ==
  IF t.sep = "none" THEN DropFirst(t.name)
  ELSE IF t.sep = "colon" THEN DropFirst(t.value)
  ELSE t.value

(* ft_trim(headers.substr(pos + 1)): the character after the colon is      *)
(* skipped whatever it is, and npos + 1 is 0 in a line without a colon.    *)
field_value(t) ==
  IF t.sep = "none" THEN Trim(DropFirst(t.name))
  ELSE IF t.sep = "colon" THEN Trim(DropFirst(t.value))
  ELSE Trim(t.value)

is_valid_header_name(name) == name \in Token

is_valid_header_value(name, value) ==
  value \in Clean /\ (name = "Content-Length" => value \in Digits)

-----------------------------------------------------------------------------
(* parse_request.                                                          *)

(* Mutant: init_request forgets _status_code.                              *)
init_request_no_status ==
  /\ method = NoText /\ target = NoText /\ version = <<>>
  /\ headers = [k \in {} |-> NoText]
  /\ status_code = 0 /\ error = FALSE
  /\ has_body = FALSE /\ content_length = 0

(* The constructor.                                                        *)
init_request ==
  /\ method = NoText /\ target = NoText /\ version = <<>>
  /\ headers = [k \in {} |-> NoText]
  /\ status_code = 200 /\ error = FALSE
  /\ has_body = FALSE /\ content_length = 0

(* Mutant: the status is set and _error forgotten.                         *)
reject_silently(code) == status_code' = code /\ UNCHANGED error

reject(code) == status_code' = code /\ error' = TRUE

(* An out_of_range that nothing catches.                                   *)
throw ==
  /\ pc' = "thrown"
  /\ UNCHANGED <<request, pos, startVars, headers, has_body, content_length>>

start_line_throws ==
  /\ pc = "start" /\ StartIsEmpty(request.start)
  /\ reject(400)
  /\ throw

(* parse_start_line: each early return leaves the rest unset, and its code *)
(* replaces the 400 of a missing '\r'.                                     *)
parse_start_line(words) ==
  LET rest == SubSeq(words, 3, Len(words)) IN
  \/ /\ Len(words) = 1
     /\ reject(400) /\ UNCHANGED startVars
  \/ /\ Len(words) > 1 /\ words[1] \notin Methods
     /\ method' = words[1]
     /\ reject(405) /\ UNCHANGED <<target, version>>
  \/ /\ Len(words) = 2 /\ words[1] \in Methods
     /\ method' = words[1]
     /\ reject(400) /\ UNCHANGED <<target, version>>
  \/ /\ Len(words) > 2 /\ words[1] \in Methods
     /\ method' = words[1] /\ target' = words[2] /\ version' = rest
     /\ IF rest = <<NoText>> THEN reject(400)
        ELSE IF rest # <<"HTTP/1.1">> THEN reject(505)
        ELSE IF ~request.start.cr THEN reject(400)
        ELSE UNCHANGED statusVars

start_line ==
  /\ pc = "start" /\ ~StartIsEmpty(request.start)
  /\ parse_start_line(StartText(request.start))
  /\ pc' = "headers"
  /\ UNCHANGED <<request, pos, headers, has_body, content_length>>

(* parse_headers: whatever is wrong with the line, the field is stored.    *)
parse_headers(t) ==
  LET name   == t.name
      value  == field_value(t)
  IN  /\ headers' = [k \in DOMAIN headers \cup {name} |->
                       IF k = name THEN value ELSE headers[k]]
      /\ content_length' =
           IF name = "Content-Length" /\ is_valid_header_value(name, value)
           THEN Number(value) ELSE content_length
      /\ IF /\ request.fields[pos].cr
            /\ is_valid_header_name(name) /\ t.sep = "space"
            /\ is_valid_header_value(name, value)
         THEN UNCHANGED statusVars ELSE reject(400)

AtField == pc = "headers" /\ pos <= Len(request.fields)

Line == request.fields[pos]

header_line ==
  /\ AtField /\ ~FieldIsEmpty(Line)
  /\ ~IsBlank(FieldText(Line)) /\ ~EndsAtColon(FieldText(Line))
  /\ parse_headers(FieldText(Line))
  /\ pos' = pos + 1
  /\ UNCHANGED <<pc, request, startVars, has_body>>

header_line_throws ==
  /\ AtField
  /\ FieldIsEmpty(Line) \/ EndsAtColon(FieldText(Line))
  /\ reject(400)
  /\ throw

(* Mutant: the Host header is not asked for.                               *)
check_required_headers_no_Host ==
  LET length   == "Content-Length" \in DOMAIN headers
      encoding == "Transfer-Encoding" \in DOMAIN headers
  IN  /\ has_body' = (method = "POST" /\ (length \/ encoding))
      /\ IF (has_body' /\ length /\ encoding) \/ ~Line.cr
         THEN reject(400) ELSE UNCHANGED statusVars

(* check_required_headers, after the status of the line that ended the     *)
(* head (one character and no '\r' is taken for the blank line as well).   *)
check_required_headers ==
  LET length   == "Content-Length" \in DOMAIN headers
      encoding == "Transfer-Encoding" \in DOMAIN headers
  IN  /\ has_body' = (method = "POST" /\ (length \/ encoding))
      /\ IF \/ "Host" \notin DOMAIN headers
            \/ has_body' /\ length /\ encoding
            \/ ~Line.cr
         THEN reject(400) ELSE UNCHANGED statusVars

head_ends ==
  /\ AtField /\ ~FieldIsEmpty(Line) /\ IsBlank(FieldText(Line))
  /\ check_required_headers
  /\ pc' = "parsed"
  /\ UNCHANGED <<request, pos, startVars, headers, content_length>>

-----------------------------------------------------------------------------
RequestInit ==
  /\ pc = "start" /\ pos = 1
  /\ request \in Requests
  /\ init_request

parse_request ==
  start_line \/ start_line_throws \/ header_line \/ header_line_throws \/ head_ends

=============================================================================
