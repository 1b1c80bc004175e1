------------------------------ MODULE Exchange ------------------------------
(***************************************************************************)
(* process_client_request (srcs/polls/polls.cpp): a request head is parsed *)
(* (Request) and c_response of srcs/response/ builds its answer.  This is  *)
(* what EventLoop takes as one step with a response of some length, or an  *)
(* exception.                                                              *)
(***************************************************************************)
EXTENDS Request

CONSTANTS
  Relative(_),  \* the target without the one slash it may start with
  Disk,         \* what ifstream finds under www/
  NoAnswer

ASSUME DiskAssumption ==
  /\ \A t \in Text : Relative(t) \in Text
  /\ "index.html" \in Text
  /\ Disk \in [Text -> {"missing", "empty", "directory", "page"}]

VARIABLE answer  \* _response: its code, version and Connection value, and its
                 \* content: a file, or a page about an error code

vars == <<requestVars, answer>>

-----------------------------------------------------------------------------
(* Building a response.                                                    *)

(* get_header_value: a reference to a static empty string, no exception.   *)
get_header_value(key) == IF key \in DOMAIN headers THEN headers[key] ELSE NoText

Response(code, file, page) ==
  [code |-> code, version |-> version,
   connection |-> get_header_value("Connection"), file |-> file, page |-> page]

(* The switch of build_error_response.                                     *)
error_content(code) == IF code \in {400, 404, 405, 505} THEN code ELSE 500

build_error_response(code) == answer' = Response(code, NoText, error_content(code))

build_success_response(path) == answer' = Response(200, path, 200)

(* "www/index.html", "www" + target or "www/" + target.                    *)
file_path == IF target = "/" THEN "index.html" ELSE Relative(target)

(* Mutant: the file is read without a look at is_open().                   *)
load_throws_unchecked(path) == Disk[path] \in {"directory", "missing"}

(* Reading a directory through istreambuf_iterator throws.                 *)
load_throws(path) == Disk[path] = "directory"

(* load_file_content(path).empty()                                         *)
load_is_empty(path) == Disk[path] \in {"missing", "empty"}

answer_file ==
  /\ ~load_throws(file_path)
  /\ IF load_is_empty(file_path)
     THEN build_error_response(404)
     ELSE build_success_response(file_path)
  /\ pc' = "answered"

load_file_throws ==
  /\ load_throws(file_path)
  /\ pc' = "thrown"
  /\ UNCHANGED answer

(* Mutant: the version is looked at first.                                 *)
refusal_version_first ==
  IF version # <<"HTTP/1.1">> THEN 505
  ELSE IF method \notin Methods THEN 405
  ELSE IF "Host" \notin DOMAIN headers THEN status_code
  ELSE 200

(* The early returns of define_response_content, 200 if none is taken.     *)
refusal ==
  IF method \notin Methods THEN 405
  ELSE IF version # <<"HTTP/1.1">> THEN 505
  ELSE IF "Host" \notin DOMAIN headers THEN status_code
  ELSE 200

define_response_content ==
  /\ pc = "parsed"
  /\ \/ /\ refusal # 200
        /\ build_error_response(refusal)
        /\ pc' = "answered"
     \/ refusal = 200 /\ answer_file
     \/ refusal = 200 /\ load_file_throws
  /\ UNCHANGED <<request, pos, startVars, headers, statusVars, has_body, content_length>>

-----------------------------------------------------------------------------
Init == RequestInit /\ answer = NoAnswer

Next ==
  \/ parse_request /\ UNCHANGED answer
  \/ define_response_content

Spec == Init /\ [][Next]_vars

-----------------------------------------------------------------------------
(* Properties.                                                             *)

Codes == {200, 400, 404, 405, 505}

Answer == [code : Codes, version : Seq(Text), connection : Text,
           file : Text, page : Codes]

(* The variables keep their types; every status is one that                *)
(* build_error_response has a page for.                                    *)
TypeOK ==
  /\ pc \in {"start", "headers", "parsed", "answered", "thrown"}
  /\ pos \in 1 .. Len(request.fields)
  /\ method \in Text /\ target \in Text /\ version \in Seq(Text)
  /\ DOMAIN headers \subseteq Text /\ \A k \in DOMAIN headers : headers[k] \in Text
  /\ status_code \in Codes /\ error \in BOOLEAN
  /\ has_body \in BOOLEAN /\ content_length \in Nat
  /\ answer \in Answer \cup {NoAnswer}

(* The two ways the parser reports an error never part: _error is set      *)
(* exactly when the status is not 200, across the overwrites of one by the *)
(* other parse functions.                                                  *)
ErrorHasStatus == error <=> status_code # 200

(* The lines the parser is to look at: the fields, and the line it takes   *)
(* for the end of the head.                                                *)
Ends(l) == ~FieldIsEmpty(l) /\ IsBlank(FieldText(l))

Seen(r) == {k \in 1 .. Len(r.fields) : \A j \in 1 .. k - 1 : ~Ends(r.fields[j])}

Fields(r) == {k \in Seen(r) : ~Ends(r.fields[k])}

Named(r, name) == {k \in Fields(r) : FieldText(r.fields[k]).name = name}

IsLastNamed(r, name, k) ==
  k \in Named(r, name) /\ \A j \in Named(r, name) : j <= k

(* What a request must look like, told from its lines and not from the     *)
(* parser's state: METHOD target HTTP/1.1; fields "Name: value" with valid *)
(* names and values, every Content-Length a number; CRLF everywhere; a     *)
(* Host; for POST, not both framings.                                      *)
WellFormedStart(l) ==
  /\ l.cr /\ Len(l.words) = 3
  /\ l.words[1] \in Methods /\ l.words[3] = "HTTP/1.1"

WellFormedField(l) ==
  /\ l.sep = "space" /\ l.name \in Token
  /\ Trim(l.value) \in Clean
  /\ l.name = "Content-Length" => Trim(l.value) \in Digits

WellFormed(r) ==
  /\ WellFormedStart(r.start)
  /\ \A k \in Seen(r) : r.fields[k].cr
  /\ \A k \in Fields(r) : WellFormedField(r.fields[k])
  /\ Named(r, "Host") # {}
  /\ \/ r.start.words[1] # "POST"
     \/ Named(r, "Content-Length") = {} \/ Named(r, "Transfer-Encoding") = {}

Parsed == pc \in {"parsed", "answered"}

(* Every malformed request is found out and no other one: at the end of    *)
(* parse_request, _error tells whether the request was well formed.        *)
ErrorIffMalformed == Parsed => (error <=> ~WellFormed(request))

(* What the response and the body reader use of a well-formed request is   *)
(* what its peer sent: of each field the last value, trimmed; of           *)
(* Content-Length the number; and a body only where POST announced one.    *)
HeadersAsSent ==
  Parsed /\ ~error =>
    /\ DOMAIN headers = {request.fields[k].name : k \in Fields(request)}
    /\ \A name \in DOMAIN headers, k \in Fields(request) :
         IsLastNamed(request, name, k) => headers[name] = Trim(request.fields[k].value)
    /\ content_length = IF "Content-Length" \in DOMAIN headers
                        THEN Number(headers["Content-Length"]) ELSE 0
    /\ has_body <=> /\ request.start.words[1] = "POST"
                    /\ {"Content-Length", "Transfer-Encoding"} \cap DOMAIN headers # {}

(* The answer a request should get: its start line is looked at first, and *)
(* one that names no method or no version is refused for it.               *)
StartCode(words) ==
  IF Len(words) < 2 \/ words[1] \notin Methods THEN 405
  ELSE IF Len(words) # 3 \/ words[3] # "HTTP/1.1" THEN 505
  ELSE 200

FileAt(t) == IF t = "/" THEN "index.html" ELSE Relative(t)

RightAnswer(r) ==
  LET words   == StartText(r.start)
      file    == FileAt(words[2])
      page(n) == [code |-> n, file |-> NoText, page |-> n]
  IN  IF StartCode(words) # 200 THEN page(StartCode(words))
      ELSE IF Named(r, "Host") = {} THEN page(400)
      ELSE IF Disk[file] # "page" THEN page(404)
      ELSE [code |-> 200, file |-> file, page |-> 200]

(* However many errors a request has, the answer is told by its lines:     *)
(* method, version, Host, file, in this order; and the page is the one of  *)
(* the code, never the 500 of build_error_response's default.              *)
AnswerAsRequested ==
  pc = "answered" =>
    [code |-> answer.code, file |-> answer.file, page |-> answer.page]
      = RightAnswer(request)

(* The inputs on which process_client_request throws, which nothing        *)
(* catches: a bare '\n', a field that ends at its colon, a target that is  *)
(* a directory.                                                            *)
Throws(r) ==
  LET words == StartText(r.start) IN
  \/ StartIsEmpty(r.start)
  \/ \E k \in Seen(r) :
       FieldIsEmpty(r.fields[k]) \/ EndsAtColon(FieldText(r.fields[k]))
  \/ /\ StartCode(words) = 200 /\ Named(r, "Host") # {}
     /\ Disk[FileAt(words[2])] = "directory"

(* It throws on these and on no other request.                             *)
ThrowsOnlyOn ==
  /\ pc = "thrown"   => Throws(request)
  /\ pc = "answered" => ~Throws(request)

(* "_error = true; _status_code = 400" (request.cpp:256-257 and the other  *)
(* checks of the parser): a request found malformed is not served.         *)
ErrorIsAnswered == pc = "answered" /\ error => answer.code # 200
=============================================================================
