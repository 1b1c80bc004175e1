--------------------------- MODULE ExchangeProofs ---------------------------
(***************************************************************************)
(* Proofs about Request and Exchange, for any set of requests of any       *)
(* length over any text.                                                   *)
(***************************************************************************)
EXTENDS Exchange, SequenceTheorems, TLAPS

(* The parser is past the start line and has not thrown.                   *)
Reading == pc \in {"headers", "parsed", "answered"}

LineAt(k) == request.fields[k]

(* What holds of the fields of c_request as the lines go by.               *)
Fresh ==
  pc = "start" =>
    /\ pos = 1 /\ method = NoText /\ target = NoText /\ version = <<>>
    /\ DOMAIN headers = {} /\ error = FALSE /\ status_code = 200
    /\ content_length = 0

StartTaken ==
  Reading =>
    /\ ~StartIsEmpty(request.start)
    /\ LET w == StartText(request.start) IN
       /\ method = IF Len(w) > 1 THEN w[1] ELSE NoText
       /\ IF Len(w) > 2 /\ w[1] \in Methods
          THEN target = w[2] /\ version = SubSeq(w, 3, Len(w))
          ELSE version = <<>>

LinesTaken ==
  Reading =>
    \A k \in 1 .. pos - 1 :
      /\ ~FieldIsEmpty(LineAt(k)) /\ ~Ends(LineAt(k))
      /\ ~EndsAtColon(FieldText(LineAt(k)))

EndFound == Parsed => Ends(LineAt(pos))

NamesTaken ==
  Reading => DOMAIN headers = {FieldText(LineAt(k)).name : k \in 1 .. pos - 1}

GoodLine(l) == l.cr /\ WellFormedField(l)

ErrorSoFar ==
  pc = "headers" =>
    (error <=> ~(WellFormedStart(request.start) /\ \A k \in 1 .. pos - 1 : GoodLine(LineAt(k))))

LastSoFar(k) ==
  \A j \in 1 .. pos - 1 : FieldText(LineAt(j)).name = FieldText(LineAt(k)).name => j <= k

ValuesTaken ==
  Reading =>
    \A k \in 1 .. pos - 1 :
      GoodLine(LineAt(k)) /\ LastSoFar(k) =>
        headers[LineAt(k).name] = Trim(LineAt(k).value)

LengthTaken ==
  Reading /\ ~error =>
    content_length = IF "Content-Length" \in DOMAIN headers
                     THEN Number(headers["Content-Length"]) ELSE 0

NoHostIs400 == Parsed /\ "Host" \notin DOMAIN headers => status_code = 400

BodyTaken ==
  Parsed => (has_body <=> /\ method = "POST"
                          /\ {"Content-Length", "Transfer-Encoding"} \cap DOMAIN headers # {})

IInv ==
  /\ request \in Requests
  /\ TypeOK /\ ErrorHasStatus
  /\ Fresh /\ StartTaken /\ LinesTaken /\ EndFound /\ NamesTaken
  /\ ErrorSoFar /\ ValuesTaken /\ LengthTaken /\ NoHostIs400 /\ BodyTaken
  /\ ErrorIffMalformed /\ AnswerAsRequested /\ ThrowsOnlyOn

-----------------------------------------------------------------------------
(* Lines.                                                                  *)

LEMMA RequestType ==
  ASSUME request \in Requests
  PROVE  /\ request.start \in StartLine
         /\ request.fields \in Seq(FieldLine)
         /\ Len(request.fields) \in Nat /\ Len(request.fields) > 0
         /\ \A k \in 1 .. Len(request.fields) : request.fields[k] \in FieldLine
<1> DEFINE f == request.fields
<1>1. request.start \in StartLine /\ f \in Seq(FieldLine) /\ f # <<>>
  BY RequestsAssumption
<1> HIDE DEF f
<1>2. Len(f) \in Nat /\ Len(f) > 0 /\ \A k \in 1 .. Len(f) : f[k] \in FieldLine
  BY <1>1, EmptySeq, ElementOfSeq
<1>3. QED
  BY <1>1, <1>2 DEF f

LEMMA Singleton ==
  ASSUME NEW S, NEW s \in Seq(S), Len(s) = 1
  PROVE  s = <<s[1]>>
<1> DEFINE t == <<s[1]>>
<1>1. s[1] \in S
  BY ElementOfSeq
<1>2. t \in Seq(S) /\ Len(t) = 1 /\ t[1] = s[1]
  BY <1>1
<1>3. \A i \in 1 .. Len(s) : s[i] = t[i]
  BY <1>2
<1> HIDE DEF t
<1>4. s = t
  BY <1>2, <1>3, SeqEqual
<1>5. QED
  BY <1>4 DEF t

(* What is left of a start line is not empty.                              *)
LEMMA StartTextType ==
  ASSUME NEW l \in StartLine, ~StartIsEmpty(l)
  PROVE  StartText(l) \in Seq(Text) /\ Len(StartText(l)) > 0
<1> DEFINE w == l.words
           n == Len(w)
<1>1. w \in Seq(Text) /\ w # <<>> /\ l.cr \in BOOLEAN
  BY DEF StartLine
<1> HIDE DEF w
<1>2. n \in Nat /\ n > 0 /\ n \in 1 .. n
  BY <1>1, EmptySeq
<1>2a. w[n] \in Text
  BY <1>1, <1>2, ElementOfSeq
<1>3. CASE l.cr
  BY <1>1, <1>2, <1>3 DEF StartText, w
<1>4. CASE ~l.cr /\ w[n] = NoText
  <2>1. n - 1 \in Int /\ 1 <= n - 1 /\ n - 1 > 0
    <3>1. n = 1 => w = <<NoText>>
      BY <1>1, <1>4, Singleton
    <3>2. n # 1
      BY <1>4, <3>1 DEF StartIsEmpty, w
    <3> HIDE DEF n
    <3>3. QED
      BY <1>2, <3>2
  <2>2. StartText(l) = SubSeq(w, 1, n - 1)
    BY <1>4 DEF StartText, w
  <2>3. \A i \in 1 .. n - 1 : w[i] \in Text
    BY <1>1, <1>2, ElementOfSeq
  <2>4. SubSeq(w, 1, n - 1) \in Seq(Text) /\ Len(SubSeq(w, 1, n - 1)) > 0
    <3> DEFINE m == n - 1
    <3>1. m \in Int /\ 1 <= m /\ m > 0
      BY <2>1
    <3>2. \A i \in 1 .. m : w[i] \in Text
      BY <2>3
    <3> HIDE DEF m
    <3>3. SubSeq(w, 1, m) \in Seq(Text) /\ Len(SubSeq(w, 1, m)) = m - 1 + 1
      BY <3>1, <3>2, SubSeqProperties
    <3>4. QED
      BY <3>1, <3>3 DEF m
  <2>5. QED
    BY <1>2, <2>1, <2>2, <2>4
<1>5. CASE ~l.cr /\ w[n] # NoText
  <2>1. DropLast(w[n]) \in Text
    BY <1>2a, <1>5, TextAssumption
  <2>2. StartText(l) = [w EXCEPT ![n] = DropLast(w[n])]
    BY <1>5 DEF StartText, w
  <2>3. QED
    BY <1>1, <1>2, <2>1, <2>2, ExceptSeq
<1>6. QED
  BY <1>1, <1>3, <1>4, <1>5

(* What is left of a field line is a field line, and all of it after CRLF. *)
LEMMA FieldTextType ==
  ASSUME NEW l \in FieldLine, ~FieldIsEmpty(l)
  PROVE  FieldText(l) \in FieldLine /\ (l.cr => FieldText(l) = l)
<1>1. \A t \in Text \ {NoText} : DropLast(t) \in Text
  BY TextAssumption
<1>2. CASE l.cr
  BY <1>2 DEF FieldText
<1>3. CASE ~l.cr /\ l.sep # "none" /\ l.value # NoText
  <2>1. FieldText(l) = [l EXCEPT !.value = DropLast(l.value)]
    BY <1>3 DEF FieldText
  <2>2. DropLast(l.value) \in Text
    BY <1>1, <1>3 DEF FieldLine
  <2>3. QED
    BY <1>3, <2>1, <2>2 DEF FieldLine
<1>4. CASE ~l.cr /\ l.sep # "none" /\ l.value = NoText
  BY <1>4 DEF FieldText, FieldLine
<1>5. CASE ~l.cr /\ l.sep = "none"
  <2>1. FieldText(l) = [l EXCEPT !.name = DropLast(l.name)]
    BY <1>5 DEF FieldText
  <2>2. DropLast(l.name) \in Text
    BY <1>1, <1>5 DEF FieldLine, FieldIsEmpty, IsBlank
  <2>3. QED
    BY <1>5, <2>1, <2>2 DEF FieldLine
<1>6. QED
  BY <1>2, <1>3, <1>4, <1>5 DEF FieldLine

LEMMA FieldValueType ==
  ASSUME NEW t \in FieldLine, ~IsBlank(t), ~EndsAtColon(t)
  PROVE  field_value(t) \in Text
<1>1. \A v \in Text \ {NoText} : Trim(DropFirst(v)) \in Text
  BY TextAssumption
<1>2. \A v \in Text : Trim(v) \in Text
  BY TextAssumption
<1>3. t.name \in Text /\ t.value \in Text /\ t.sep \in {"none", "colon", "space"}
  BY DEF FieldLine
<1>4. CASE t.sep = "none"
  BY <1>1, <1>3, <1>4 DEF field_value, IsBlank
<1>5. CASE t.sep = "colon"
  BY <1>1, <1>3, <1>5 DEF field_value, EndsAtColon
<1>6. CASE t.sep = "space"
  BY <1>2, <1>3, <1>6 DEF field_value
<1>7. QED
  BY <1>3, <1>4, <1>5, <1>6

(* The version is what follows the second space.                           *)
LEMMA RestOfLine ==
  ASSUME NEW w \in Seq(Text), Len(w) > 2
  PROVE  /\ SubSeq(w, 3, Len(w)) \in Seq(Text)
         /\ SubSeq(w, 3, Len(w)) = <<"HTTP/1.1">> <=> Len(w) = 3 /\ w[3] = "HTTP/1.1"
<1> DEFINE r == SubSeq(w, 3, Len(w))
<1>1. r \in Seq(Text) /\ Len(r) = Len(w) - 2 /\ r[1] = w[3]
  OBVIOUS
<1> HIDE DEF r
<1>2. Len(w) = 3 /\ w[3] = "HTTP/1.1" => r = <<"HTTP/1.1">>
  BY <1>1, Singleton
<1>3. r = <<"HTTP/1.1">> => Len(r) = 1 /\ r[1] = "HTTP/1.1"
  OBVIOUS
<1>4. QED
  BY <1>1, <1>2, <1>3 DEF r

(* A request whose start line is in order is one whose words are.          *)
LEMMA StartCodeWellFormed ==
  ASSUME NEW l \in StartLine, ~StartIsEmpty(l)
  PROVE  WellFormedStart(l) <=> l.cr /\ StartCode(StartText(l)) = 200
<1>1. l.cr => StartText(l) = l.words
  BY DEF StartText
<1>2. Len(l.words) \in Nat
  BY DEF StartLine
<1>3. QED
  BY <1>1, <1>2 DEF WellFormedStart, StartCode

-----------------------------------------------------------------------------
(* The parsed lines are those of the properties.                           *)

LEMMA SeenSoFar ==
  ASSUME IInv, pc \in {"headers", "parsed", "answered"}
  PROVE  1 .. pos \subseteq Seen(request) /\ 1 .. pos - 1 \subseteq Fields(request)
<1> USE DEF Seen, Fields, IInv, LinesTaken, Reading, LineAt, TypeOK
<1>0. pos \in 1 .. Len(request.fields) /\ Len(request.fields) \in Nat
  BY RequestType
<1>1. 1 .. pos \subseteq Seen(request)
  BY <1>0
<1>2. QED
  BY <1>0, <1>1

LEMMA AllSeen ==
  ASSUME IInv, Reading, Ends(LineAt(pos))
  PROVE  Seen(request) = 1 .. pos /\ Fields(request) = 1 .. pos - 1
<1>0. pos \in 1 .. Len(request.fields) /\ Len(request.fields) \in Nat
  BY RequestType DEF IInv, TypeOK
<1>1. 1 .. pos \subseteq Seen(request) /\ 1 .. pos - 1 \subseteq Fields(request)
  BY SeenSoFar DEF Reading
<1>2. Ends(request.fields[pos])
  BY DEF LineAt
<1>3. Seen(request) = 1 .. pos
  <2>1. \A k \in Seen(request) : k <= pos
    BY <1>0, <1>2 DEF Seen
  <2>2. \A k \in Seen(request) : k \in 1 .. Len(request.fields)
    BY DEF Seen
  <2>3. pos \in Nat /\ \A k \in Seen(request) : k \in 1 .. pos
    BY <1>0, <2>1, <2>2
  <2>4. QED
    BY <1>1, <2>3
<1>4. \A k \in Fields(request) : k \in 1 .. pos /\ k # pos
  BY <1>2, <1>3 DEF Fields
<1>5. pos \in Nat /\ \A k \in Fields(request) : k \in 1 .. pos - 1
  BY <1>0, <1>4
<1>6. QED
  BY <1>1, <1>3, <1>5

(* The headers are the names of the fields.                                *)
LEMMA NamedIffHeader ==
  ASSUME IInv, Reading, Ends(LineAt(pos))
  PROVE  \A name : Named(request, name) # {} <=> name \in DOMAIN headers
<1>1. Fields(request) = 1 .. pos - 1
  BY AllSeen
<1>2. DOMAIN headers = {FieldText(LineAt(k)).name : k \in 1 .. pos - 1}
  BY DEF IInv, NamesTaken
<1>3. QED
  BY <1>1, <1>2 DEF Named, LineAt

(* The method of a request whose start line is in order.                   *)
LEMMA MethodTaken ==
  ASSUME IInv, Reading, WellFormedStart(request.start)
  PROVE  method = request.start.words[1]
<1>1. StartText(request.start) = request.start.words /\ Len(request.start.words) = 3
  BY DEF WellFormedStart, StartText
<1>2. QED
  BY <1>1 DEF IInv, StartTaken

-----------------------------------------------------------------------------
(* The invariant: one lemma for each action.                               *)

LEMMA InitIInv == Init => IInv
<1> SUFFICES ASSUME Init PROVE IInv
  OBVIOUS
<1>1. /\ pc = "start" /\ pos = 1 /\ request \in Requests /\ answer = NoAnswer
      /\ method = NoText /\ target = NoText /\ version = <<>>
      /\ status_code = 200 /\ error = FALSE /\ has_body = FALSE /\ content_length = 0
  BY Zenon DEF Init, RequestInit, init_request
<1>2. DOMAIN headers = {}
  BY DEF Init, RequestInit, init_request
<1>3. pos \in 1 .. Len(request.fields)
  <2>1. Len(request.fields) \in Nat /\ Len(request.fields) > 0
    BY <1>1, RequestType
  <2>2. QED
    BY <1>1, <2>1
<1>4. TypeOK
  <2>1. NoText \in Text /\ <<>> \in Seq(Text)
    BY TextAssumption
  <2>2. QED
    BY <1>1, <1>2, <1>3, <2>1 DEF TypeOK, Codes
<1>5. QED
  BY <1>1, <1>2, <1>4 DEF IInv, ErrorHasStatus, Fresh, StartTaken, LinesTaken, EndFound,
    NamesTaken, ErrorSoFar, ValuesTaken, LengthTaken, NoHostIs400, BodyTaken,
    ErrorIffMalformed, AnswerAsRequested, ThrowsOnlyOn, Reading, Parsed

(* Throwing leaves nothing to prove but that the request is one of those.  *)
LEMMA ThrownStep ==
  ASSUME IInv, pc' = "thrown", Throws(request),
         UNCHANGED <<request, pos, startVars, headers, has_body, content_length, answer>>,
         status_code' \in Codes, error' \in BOOLEAN, error' <=> status_code' # 200
  PROVE  IInv'
<1> USE DEF startVars
<1>1. TypeOK'
  BY DEF IInv, TypeOK, Answer
<1>2. ThrowsOnlyOn'
  <2>1. request' = request
    OBVIOUS
  <2>2. Throws(request)'
    BY <2>1
  <2>3. QED
    BY <2>2 DEF ThrowsOnlyOn
<1>3. QED
  BY <1>1, <1>2 DEF IInv, ErrorHasStatus, Fresh, StartTaken, LinesTaken, EndFound,
    NamesTaken, ErrorSoFar, ValuesTaken, LengthTaken, NoHostIs400, BodyTaken,
    ErrorIffMalformed, AnswerAsRequested, Reading, Parsed

LEMMA StartThrows ==
  ASSUME IInv, start_line_throws, UNCHANGED answer
  PROVE  IInv'
<1> USE DEF start_line_throws, throw, reject
<1>1. Throws(request)
  BY DEF Throws
<1>2. QED
  BY <1>1, ThrownStep DEF Codes

LEMMA HeaderThrows ==
  ASSUME IInv, header_line_throws, UNCHANGED answer
  PROVE  IInv'
<1> USE DEF header_line_throws, throw, reject, AtField, Line
<1>1. pos \in Seen(request)
  <2>1. pos \in 1 .. pos
    BY DEF IInv, TypeOK
  <2>2. QED
    BY <2>1, SeenSoFar
<1>2. Throws(request)
  BY <1>1 DEF Throws
<1>3. QED
  BY <1>2, ThrownStep DEF Codes

(* parse_start_line.                                                       *)
LEMMA StartLineStep ==
  ASSUME IInv, start_line, UNCHANGED answer
  PROVE  IInv'
<1> DEFINE w == StartText(request.start)
<1> USE DEF start_line, startVars, statusVars
<1>1. /\ request \in Requests /\ request.start \in StartLine
      /\ ~StartIsEmpty(request.start) /\ request' = request
  BY RequestType DEF IInv
<1>2. w \in Seq(Text) /\ Len(w) \in Nat /\ Len(w) > 0 /\ \A k \in 1 .. Len(w) : w[k] \in Text
  <2>1. w \in Seq(Text) /\ Len(w) > 0
    BY <1>1, StartTextType
  <2> HIDE DEF w
  <2>2. QED
    BY <2>1, ElementOfSeq
<1>3. parse_start_line(w) /\ pc' = "headers" /\ pc = "start"
  OBVIOUS
<1>4. /\ pos = 1 /\ pos' = 1 /\ method = NoText /\ target = NoText /\ version = <<>>
      /\ DOMAIN headers = {} /\ headers' = headers
      /\ error = FALSE /\ status_code = 200 /\ content_length = 0 /\ content_length' = 0
  BY <1>3 DEF IInv, Fresh
<1> DEFINE n == Len(w)
           m == w[1]
           r == SubSeq(w, 3, Len(w))
           v == <<"HTTP/1.1">>
           e == <<NoText>>
<1>5. /\ n > 2 => r \in Seq(Text)
      /\ n > 2 /\ m \in Methods => (r = v <=> StartCode(w) = 200)
      /\ n < 3 \/ m \notin Methods => StartCode(w) # 200
      /\ n > 1 => m \in Text /\ w[2] \in Text
      /\ n \in Nat /\ n > 0
  <2>1. n > 2 => r \in Seq(Text) /\ (r = v <=> n = 3 /\ w[3] = "HTTP/1.1")
    BY <1>2, RestOfLine
  <2>2. /\ n > 1 => w[1] \in Text /\ w[2] \in Text
        /\ n \in Nat /\ n > 0
    BY <1>2
  <2>3. StartCode(w) = IF n < 2 \/ m \notin Methods THEN 405
                       ELSE IF n # 3 \/ w[3] # "HTTP/1.1" THEN 505 ELSE 200
    BY DEF StartCode
  <2> HIDE DEF r, v, n, m
  <2>4. n > 2 => r \in Seq(Text)
    BY <2>1
  <2>5. n < 3 \/ m \notin Methods => StartCode(w) # 200
    BY <2>2, <2>3
  <2>6. n > 2 /\ m \in Methods => (StartCode(w) = 200 <=> n = 3 /\ w[3] = "HTTP/1.1")
    BY <2>2, <2>3
  <2>7. n > 2 /\ m \in Methods => (r = v <=> StartCode(w) = 200)
    BY <2>1, <2>6
  <2>8. n > 1 => m \in Text /\ w[2] \in Text
    BY <2>2 DEF m
  <2>9. QED
    BY <2>2, <2>4, <2>5, <2>7, <2>8
<1>6. e # v
  <2>1. NoText # "HTTP/1.1"
    BY TextAssumption DEF Words
  <2>2. QED
    BY <2>1
<1>7. \/ /\ n = 1 /\ reject(400) /\ UNCHANGED <<method, target, version>>
      \/ /\ n > 1 /\ m \notin Methods
         /\ method' = m /\ reject(405) /\ UNCHANGED <<target, version>>
      \/ /\ n = 2 /\ m \in Methods
         /\ method' = m /\ reject(400) /\ UNCHANGED <<target, version>>
      \/ /\ n > 2 /\ m \in Methods
         /\ method' = m /\ target' = w[2] /\ version' = r
         /\ IF r = e THEN reject(400)
            ELSE IF r # v THEN reject(505)
            ELSE IF ~request.start.cr THEN reject(400)
            ELSE UNCHANGED <<status_code, error>>
  BY <1>3 DEF parse_start_line
<1> DEFINE good == StartCode(w) = 200
<1> HIDE DEF n, m, r, v, e, good
<1>8. /\ error' \in BOOLEAN /\ status_code' \in {200, 400, 405, 505}
      /\ error' <=> status_code' # 200
      /\ error' <=> ~(request.start.cr /\ good)
      /\ method' \in Text /\ target' \in Text /\ version' \in Seq(Text)
      /\ method' = IF n > 1 THEN m ELSE NoText
      /\ IF n > 2 /\ m \in Methods THEN target' = w[2] /\ version' = r ELSE version' = <<>>
  <2>0. NoText \in Text /\ <<>> \in Seq(Text)
    BY TextAssumption
  <2>1. CASE n = 1
    BY <1>4, <1>5, <1>7, <2>0, <2>1 DEF reject, good
  <2>2. CASE n > 1 /\ m \notin Methods
    <3>1. /\ method' = m /\ target' = NoText /\ version' = <<>>
          /\ status_code' = 405 /\ error' = TRUE
      BY <1>4, <1>5, <1>7, <2>2 DEF reject
    <3>2. m \in Text /\ ~good
      BY <1>5, <2>2 DEF good
    <3>3. QED
      BY <2>0, <2>2, <3>1, <3>2
  <2>3. CASE n = 2 /\ m \in Methods
    <3>1. /\ method' = m /\ target' = NoText /\ version' = <<>>
          /\ status_code' = 400 /\ error' = TRUE
      BY <1>4, <1>5, <1>7, <2>3 DEF reject
    <3>2. m \in Text /\ ~good
      BY <1>5, <2>3 DEF good
    <3>3. QED
      BY <2>0, <2>3, <3>1, <3>2
  <2>4. CASE n > 2 /\ m \in Methods
    <3>1. /\ method' = m /\ target' = w[2] /\ version' = r
          /\ IF r = e THEN reject(400)
             ELSE IF r # v THEN reject(505)
             ELSE IF ~request.start.cr THEN reject(400)
             ELSE UNCHANGED <<status_code, error>>
      BY <1>5, <1>7, <2>4
    <3>2. \/ error' = TRUE /\ status_code' = 400 /\ (r # v \/ ~request.start.cr)
          \/ error' = TRUE /\ status_code' = 505 /\ r # v
          \/ error' = FALSE /\ status_code' = 200 /\ r = v /\ request.start.cr
      BY <1>4, <1>6, <3>1, Zenon DEF reject
    <3>3. m \in Text /\ w[2] \in Text /\ r \in Seq(Text) /\ (r = v <=> good)
      BY <1>5, <2>4 DEF good
    <3>4. method' = m /\ target' = w[2] /\ version' = r
      BY <3>1
    <3>5. /\ error' \in BOOLEAN /\ status_code' \in {200, 400, 405, 505}
          /\ error' <=> status_code' # 200
      <4>1. \/ error' = TRUE /\ status_code' = 400
            \/ error' = TRUE /\ status_code' = 505
            \/ error' = FALSE /\ status_code' = 200
        BY <3>2, Zenon
      <4>2. 400 # 200 /\ 505 # 200
        OBVIOUS
      <4>3. ASSUME error' = TRUE, status_code' \in {400, 505}
            PROVE  error' \in BOOLEAN /\ status_code' # 200 /\ error'
        BY <4>2, <4>3
      <4>4. QED
        BY <4>1, <4>2, <4>3
    <3>6. error' <=> ~(request.start.cr /\ good)
      BY <3>2, <3>3, Zenon
    <3>7. n > 1
      BY <1>5, <2>4
    <3>8. QED
      BY <2>4, <3>3, <3>4, <3>5, <3>6, <3>7, Zenon
  <2>5. QED
    BY <1>5, <2>1, <2>2, <2>3, <2>4
<1>9. TypeOK'
  BY <1>1, <1>3, <1>4, <1>8 DEF IInv, TypeOK, Codes, Answer
<1>9a. StartTaken'
  <2>1. StartText(request.start)' = w
    BY <1>1 DEF w
  <2>2. StartIsEmpty(request.start)' = StartIsEmpty(request.start)
    BY <1>1
  <2>3. QED
    BY <1>1, <1>8, <2>1, <2>2 DEF StartTaken, n, m, r
<1>10. ErrorSoFar'
  <2>1. error' <=> ~WellFormedStart(request.start)
    BY <1>1, <1>8, StartCodeWellFormed DEF w, good
  <2>2. QED
    BY <1>1, <1>4, <2>1 DEF ErrorSoFar
<1>11. QED
  BY <1>1, <1>3, <1>4, <1>8, <1>9, <1>9a, <1>10 DEF IInv, ErrorHasStatus, Fresh,
    LinesTaken, EndFound, NamesTaken, ValuesTaken, LengthTaken, NoHostIs400, BodyTaken,
    ErrorIffMalformed, AnswerAsRequested, ThrowsOnlyOn, Parsed

(* parse_headers finds an error exactly in the lines that are not well     *)
(* formed.                                                                 *)
LEMMA FieldCheck ==
  ASSUME NEW l \in FieldLine, ~FieldIsEmpty(l)
  PROVE  GoodLine(l) <=>
           LET t == FieldText(l) IN
             /\ l.cr /\ is_valid_header_name(t.name) /\ t.sep = "space"
             /\ is_valid_header_value(t.name, field_value(t))
<1>1. l.cr => FieldText(l) = l
  BY FieldTextType
<1>2. l.sep = "space" => field_value(l) = Trim(l.value)
  BY DEF field_value
<1>3. QED
  BY <1>1, <1>2 DEF GoodLine, WellFormedField, is_valid_header_name, is_valid_header_value

(* The blank line at the end of the request is never taken for a field.    *)
LEMMA NotTheLast ==
  ASSUME IInv, AtField, ~IsBlank(FieldText(Line))
  PROVE  pos \in 1 .. Len(request.fields) - 1
<1>1. pos \in 1 .. Len(request.fields) /\ Len(request.fields) \in Nat
  BY RequestType DEF IInv, TypeOK
<1>2. request.fields[Len(request.fields)] = Blank
  BY RequestsAssumption DEF IInv
<1>3. IsBlank(FieldText(Blank))
  BY DEF FieldText, IsBlank, Blank
<1>4. pos # Len(request.fields)
  BY <1>2, <1>3 DEF Line
<1>5. QED
  BY <1>1, <1>4

LEMMA HeaderLineStep ==
  ASSUME IInv, header_line, UNCHANGED answer
  PROVE  IInv'
<1> DEFINE l == LineAt(pos)
           t == FieldText(l)
           value == field_value(t)
           valid == is_valid_header_value(t.name, value)
           good == GoodLine(l)
<1> USE DEF startVars, statusVars
<1>1. /\ pc = "headers" /\ pc' = "headers" /\ pos' = pos + 1
      /\ request' = request /\ answer' = answer /\ has_body' = has_body
      /\ method' = method /\ target' = target /\ version' = version
  BY DEF header_line, AtField
<1>2. /\ ~FieldIsEmpty(l) /\ ~IsBlank(t) /\ ~EndsAtColon(t) /\ parse_headers(t)
  BY DEF header_line, Line, LineAt
<1>3. /\ request \in Requests /\ TypeOK /\ ErrorHasStatus
      /\ pos \in 1 .. Len(request.fields) - 1 /\ Len(request.fields) \in Nat
      /\ l \in FieldLine
  <2>1. AtField /\ ~IsBlank(FieldText(Line))
    BY DEF header_line
  <2>2. pos \in 1 .. Len(request.fields) - 1
    BY <2>1, NotTheLast
  <2>3. /\ Len(request.fields) \in Nat
        /\ \A k \in 1 .. Len(request.fields) : request.fields[k] \in FieldLine
    BY RequestType DEF IInv
  <2>4. QED
    BY <2>2, <2>3 DEF IInv, LineAt
<1>4. t \in FieldLine /\ (l.cr => t = l) /\ t.name \in Text /\ value \in Text
  <2>1. t \in FieldLine /\ (l.cr => t = l)
    BY <1>2, <1>3, FieldTextType
  <2> HIDE DEF t
  <2>2. QED
    BY <1>2, <2>1, FieldValueType DEF FieldLine
<1>5. good <=> l.cr /\ is_valid_header_name(t.name) /\ t.sep = "space" /\ valid
  BY <1>2, <1>3, FieldCheck
<1>6. /\ headers' = [k \in DOMAIN headers \cup {t.name} |->
                       IF k = t.name THEN value ELSE headers[k]]
      /\ content_length' = IF t.name = "Content-Length" /\ valid
                           THEN Number(value) ELSE content_length
      /\ IF good THEN UNCHANGED <<status_code, error>> ELSE reject(400)
  BY <1>2, <1>5, Zenon DEF parse_headers, LineAt
<1>7. good => l.cr /\ t = l /\ l.sep = "space" /\ value = Trim(l.value)
  BY <1>4, <1>5 DEF field_value
<1>8. valid /\ t.name = "Content-Length" => value \in Digits /\ Number(value) \in Nat
  BY TextAssumption DEF is_valid_header_value
<1>9. \A k \in 1 .. pos : LineAt(k)' = LineAt(k)
  BY <1>1 DEF LineAt
<1>10. pos' \in 1 .. Len(request.fields)' /\ pos \in Nat /\ 1 .. pos' - 1 = 1 .. pos
  BY <1>1, <1>3
<1>10a. 1 .. pos = (1 .. pos - 1) \cup {pos}
  <2>1. pos \in Nat /\ 1 <= pos
    BY <1>3
  <2>2. QED
    BY <2>1
<1> HIDE DEF t, value, valid, good
<1>11. error' \in BOOLEAN /\ status_code' \in Codes /\ (error' <=> status_code' # 200)
  <2>1. error \in BOOLEAN /\ status_code \in Codes /\ (error <=> status_code # 200)
    BY <1>3 DEF TypeOK, ErrorHasStatus
  <2>2. CASE good
    BY <1>6, <2>1, <2>2
  <2>3. CASE ~good
    BY <1>6, <2>3 DEF reject, Codes
  <2>4. QED
    BY <2>2, <2>3
<1>12. error' <=> error \/ ~good
  BY <1>6, Zenon DEF reject
<1>13. TypeOK'
  <2>1. DOMAIN headers' \subseteq Text /\ \A k \in DOMAIN headers' : headers'[k] \in Text
    BY <1>3, <1>4, <1>6 DEF TypeOK
  <2>2. content_length' \in Nat
    BY <1>3, <1>6, <1>8 DEF TypeOK
  <2>3. QED
    BY <1>1, <1>3, <1>10, <1>11, <2>1, <2>2 DEF TypeOK, Answer
<1>14. StartTaken'
  BY <1>1 DEF IInv, StartTaken, Reading
<1>15. LinesTaken'
  <2>1. \A k \in 1 .. pos - 1 :
          ~FieldIsEmpty(LineAt(k)) /\ ~Ends(LineAt(k)) /\ ~EndsAtColon(FieldText(LineAt(k)))
    BY <1>1 DEF IInv, LinesTaken, Reading
  <2>2. ~FieldIsEmpty(l) /\ ~Ends(l) /\ ~EndsAtColon(FieldText(l))
    BY <1>2 DEF Ends, t
  <2>3. \A k \in 1 .. pos :
          ~FieldIsEmpty(LineAt(k)) /\ ~Ends(LineAt(k)) /\ ~EndsAtColon(FieldText(LineAt(k)))
    BY <1>10, <2>1, <2>2
  <2>4. QED
    BY <1>9, <1>10, <2>3 DEF LinesTaken
<1>16. NamesTaken'
  <2>1. DOMAIN headers = {FieldText(LineAt(k)).name : k \in 1 .. pos - 1}
    BY <1>1 DEF IInv, NamesTaken, Reading
  <2>2. DOMAIN headers' = DOMAIN headers \cup {FieldText(LineAt(pos)).name}
    BY <1>6 DEF t
  <2>3. DOMAIN headers' = {FieldText(LineAt(k)).name : k \in 1 .. pos}
    BY <1>10a, <2>1, <2>2
  <2>4. QED
    BY <1>9, <1>10, <2>3 DEF NamesTaken
<1>17. ErrorSoFar'
  <2>1. error <=> ~(WellFormedStart(request.start) /\ \A k \in 1 .. pos - 1 : GoodLine(LineAt(k)))
    BY <1>1 DEF IInv, ErrorSoFar
  <2>2. (\A k \in 1 .. pos : GoodLine(LineAt(k)))
          <=> good /\ \A k \in 1 .. pos - 1 : GoodLine(LineAt(k))
    BY <1>10a DEF good
  <2>3. error' <=> ~(WellFormedStart(request.start) /\ \A k \in 1 .. pos : GoodLine(LineAt(k)))
    BY <1>12, <2>1, <2>2, Zenon
  <2>4. QED
    BY <1>1, <1>9, <1>10, <2>3 DEF ErrorSoFar
<1>18. ValuesTaken'
  <2> SUFFICES ASSUME NEW k \in 1 .. pos, GoodLine(LineAt(k)),
                      \A j \in 1 .. pos :
                        FieldText(LineAt(j)).name = FieldText(LineAt(k)).name => j <= k
               PROVE  headers'[LineAt(k).name] = Trim(LineAt(k).value)
    BY <1>9, <1>10 DEF ValuesTaken, LastSoFar
  <2>1. CASE k = pos
    <3>1. good
      BY <2>1 DEF good
    <3>2. QED
      BY <1>6, <1>7, <2>1, <3>1
  <2>2. CASE k # pos
    <3>1. k \in 1 .. pos - 1 /\ ~(pos <= k)
      BY <1>10, <2>2
    <3>2. LineAt(k) \in FieldLine /\ LineAt(k).cr
      BY <1>3, RequestType, <3>1 DEF LineAt, GoodLine
    <3>3. ~FieldIsEmpty(LineAt(k))
      BY <1>1, <3>1 DEF IInv, LinesTaken, Reading
    <3>4. FieldText(LineAt(k)) = LineAt(k)
      BY <3>2, <3>3, FieldTextType
    <3>5. t.name # LineAt(k).name
      BY <1>10, <3>1, <3>4 DEF t
    <3>6. LineAt(k).name \in DOMAIN headers
      BY <1>1, <3>1, <3>4 DEF IInv, NamesTaken, Reading
    <3>7. headers[LineAt(k).name] = Trim(LineAt(k).value)
      BY <1>1, <1>10, <3>1 DEF IInv, ValuesTaken, Reading, LastSoFar
    <3>8. QED
      BY <1>6, <3>5, <3>6, <3>7
  <2>3. QED
    BY <2>1, <2>2
<1>19. LengthTaken'
  <2> SUFFICES ASSUME ~error'
               PROVE  content_length' = IF "Content-Length" \in DOMAIN headers'
                                        THEN Number(headers'["Content-Length"]) ELSE 0
    BY DEF LengthTaken
  <2>1. ~error /\ valid
    BY <1>5, <1>12
  <2>2. content_length = IF "Content-Length" \in DOMAIN headers
                         THEN Number(headers["Content-Length"]) ELSE 0
    BY <1>1, <2>1 DEF IInv, LengthTaken, Reading
  <2>3. CASE t.name = "Content-Length"
    BY <1>6, <2>1, <2>3
  <2>4. CASE t.name # "Content-Length"
    BY <1>6, <2>2, <2>4
  <2>5. QED
    BY <2>3, <2>4
<1>20. QED
  BY <1>1, <1>3, <1>11, <1>13, <1>14, <1>15, <1>16, <1>17, <1>18, <1>19
  DEF IInv, ErrorHasStatus, Fresh, EndFound, NoHostIs400, BodyTaken,
    ErrorIffMalformed, AnswerAsRequested, ThrowsOnlyOn, Parsed

(* check_required_headers completes the account of the errors.             *)
LEMMA HeadEndsStep ==
  ASSUME IInv, head_ends, UNCHANGED answer
  PROVE  IInv'
<1> DEFINE l == LineAt(pos)
           host     == "Host" \in DOMAIN headers
           length   == "Content-Length" \in DOMAIN headers
           encoding == "Transfer-Encoding" \in DOMAIN headers
           post     == method = "POST"
           wrong    == ~host \/ (post /\ length /\ encoding) \/ ~l.cr
<1> USE DEF startVars, statusVars
<1>1. /\ pc = "headers" /\ pc' = "parsed" /\ pos' = pos
      /\ request' = request /\ answer' = answer
      /\ method' = method /\ target' = target /\ version' = version
      /\ headers' = headers /\ content_length' = content_length
  BY DEF head_ends, AtField
<1>2. Ends(l) /\ Ends(l)' /\ Reading /\ Reading'
  BY <1>1 DEF head_ends, Ends, Line, LineAt, Reading
<1>3. has_body' = (post /\ (length \/ encoding))
  BY DEF head_ends, check_required_headers
<1>4. IF wrong THEN reject(400) ELSE UNCHANGED <<status_code, error>>
  BY <1>3, Zenon DEF head_ends, check_required_headers, LineAt, Line
<1> HIDE DEF wrong
<1>5. error' \in BOOLEAN /\ status_code' \in Codes /\ (error' <=> status_code' # 200)
  <2>1. error \in BOOLEAN /\ status_code \in Codes /\ (error <=> status_code # 200)
    BY DEF IInv, TypeOK, ErrorHasStatus
  <2>2. CASE wrong
    BY <1>4, <2>2 DEF reject, Codes
  <2>3. CASE ~wrong
    BY <1>4, <2>1, <2>3
  <2>4. QED
    BY <2>2, <2>3
<1>6. error' <=> error \/ wrong
  BY <1>4, Zenon DEF reject
<1>7. TypeOK'
  <2>1. has_body' \in BOOLEAN
    BY <1>3
  <2>2. QED
    BY <1>1, <1>5, <2>1 DEF IInv, TypeOK, Answer
<1>8. StartTaken' /\ LinesTaken' /\ NamesTaken' /\ ValuesTaken'
  <2>1. StartTaken'
    BY <1>1, <1>2 DEF IInv, StartTaken
  <2>2. LinesTaken'
    BY <1>1, <1>2 DEF IInv, LinesTaken, LineAt
  <2>3. NamesTaken'
    BY <1>1, <1>2 DEF IInv, NamesTaken, LineAt
  <2>4. ValuesTaken'
    BY <1>1, <1>2 DEF IInv, ValuesTaken, LineAt, LastSoFar
  <2>5. QED
    BY <2>1, <2>2, <2>3, <2>4
<1>9. LengthTaken'
  BY <1>1, <1>2, <1>6 DEF IInv, LengthTaken
<1>10. NoHostIs400'
  BY <1>1, <1>4 DEF NoHostIs400, reject, wrong
<1>11. BodyTaken'
  BY <1>1, <1>3 DEF BodyTaken
<1>12. ErrorIffMalformed'
  <2>1. error <=> ~(WellFormedStart(request.start) /\ \A k \in 1 .. pos - 1 : GoodLine(LineAt(k)))
    BY <1>1 DEF IInv, ErrorSoFar
  <2>2. Seen(request) = 1 .. pos /\ Fields(request) = 1 .. pos - 1
    BY <1>2, AllSeen
  <2>3. /\ Named(request, "Host") = {} <=> ~host
        /\ Named(request, "Content-Length") = {} <=> ~length
        /\ Named(request, "Transfer-Encoding") = {} <=> ~encoding
    BY <1>2, NamedIffHeader
  <2>4. (\A k \in 1 .. pos : LineAt(k).cr) <=> l.cr /\ \A k \in 1 .. pos - 1 : LineAt(k).cr
    <3>1. 1 .. pos = (1 .. pos - 1) \cup {pos}
      <4>1. pos \in Nat /\ 1 <= pos
        BY RequestType DEF IInv, TypeOK
      <4>2. QED
        BY <4>1
    <3>2. QED
      BY <3>1
  <2>5. WellFormedStart(request.start) => (post <=> request.start.words[1] = "POST")
    BY <1>2, MethodTaken
  <2> HIDE DEF l, host, length, encoding, post
  <2>6. WellFormed(request) <=>
          /\ WellFormedStart(request.start)
          /\ \A k \in 1 .. pos - 1 : GoodLine(LineAt(k))
          /\ l.cr /\ host /\ (~post \/ ~length \/ ~encoding)
    BY <2>2, <2>3, <2>4, <2>5, Zenon DEF WellFormed, GoodLine, LineAt
  <2>7. error' <=> ~WellFormed(request)
    BY <1>6, <2>1, <2>6, Zenon DEF wrong
  <2>8. QED
    BY <1>1, <2>7 DEF ErrorIffMalformed
<1>13. QED
  BY <1>1, <1>2, <1>5, <1>7, <1>8, <1>9, <1>10, <1>11, <1>12
  DEF IInv, ErrorHasStatus, Fresh, EndFound, ErrorSoFar, AnswerAsRequested, ThrowsOnlyOn

(* define_response_content looks at a start line as StartCode does.        *)
LEMMA StartRefused ==
  ASSUME IInv, Reading
  PROVE  /\ StartCode(StartText(request.start)) =
              IF method \notin Methods THEN 405
              ELSE IF version # <<"HTTP/1.1">> THEN 505 ELSE 200
         /\ StartCode(StartText(request.start)) = 200 =>
              target = StartText(request.start)[2]
<1> DEFINE w == StartText(request.start)
           n == Len(w)
           m == w[1]
           r == SubSeq(w, 3, n)
           v == <<"HTTP/1.1">>
<1>1. w \in Seq(Text) /\ n \in Nat /\ n > 0
  <2>1. request.start \in StartLine /\ ~StartIsEmpty(request.start)
    BY RequestType DEF IInv, StartTaken
  <2>2. w \in Seq(Text) /\ n > 0
    BY <2>1, StartTextType
  <2> HIDE DEF w
  <2>3. QED
    BY <2>2
<1>2. /\ method = IF n > 1 THEN m ELSE NoText
      /\ IF n > 2 /\ m \in Methods THEN target = w[2] /\ version = r ELSE version = <<>>
  BY DEF IInv, StartTaken
<1> HIDE DEF w
<1>3. n > 2 => (r = v <=> n = 3 /\ w[3] = "HTTP/1.1")
  BY <1>1, RestOfLine
<1>4. StartCode(w) = IF n < 2 \/ m \notin Methods THEN 405
                     ELSE IF n # 3 \/ w[3] # "HTTP/1.1" THEN 505 ELSE 200
  BY DEF StartCode
<1>5. NoText \notin Methods /\ <<>> # v
  <2>1. NoText \notin Methods
    BY TextAssumption DEF Words
  <2>2. QED
    BY <2>1
<1> HIDE DEF n, m, r, v
<1>6. method \notin Methods <=> n < 2 \/ m \notin Methods
  BY <1>1, <1>2, <1>5
<1>7. method \in Methods => (version = v <=> n = 3 /\ w[3] = "HTTP/1.1")
  <2>1. CASE n > 2 /\ m \in Methods
    BY <1>2, <1>3, <2>1
  <2>2. CASE ~(n > 2 /\ m \in Methods)
    <3>1. version # v
      BY <1>2, <1>5, <2>2
    <3>2. method \in Methods => n # 3
      BY <1>1, <1>6, <2>2
    <3>3. QED
      BY <3>1, <3>2
  <2>3. QED
    BY <2>1, <2>2
<1>8. StartCode(w) = IF method \notin Methods THEN 405
                     ELSE IF version # v THEN 505 ELSE 200
  BY <1>4, <1>6, <1>7
<1>9. StartCode(w) = 200 => target = w[2]
  <2>1. StartCode(w) = 200 => n = 3 /\ m \in Methods
    BY <1>4
  <2>2. n = 3 => n > 2
    BY <1>1
  <2>3. QED
    BY <1>2, <2>1, <2>2
<1>10. QED
  BY <1>8, <1>9 DEF w, v

(* The lines up to the end of the head, none of which throws.              *)
LEMMA NoLineThrows ==
  ASSUME IInv, Parsed
  PROVE  /\ ~StartIsEmpty(request.start)
         /\ \A k \in Seen(request) :
              ~FieldIsEmpty(LineAt(k)) /\ ~EndsAtColon(FieldText(LineAt(k)))
<1>1. Reading /\ Ends(LineAt(pos))
  BY DEF IInv, EndFound, Parsed, Reading
<1>2. ~StartIsEmpty(request.start)
  BY <1>1 DEF IInv, StartTaken
<1>3. Seen(request) = 1 .. pos
  BY <1>1, AllSeen
<1>4. ~FieldIsEmpty(LineAt(pos)) /\ ~EndsAtColon(FieldText(LineAt(pos)))
  BY <1>1 DEF Ends, IsBlank, EndsAtColon
<1>5. \A k \in 1 .. pos - 1 : ~FieldIsEmpty(LineAt(k)) /\ ~EndsAtColon(FieldText(LineAt(k)))
  BY <1>1 DEF IInv, LinesTaken
<1>6. \A k \in 1 .. pos : k \in 1 .. pos - 1 \/ k = pos
  BY DEF IInv, TypeOK
<1>7. QED
  BY <1>2, <1>3, <1>4, <1>5, <1>6

(* What holds of the parser's state when the response is built.            *)
LEMMA RespondStep ==
  ASSUME IInv, define_response_content
  PROVE  IInv'
<1> DEFINE w == StartText(request.start)
           host == "Host" \in DOMAIN headers
           file == FileAt(w[2])
<1> USE DEF startVars, statusVars
<1>1. /\ pc = "parsed" /\ request' = request /\ pos' = pos
      /\ method' = method /\ target' = target /\ version' = version
      /\ headers' = headers /\ status_code' = status_code /\ error' = error
      /\ has_body' = has_body /\ content_length' = content_length
  BY DEF define_response_content
<1>2. Reading /\ Parsed /\ Ends(LineAt(pos))
  BY <1>1 DEF IInv, EndFound, Reading, Parsed
<1>3. /\ StartCode(w) = IF method \notin Methods THEN 405
                        ELSE IF version # <<"HTTP/1.1">> THEN 505 ELSE 200
      /\ StartCode(w) = 200 => target = w[2]
  BY <1>2, StartRefused
<1>4. Named(request, "Host") = {} <=> ~host
  BY <1>2, NamedIffHeader
<1>5. ~host => status_code = 400
  BY <1>2 DEF IInv, NoHostIs400
<1> HIDE DEF w, host
<1>6. refusal = IF StartCode(w) # 200 THEN StartCode(w) ELSE IF host THEN 200 ELSE 400
  <2> DEFINE noMethod == method \notin Methods
             noVersion == version # <<"HTTP/1.1">>
  <2>1. refusal = IF noMethod THEN 405 ELSE IF noVersion THEN 505
                  ELSE IF ~host THEN status_code ELSE 200
    BY DEF refusal, host
  <2>2. StartCode(w) = IF noMethod THEN 405 ELSE IF noVersion THEN 505 ELSE 200
    BY <1>3
  <2> HIDE DEF noMethod, noVersion
  <2>3. CASE noMethod
    <3>1. refusal = 405 /\ StartCode(w) = 405
      BY <2>1, <2>2, <2>3
    <3>2. QED
      BY <3>1
  <2>4. CASE ~noMethod /\ noVersion
    <3>1. refusal = 505 /\ StartCode(w) = 505
      BY <2>1, <2>2, <2>4
    <3>2. QED
      BY <3>1
  <2>5. CASE ~noMethod /\ ~noVersion
    BY <1>5, <2>1, <2>2, <2>5, Zenon
  <2>6. QED
    BY <2>3, <2>4, <2>5
<1>7. refusal = 200 => StartCode(w) = 200 /\ host /\ file_path = file
  BY <1>3, <1>6 DEF file_path, FileAt
<1>8. StartCode(w) \in {200, 405, 505}
  BY <1>3
<1>9. refusal = 200 =>
        file \in Text /\ Disk[file] \in {"missing", "empty", "directory", "page"}
  <2>1. target \in Text /\ \A t \in Text : FileAt(t) \in Text
    BY DiskAssumption DEF IInv, TypeOK, FileAt
  <2>2. \A t \in Text : Disk[t] \in {"missing", "empty", "directory", "page"}
    BY DiskAssumption
  <2>3. refusal = 200 => target = w[2]
    BY <1>3, <1>7
  <2>4. QED
    BY <2>1, <2>2, <2>3
<1> DEFINE said == [code |-> answer'.code, file |-> answer'.file, page |-> answer'.page]
           connection == get_header_value("Connection")
           page(k) == [code |-> k, file |-> NoText, page |-> k]
<1>10. connection \in Text /\ version \in Seq(Text) /\ NoText \in Text
  BY TextAssumption DEF IInv, TypeOK, get_header_value
<1>11. RightAnswer(request) =
         IF StartCode(w) # 200 THEN page(StartCode(w))
         ELSE IF ~host THEN page(400)
         ELSE IF Disk[file] # "page" THEN page(404)
         ELSE [code |-> 200, file |-> file, page |-> 200]
  BY <1>4 DEF RightAnswer, w
<1> HIDE DEF connection, file
<1>12. ASSUME pc' = "answered", answer' \in Answer, said = RightAnswer(request),
              ~Throws(request)
       PROVE  IInv'
  <2>1. TypeOK'
    BY <1>1, <1>12 DEF IInv, TypeOK
  <2>2. Reading' /\ Parsed'
    BY <1>12 DEF Reading, Parsed
  <2>3. StartTaken' /\ LinesTaken' /\ NamesTaken' /\ ValuesTaken'
    <3>1. StartTaken'
      BY <1>1, <1>2 DEF IInv, StartTaken
    <3>2. LinesTaken'
      BY <1>1, <1>2 DEF IInv, LinesTaken, LineAt
    <3>3. NamesTaken'
      BY <1>1, <1>2 DEF IInv, NamesTaken, LineAt
    <3>4. ValuesTaken'
      BY <1>1, <1>2 DEF IInv, ValuesTaken, LineAt, LastSoFar
    <3>5. QED
      BY <3>1, <3>2, <3>3, <3>4
  <2>4. LengthTaken' /\ NoHostIs400' /\ BodyTaken'
    BY <1>1, <1>2 DEF IInv, LengthTaken, NoHostIs400, BodyTaken
  <2>5. EndFound' /\ ErrorIffMalformed'
    <3>1. EndFound'
      BY <1>1, <1>2 DEF EndFound, LineAt
    <3>2. ErrorIffMalformed'
      BY <1>1, <1>2 DEF IInv, ErrorIffMalformed
    <3>3. QED
      BY <3>1, <3>2
  <2>6. AnswerAsRequested' /\ ThrowsOnlyOn'
    <3>1. AnswerAsRequested'
      BY <1>1, <1>12 DEF AnswerAsRequested
    <3>2. ThrowsOnlyOn'
      BY <1>1, <1>12 DEF ThrowsOnlyOn
    <3>3. QED
      BY <3>1, <3>2
  <2>7. QED
    BY <1>1, <1>12, <2>1, <2>3, <2>4, <2>5, <2>6 DEF IInv, ErrorHasStatus, Fresh, ErrorSoFar
<1>13. Throws(request) <=> StartCode(w) = 200 /\ host /\ Disk[file] = "directory"
  <2>1. /\ ~StartIsEmpty(request.start)
        /\ \A k \in Seen(request) :
             ~FieldIsEmpty(request.fields[k]) /\ ~EndsAtColon(FieldText(request.fields[k]))
    BY <1>2, NoLineThrows DEF LineAt
  <2>2. QED
    BY <1>4, <2>1 DEF Throws, w, file
<1>14. CASE refusal # 200 /\ build_error_response(refusal) /\ pc' = "answered"
  <2>1. StartCode(w) # 200 \/ ~host
    BY <1>6, <1>14
  <2>2. refusal \in {400, 405, 505} /\ RightAnswer(request) = page(refusal)
    BY <1>6, <1>8, <1>11, <1>14
  <2>3. error_content(refusal) = refusal
    BY <2>2 DEF error_content
  <2>4. answer' = [code |-> refusal, version |-> version, connection |-> connection,
                   file |-> NoText, page |-> refusal]
    BY <1>14, <2>3 DEF build_error_response, Response, connection
  <2>5. answer' \in Answer /\ said = page(refusal)
    BY <1>10, <2>2, <2>4 DEF Answer, Codes
  <2>6. ~Throws(request)
    BY <1>13, <2>1
  <2>7. QED
    BY <1>12, <1>14, <2>2, <2>5, <2>6
<1>15. CASE refusal = 200 /\ answer_file
  <2>1. StartCode(w) = 200 /\ host /\ file_path = file /\ file \in Text
        /\ Disk[file] \in {"missing", "empty", "page"}
    BY <1>7, <1>9, <1>15 DEF answer_file, load_throws
  <2>2. ~Throws(request) /\ pc' = "answered"
    BY <1>13, <1>15, <2>1 DEF answer_file
  <2>3. CASE Disk[file] = "page"
    <3>1. answer' = [code |-> 200, version |-> version, connection |-> connection,
                     file |-> file, page |-> 200]
      BY <1>15, <2>1, <2>3 DEF answer_file, load_is_empty, build_success_response,
        Response, connection
    <3>2. answer' \in Answer /\ said = [code |-> 200, file |-> file, page |-> 200]
      BY <1>10, <2>1, <3>1 DEF Answer, Codes
    <3>3. RightAnswer(request) = [code |-> 200, file |-> file, page |-> 200]
      BY <1>11, <2>1, <2>3
    <3>4. QED
      BY <1>12, <2>2, <3>2, <3>3
  <2>4. CASE Disk[file] # "page"
    <3>1. error_content(404) = 404
      BY DEF error_content
    <3>2. answer' = [code |-> 404, version |-> version, connection |-> connection,
                     file |-> NoText, page |-> 404]
      BY <1>15, <2>1, <2>4, <3>1 DEF answer_file, load_is_empty, build_error_response,
        Response, connection
    <3>3. answer' \in Answer /\ said = page(404)
      BY <1>10, <3>2 DEF Answer, Codes
    <3>4. RightAnswer(request) = page(404)
      BY <1>11, <2>1, <2>4
    <3>5. QED
      BY <1>12, <2>2, <3>3, <3>4
  <2>5. QED
    BY <2>3, <2>4
<1>16. CASE refusal = 200 /\ load_file_throws
  <2>1. pc' = "thrown" /\ answer' = answer /\ Throws(request)
    BY <1>7, <1>13, <1>16 DEF load_file_throws, load_throws
  <2>2. status_code' \in Codes /\ error' \in BOOLEAN /\ (error' <=> status_code' # 200)
    BY <1>1 DEF IInv, TypeOK, ErrorHasStatus
  <2>3. QED
    BY <1>1, <2>1, <2>2, ThrownStep
<1>17. QED
  BY <1>14, <1>15, <1>16 DEF define_response_content

LEMMA StutterStep ==
  ASSUME IInv, UNCHANGED vars
  PROVE  IInv'
<1> USE DEF vars, requestVars, startVars, statusVars
<1>1. /\ pc' = pc /\ request' = request /\ pos' = pos /\ answer' = answer
      /\ method' = method /\ target' = target /\ version' = version
      /\ headers' = headers /\ status_code' = status_code /\ error' = error
      /\ has_body' = has_body /\ content_length' = content_length
  OBVIOUS
<1>2. QED
  BY <1>1 DEF IInv, TypeOK, ErrorHasStatus, Fresh, StartTaken, LinesTaken, EndFound,
    NamesTaken, ErrorSoFar, ValuesTaken, LengthTaken, NoHostIs400, BodyTaken,
    ErrorIffMalformed, AnswerAsRequested, ThrowsOnlyOn, Reading, Parsed, LineAt, LastSoFar

-----------------------------------------------------------------------------
(* The theorems.                                                           *)

LEMMA NextIInv == IInv /\ [Next]_vars => IInv'
<1> SUFFICES ASSUME IInv, [Next]_vars PROVE IInv'
  OBVIOUS
<1>1. CASE start_line /\ UNCHANGED answer
  BY <1>1, StartLineStep
<1>2. CASE start_line_throws /\ UNCHANGED answer
  BY <1>2, StartThrows
<1>3. CASE header_line /\ UNCHANGED answer
  BY <1>3, HeaderLineStep
<1>4. CASE header_line_throws /\ UNCHANGED answer
  BY <1>4, HeaderThrows
<1>5. CASE head_ends /\ UNCHANGED answer
  BY <1>5, HeadEndsStep
<1>6. CASE define_response_content
  BY <1>6, RespondStep
<1>7. CASE UNCHANGED vars
  BY <1>7, StutterStep
<1>8. QED
  BY <1>1, <1>2, <1>3, <1>4, <1>5, <1>6, <1>7 DEF Next, parse_request

LEMMA SpecIInv == Spec => []IInv
BY InitIInv, NextIInv, PTL DEF Spec

(* The fields of c_request and of the response keep their types, for       *)
(* requests of any length over any text; no status is left without a page. *)
THEOREM TypeCorrect == Spec => []TypeOK
<1>1. IInv => TypeOK
  BY DEF IInv
<1>2. QED
  BY <1>1, SpecIInv, PTL

(* _error and the status agree however many checks of parse_request fail   *)
(* and in whatever order they overwrite each other.                        *)
THEOREM StatusCorrect == Spec => []ErrorHasStatus
<1>1. IInv => ErrorHasStatus
  BY DEF IInv
<1>2. QED
  BY <1>1, SpecIInv, PTL

(* parse_request finds out the malformed requests and no other ones.       *)
THEOREM ErrorCorrect == Spec => []ErrorIffMalformed
<1>1. IInv => ErrorIffMalformed
  BY DEF IInv
<1>2. QED
  BY <1>1, SpecIInv, PTL

(* define_response_content gives every request that is parsed the answer   *)
(* its lines call for.                                                     *)
THEOREM AnswerCorrect == Spec => []AnswerAsRequested
<1>1. IInv => AnswerAsRequested
  BY DEF IInv
<1>2. QED
  BY <1>1, SpecIInv, PTL

(* process_client_request throws on the requests of Throws and on no other *)
(* ones: what a caller would have to catch, and all of it.                 *)
THEOREM ThrowsCorrect == Spec => []ThrowsOnlyOn
<1>1. IInv => ThrowsOnlyOn
  BY DEF IInv
<1>2. QED
  BY <1>1, SpecIInv, PTL

(* In a request without errors the fields are as they were sent, because   *)
(* every line before the end is well formed and none was cut.              *)
LEMMA FieldsTaken ==
  ASSUME IInv, Parsed, ~error
  PROVE  \A k \in Fields(request) :
           k \in 1 .. pos - 1 /\ GoodLine(LineAt(k)) /\ FieldText(LineAt(k)) = LineAt(k)
<1>1. Reading /\ Ends(LineAt(pos))
  BY DEF IInv, EndFound, Parsed, Reading
<1>2. WellFormed(request)
  BY DEF IInv, ErrorIffMalformed, TypeOK
<1>3. \A k \in Fields(request) : k \in Seen(request) /\ k \in 1 .. pos - 1
  BY <1>1, AllSeen DEF Fields
<1>4. \A k \in Fields(request) : GoodLine(LineAt(k))
  BY <1>2, <1>3 DEF WellFormed, GoodLine, LineAt
<1>5. \A k \in Fields(request) : LineAt(k) \in FieldLine /\ ~FieldIsEmpty(LineAt(k))
  <2>1. \A k \in Seen(request) : LineAt(k) \in FieldLine
    BY RequestType DEF Seen, LineAt, IInv
  <2>2. QED
    BY <1>3, <2>1, NoLineThrows
<1>6. QED
  BY <1>3, <1>4, <1>5, FieldTextType DEF GoodLine

(* The headers, the announced length and the presence of a body that the   *)
(* rest of the server uses are those of the request.                       *)
THEOREM HeadersCorrect == Spec => []HeadersAsSent
<1>1. IInv => HeadersAsSent
  <2> SUFFICES ASSUME IInv, Parsed, ~error PROVE HeadersAsSent
    BY DEF HeadersAsSent
  <2>1. Reading /\ Ends(LineAt(pos))
    BY DEF IInv, EndFound, Parsed, Reading
  <2>2. Fields(request) = 1 .. pos - 1
    BY <2>1, AllSeen
  <2>3. \A k \in 1 .. pos - 1 : GoodLine(LineAt(k)) /\ FieldText(LineAt(k)) = LineAt(k)
    BY <2>2, FieldsTaken
  <2>4. DOMAIN headers = {LineAt(k).name : k \in 1 .. pos - 1}
    BY <2>1, <2>3 DEF IInv, NamesTaken
  <2>5. ASSUME NEW k \in Fields(request), NEW name, IsLastNamed(request, name, k)
        PROVE  headers[name] = Trim(request.fields[k].value)
    <3>1. k \in 1 .. pos - 1 /\ LineAt(k).name = name
      BY <2>2, <2>3, <2>5 DEF IsLastNamed, Named, LineAt
    <3>2. LastSoFar(k)
      BY <2>2, <2>3, <2>5, <3>1 DEF LastSoFar, IsLastNamed, Named, LineAt
    <3>3. headers[LineAt(k).name] = Trim(LineAt(k).value)
      BY <2>1, <2>3, <3>1, <3>2 DEF IInv, ValuesTaken
    <3>4. QED
      BY <3>1, <3>3 DEF LineAt
  <2>6. content_length = IF "Content-Length" \in DOMAIN headers
                         THEN Number(headers["Content-Length"]) ELSE 0
    BY <2>1 DEF IInv, LengthTaken
  <2>7. has_body <=> /\ request.start.words[1] = "POST"
                     /\ {"Content-Length", "Transfer-Encoding"} \cap DOMAIN headers # {}
    <3>1. WellFormedStart(request.start)
      BY DEF IInv, ErrorIffMalformed, TypeOK, WellFormed
    <3>2. method = request.start.words[1]
      BY <2>1, <3>1, MethodTaken
    <3>3. QED
      BY <3>2 DEF IInv, BodyTaken
  <2>8. QED
    BY <2>2, <2>4, <2>5, <2>6, <2>7 DEF HeadersAsSent, LineAt
<1>2. QED
  BY <1>1, SpecIInv, PTL

=============================================================================
