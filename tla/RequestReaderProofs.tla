------------------------- MODULE RequestReaderProofs -------------------------
(***************************************************************************)
(* Proofs about RequestReader, for any requests, any split of them and any *)
(* number of calls on one object.                                          *)
(***************************************************************************)
EXTENDS RequestReader, DataLemmas, SequenceTheorems, FiniteSetTheorems

(* strtoul returns a number whatever it is given.                          *)
SizesAreNumbers == \A s \in Seq(Char) : ChunkSize(s) \in Nat

Unit == Char \cup {HeadUnit}

Reading == {"length", "framing", "decode", "chunks"}

(* s is the beginning of t, element by element.                            *)
Begins(s, t) == Len(s) <= Len(t) /\ \A k \in 1 .. Len(s) : s[k] = t[k]

(* Until the head is complete, request holds all that was received: only   *)
(* the piece that ends the head can lose something to a NUL.               *)
HeadRead ==
  pc = "head" =>
    /\ Begins(text, Wire(stream)) /\ Len(text) <= received
    /\ Len(text) < HeadLen \/ HasNoNUL(stream.body) => received = Len(text)

(* What is read for a body is behind the head.                             *)
HeadPassed == pc \in Reading => HeadLen <= received

(* init_request has been called before a head is parsed.                   *)
FreshAtHead ==
  /\ pc \in {"idle", "head"} => ~has_body
  /\ pc = "head" => body = <<>>

(* While a request is read _error and _status_code say the same.           *)
StatusAgrees == pc \in Reading \cup {"head"} => (error <=> status_code # 200)

(* The body of an announced length is all that recv() returned beyond the  *)
(* head.                                                                   *)
LengthRead ==
  (ByLength /\ HasNoNUL(stream.body)) =>
    /\ pc \in {"length", "framing", "returned"}
    /\ Begins(body, stream.body)
    /\ pc = "length" => total_bytes = Len(body) /\ received = HeadLen + Len(body)
    /\ Len(body) > content_length => body = part
    /\ pc = "framing" => Len(body) >= content_length
    /\ (pc = "returned" /\ code = 200) => Len(body) >= content_length
    /\ (pc = "returned" /\ code = 413) => Len(stream.body) > content_length

Ordered == TypeOK /\ HeadRead /\ HeadPassed /\ FreshAtHead

IInv == Ordered /\ StatusAgrees /\ ErrorReturned /\ LengthRead

-----------------------------------------------------------------------------
(* Data.                                                                   *)

(* The stream is its head and its body.                                    *)
LEMMA WireProperties ==
  ASSUME NEW s \in Stream
  PROVE  /\ Wire(s) \in Seq(Unit) /\ Len(Wire(s)) = HeadLen + Len(s.body)
         /\ Len(s.body) \in Nat
         /\ \A k \in 1 .. HeadLen : Wire(s)[k] = HeadUnit
         /\ \A k \in 1 .. Len(s.body) : Wire(s)[HeadLen + k] = s.body[k]
<1> DEFINE head == [k \in 1 .. HeadLen |-> HeadUnit]
<1>1. head \in Seq(Unit) /\ Len(head) = HeadLen
  BY SizesAssumption, IsASeq, LenProperties DEF Unit
<1>2. s.body \in Seq(Unit) /\ Len(s.body) \in Nat
  BY SeqMonotonic, LenProperties DEF Stream, Unit
<1>3. \A k \in 1 .. HeadLen : head[k] = HeadUnit
  OBVIOUS
<1> HIDE DEF head
<1>4. Wire(s) = head \o s.body
  BY DEF Wire, head
<1>5. \A k \in 1 .. Len(s.body) : (head \o s.body)[HeadLen + k] = s.body[k]
  BY <1>1, <1>2, ConcatOfSeq
<1>6. \A k \in 1 .. HeadLen : (head \o s.body)[k] = HeadUnit
  BY <1>1, <1>2, <1>3, ConcatOfSeq
<1>7. head \o s.body \in Seq(Unit) /\ Len(head \o s.body) = HeadLen + Len(s.body)
  BY <1>1, <1>2, ConcatOfSeq
<1>8. QED
  BY <1>2, <1>4, <1>5, <1>6, <1>7, Zenon

(* What recv() returns comes next in the stream.                           *)
LEMMA PieceProperties ==
  ASSUME TypeOK, Arrived
  PROVE  /\ Piece \in Seq(Unit) /\ Len(Piece) \in Nat \ {0}
         /\ received + Len(Piece) <= arrived
         /\ \A k \in 1 .. Len(Piece) : Piece[k] = Wire(stream)[received + k]
<1> DEFINE w == Wire(stream)
<1> DEFINE n == Smaller(RecvMax, arrived - received)
<1>1. /\ w \in Seq(Unit) /\ Len(w) \in Nat
      /\ arrived \in 0 .. Len(w) /\ received \in 0 .. arrived /\ received < arrived
  BY WireProperties, StreamsAssumption, LenProperties DEF TypeOK, Arrived
<1>2. \A k \in 1 .. Len(w) : w[k] \in Unit
  BY <1>1, ElementOfSeq
<1>3. n \in Nat \ {0} /\ received + n <= arrived
  <2> HIDE DEF w
  <2>1. QED
    BY <1>1, SizesAssumption DEF Smaller
<1>4. received \in Nat /\ received + n <= Len(w)
  <2> HIDE DEF w, n
  <2>1. QED
    BY <1>1, <1>3
<1> DEFINE p == SubSeq(w, received + 1, received + n)
<1>5. p \in Seq(Unit) /\ Len(p) = n /\ \A i \in 1 .. n : p[i] = w[received + i]
  <2> HIDE DEF w, n
  <2>1. QED
    BY <1>1, <1>3, <1>4, SubSeqOfSeq
<1>6. QED
  BY <1>3, <1>5 DEF Piece

(* A C string is the beginning of what it was made of, all of it if there  *)
(* is no NUL, and otherwise up to one.                                     *)
LEMMA CStringProperties ==
  ASSUME NEW s \in Seq(Unit)
  PROVE  /\ CString(s) \in Seq(Unit) /\ Begins(CString(s), s)
         /\ HasNoNUL(s) => CString(s) = s
         /\ CString(s) # s =>
              \E k \in 1 .. Len(s) : k = Len(CString(s)) + 1 /\ s[k] = NUL
<1> DEFINE I == {i \in 1 .. Len(s) : s[i] = NUL}
<1> DEFINE L == Len(s)
<1>1. SelectInSeq(s, LAMBDA c : c = NUL) = IF I # {} THEN Min(I) ELSE 0
  BY DEF SelectInSeq
<1>2. L \in Nat
  BY LenProperties
<1>3. CASE I = {}
  <2>1. CString(s) = s
    BY <1>1, <1>3 DEF CString
  <2>2. QED
    BY <2>1, <1>2 DEF Begins
<1>4. CASE I # {}
  <2> DEFINE m == Min(I)
  <2>1. m \in I
    <3>1. I \subseteq Nat
      BY <1>2
    <3>2. \E x \in I : \A y \in I : x <= y
      BY <1>4, <3>1, LeastNatural
    <3>3. QED
      BY <3>2 DEF Min
  <2>2. m \in 1 .. L /\ s[m] = NUL
    BY <2>1
  <2> HIDE DEF m
  <2>3. m # 0
    BY <2>2, <1>2
  <2> DEFINE c == SubSeq(s, 1, m - 1)
  <2>4. CString(s) = c
    BY <1>1, <1>4, <2>3 DEF CString, m
  <2>5. \A i \in 1 .. m - 1 : s[i] \in Unit
    <3> TAKE i \in 1 .. m - 1
    <3>1. i \in 1 .. L
      <4> HIDE DEF L
      <4>1. QED
        BY <2>2, <1>2
    <3>2. QED
      BY <3>1, ElementOfSeq
  <2>6. m - 1 \in Int /\ 1 \in Int
    BY <2>2, <1>2
  <2>7. /\ c \in Seq(Unit)
        /\ Len(c) = IF 1 <= m - 1 THEN m - 1 - 1 + 1 ELSE 0
        /\ \A i \in 1 .. m - 1 - 1 + 1 : c[i] = s[1 + i - 1]
    BY <2>5, <2>6, SubSeqProperties
  <2> HIDE DEF c
  <2>8. Len(c) = m - 1 /\ \A i \in 1 .. m - 1 : c[i] = s[i]
    <3> HIDE DEF L
    <3>1. Len(c) = m - 1
      BY <2>7, <2>2, <1>2
    <3>2. \A i \in 1 .. m - 1 : 1 + i - 1 = i /\ i \in 1 .. m - 1 - 1 + 1
      BY <2>2, <1>2
    <3>3. QED
      BY <3>1, <3>2, <2>7
  <2>9. ~HasNoNUL(s)
    BY <2>2 DEF HasNoNUL
  <2>10. m - 1 <= L /\ m = m - 1 + 1
    <3> HIDE DEF L
    <3>1. QED
      BY <2>2, <1>2
  <2>11. QED
    BY <2>2, <2>4, <2>7, <2>8, <2>9, <2>10 DEF Begins
<1>5. QED
  BY <1>3, <1>4

-----------------------------------------------------------------------------
(* What init_request and what each return leave.                           *)

LEMMA InitIInv == Init => IInv
<1> SUFFICES ASSUME Init PROVE IInv
  OBVIOUS
<1> USE DEF Init
<1>1. TypeOK
  <2>1. Wire(stream) \in Seq(Unit) /\ Len(Wire(stream)) \in Nat
    BY WireProperties, StreamsAssumption, LenProperties
  <2>2. /\ stream \in Streams /\ arrived \in 0 .. Len(Wire(stream)) /\ received \in 0 .. arrived
        /\ calls \in 0 .. MaxCalls
    BY <2>1, SizesAssumption
  <2>3. /\ text \in Seq(Unit) /\ part \in Seq(Char) /\ body \in Seq(Char)
        /\ accumulator \in Seq(Char)
    OBVIOUS
  <2>4. /\ total_bytes \in Nat /\ content_length \in Nat /\ expected \in Nat \cup {-1}
        /\ code \in {200, 400, 405, 408, 413, 500, 505}
        /\ status_code \in {200, 400, 405, 505} /\ names \subseteq Names
        /\ pc \in {"idle", "head", "length", "framing", "decode", "chunks", "returned"}
        /\ decoding \in {"part", "accumulator"}
    OBVIOUS
  <2>5. /\ chunked \in BOOLEAN /\ has_body \in BOOLEAN /\ error \in BOOLEAN
        /\ odd_line \in BOOLEAN /\ fully_parsed \in BOOLEAN /\ closed \in BOOLEAN
    BY Zenon
  <2> QED
    BY <2>2, <2>3, <2>4, <2>5, Zenon DEF TypeOK, Unit
<1>2. HeadRead /\ HeadPassed /\ FreshAtHead /\ StatusAgrees /\ ErrorReturned
  BY DEF HeadRead, HeadPassed, FreshAtHead, StatusAgrees, ErrorReturned, Reading
<1>3. LengthRead
  BY DEF LengthRead, ByLength
<1>4. QED
  BY <1>1, <1>2, <1>3 DEF IInv, Ordered

LEMMA StepErrorReturned ==
  StatusAgrees /\ ErrorReturned /\ [Next]_vars => StatusAgrees' /\ ErrorReturned'
<1> SUFFICES ASSUME StatusAgrees, ErrorReturned, [Next]_vars
             PROVE  StatusAgrees' /\ ErrorReturned'
  OBVIOUS
<1> USE DEF StatusAgrees, ErrorReturned, Reading, statusVars
<1>1. CASE read_request
  BY <1>1 DEF read_request, init_request
<1>2. CASE head_received \/ length_ends \/ chunks_begin \/ decode_waits
           \/ decode_empty_line \/ decode_size \/ chunks_received
  BY <1>2 DEF head_received, length_ends, chunks_begin, decode_waits, decode_empty_line,
    decode_size, chunks_received, AtHead, InChunks, decoderFrame
<1>3. CASE head_closed \/ head_times_out \/ head_fails \/ length_closed \/ length_fails
  BY <1>3 DEF head_closed, head_times_out, head_fails, length_closed, length_fails,
    give_up, return
<1>4. CASE not_chunked \/ chunks_end \/ chunks_break \/ chunks_break_on_NUL
  BY <1>4 DEF not_chunked, chunks_end, chunks_break, chunks_break_on_NUL, finish, return,
    InChunks
<1>5. CASE head_ends
  <2>1. PICK refused \in BOOLEAN :
           IF refused THEN status_code' = 400 /\ error' = TRUE
           ELSE status_code' = stream.head.status /\ error' = (stream.head.status # 200)
    <3> DEFINE refused == "Host" \notin names' \/ (has_body' /\ Framings \subseteq names')
    <3>1. IF refused THEN status_code' = 400 /\ error' = TRUE
          ELSE status_code' = stream.head.status /\ error' = (stream.head.status # 200)
      BY <1>5, Zenon DEF head_ends, parse_request
    <3>2. QED
      BY <3>1, Zenon
  <2>2. error' <=> status_code' # 200
    <3>1. CASE refused
      BY <2>1, <3>1
    <3>2. CASE ~refused
      BY <2>1, <3>2
    <3>3. QED
      BY <3>1, <3>2
  <2>3. pc' \in {"length", "framing"}
    BY <1>5 DEF head_ends, length_begins
  <2>4. QED
    BY <2>2, <2>3
<1>6. CASE length_received
  BY <1>6 DEF length_received, return, InLength
<1>7. CASE decode_data
  BY <1>7 DEF decode_data, decoderFrame
<1>8. CASE peer_sends \/ peer_closes \/ UNCHANGED vars
  BY <1>8 DEF peer_sends, peer_closes, vars, localVars
<1>9. QED
  BY <1>1, <1>2, <1>3, <1>4, <1>5, <1>6, <1>7, <1>8 DEF Next, Reader

-----------------------------------------------------------------------------
(* What is received beyond the head is body.                               *)

LEMMA StreamTypes ==
  ASSUME TypeOK
  PROVE  /\ stream \in Stream /\ stream.body \in Seq(Char)
         /\ Len(stream.body) \in Nat /\ Len(Wire(stream)) = HeadLen + Len(stream.body)
         /\ arrived \in Nat /\ received \in Nat
         /\ received <= arrived /\ arrived <= Len(Wire(stream))
<1>1. stream \in Stream
  BY StreamsAssumption DEF TypeOK
<1>2. stream.body \in Seq(Char)
  BY <1>1 DEF Stream
<1>3. Len(stream.body) \in Nat /\ Len(Wire(stream)) = HeadLen + Len(stream.body)
  BY <1>1, WireProperties
<1>4. arrived \in 0 .. Len(Wire(stream)) /\ received \in 0 .. arrived
  BY DEF TypeOK
<1> DEFINE n == Len(stream.body)
<1> DEFINE w == Len(Wire(stream))
<1>5. n \in Nat /\ w = HeadLen + n /\ arrived \in 0 .. w
  BY <1>3, <1>4
<1> HIDE DEF n, w
<1>6. arrived \in Nat /\ received \in Nat /\ received <= arrived /\ arrived <= w
  BY <1>4, <1>5, SizesAssumption
<1>7. QED
  BY <1>1, <1>2, <1>3, <1>6 DEF w

LEMMA BodyPiece ==
  ASSUME TypeOK, Arrived, HeadLen <= received
  PROVE  /\ Piece \in Seq(Char) /\ Len(Piece) \in Nat
         /\ received - HeadLen + Len(Piece) <= Len(stream.body)
         /\ \A k \in 1 .. Len(Piece) : Piece[k] = stream.body[received - HeadLen + k]
<1> DEFINE n == Len(Piece)
<1> DEFINE m == Len(stream.body)
<1>1. /\ Piece \in Seq(Unit) /\ n \in Nat \ {0} /\ received + n <= arrived
      /\ \A k \in 1 .. n : Piece[k] = Wire(stream)[received + k]
  BY PieceProperties
<1>2. m \in Nat /\ received \in Nat /\ arrived \in Nat /\ arrived <= HeadLen + m
  BY StreamTypes
<1> HIDE DEF n, m
<1>3. received - HeadLen + n <= m
  BY <1>1, <1>2, SizesAssumption
<1>4. ASSUME NEW k \in 1 .. n
      PROVE  Piece[k] = stream.body[received - HeadLen + k] /\ Piece[k] \in Char
  <2> DEFINE j == received - HeadLen + k
  <2>1. j \in 1 .. m /\ HeadLen + j = received + k
    BY <1>1, <1>2, <1>3, SizesAssumption
  <2> HIDE DEF j
  <2>2. Wire(stream)[HeadLen + j] = stream.body[j]
    BY <2>1, StreamTypes, WireProperties DEF m
  <2>3. stream.body[j] \in Char
    BY <2>1, StreamTypes, ElementOfSeq DEF m
  <2>4. Piece[k] = stream.body[j]
    BY <1>1, <2>1, <2>2
  <2>5. QED
    BY <2>3, <2>4 DEF j
<1>5. Piece \in Seq(Char)
  <2>1. Piece \in [1 .. n -> Unit]
    BY <1>1, LenProperties DEF n
  <2>2. Piece \in [1 .. n -> Char]
    BY <2>1, <1>4
  <2>3. QED
    BY <1>1, <2>2, SeqDef
<1>6. QED
  BY <1>1, <1>3, <1>4, <1>5 DEF n, m

(* The first end of a line.                                                *)
LEMMA LineEndProperties ==
  ASSUME NEW s \in Seq(Char), HasLine(s)
  PROVE  /\ LineEnd(s) \in 1 .. Len(s) - 1
         /\ s[LineEnd(s)] = CR /\ s[LineEnd(s) + 1] = LF
         /\ \A j \in 1 .. LineEnd(s) - 1 : ~(s[j] = CR /\ s[j + 1] = LF)
<1> DEFINE L == Len(s)
<1> DEFINE Ends == {k \in 1 .. L - 1 : s[k] = CR /\ s[k + 1] = LF}
<1>1. L \in Nat
  BY LenProperties
<1>2. Ends # {}
  BY Zenon DEF HasLine
<1>3. PICK x \in Ends : \A y \in Ends : x <= y
  <2>1. 1 .. L - 1 \subseteq Nat
    BY <1>1
  <2>2. Ends \subseteq Nat
    BY <2>1
  <2>3. QED
    BY <1>2, <2>2, LeastNatural
<1>4. \A j \in 1 .. x - 1 : ~(s[j] = CR /\ s[j + 1] = LF)
  <2>1. \A j \in 1 .. x - 1 : j \in 1 .. L - 1 /\ ~(x <= j)
    BY <1>1, <1>3
  <2>2. QED
    BY <1>3, <2>1
<1>5. \E k \in 1 .. L - 1 :
        /\ s[k] = CR /\ s[k + 1] = LF
        /\ \A j \in 1 .. k - 1 : ~(s[j] = CR /\ s[j + 1] = LF)
  BY <1>3, <1>4
<1>6. QED
  BY <1>5 DEF LineEnd

(* A line and what comes after it are text of what they are cut from.      *)
LEMMA LineProperties ==
  ASSUME NEW s \in Seq(Char), HasLine(s)
  PROVE  LineOf(s) \in Seq(Char) /\ AfterLine(s) \in Seq(Char)
<1> DEFINE L == Len(s)
<1> DEFINE e == LineEnd(s)
<1>1. L \in Nat
  BY LenProperties
<1>2. e \in 1 .. L - 1
  BY LineEndProperties
<1> HIDE DEF e
<1>3. LineOf(s) \in Seq(Char)
  <2> DEFINE n == e - 1
  <2>1. n \in Nat /\ 0 + n <= L /\ 0 \in Nat /\ 0 + 1 = 1 /\ 0 + n = e - 1
    <3> HIDE DEF L
    <3>1. QED
      BY <1>1, <1>2
  <2> HIDE DEF n
  <2>2. SubSeq(s, 0 + 1, 0 + n) \in Seq(Char)
    BY <2>1, SubSeqOfSeq
  <2>3. LineOf(s) = SubSeq(s, 0 + 1, 0 + n)
    BY <2>1 DEF LineOf, e
  <2>4. QED
    BY <2>2, <2>3
<1>4. AfterLine(s) \in Seq(Char)
  <2> DEFINE m == e + 1
  <2> DEFINE n == L - m
  <2>1. m \in Nat /\ n \in Nat /\ m + n <= L /\ m + 1 = e + 2 /\ m + n = L
    <3> HIDE DEF L
    <3>1. QED
      BY <1>1, <1>2
  <2> HIDE DEF m, n
  <2>2. SubSeq(s, m + 1, m + n) \in Seq(Char)
    BY <2>1, SubSeqOfSeq
  <2>3. AfterLine(s) = SubSeq(s, m + 1, m + n)
    BY <2>1 DEF AfterLine, e
  <2>4. QED
    BY <2>2, <2>3
<1>5. QED
  BY <1>3, <1>4

-----------------------------------------------------------------------------
(* The steps, one lemma for each kind.                                     *)

(* Between calls nothing of the head counts.                               *)
LEMMA CallKeepsOrdered ==
  ASSUME Ordered, read_request PROVE Ordered'
<1> USE DEF Ordered, read_request, init_request
<1>1. stream' \in Streams /\ Len(Wire(stream')) \in Nat
  BY StreamsAssumption, WireProperties, LenProperties
<1>2. TypeOK'
  <2>1. /\ text' \in Seq(Unit) /\ part' \in Seq(Char) /\ body' \in Seq(Char)
        /\ accumulator' \in Seq(Char)
    OBVIOUS
  <2>2. arrived' \in 0 .. Len(Wire(stream')) /\ received' \in 0 .. arrived'
    BY <1>1
  <2>3. calls' \in 0 .. MaxCalls /\ total_bytes' \in Nat /\ content_length' \in Nat
        /\ expected' \in Nat \cup {-1} /\ status_code' \in {200, 400, 405, 505}
    BY SizesAssumption DEF TypeOK
  <2>4. /\ pc' = "head" /\ decoding' \in {"part", "accumulator"}
        /\ code' \in {200, 400, 405, 408, 413, 500, 505}
        /\ names' \subseteq Names /\ stream' \in Streams
    BY DEF TypeOK
  <2>5. /\ chunked' \in BOOLEAN /\ has_body' \in BOOLEAN /\ error' \in BOOLEAN
        /\ odd_line' \in BOOLEAN /\ fully_parsed' \in BOOLEAN /\ closed' \in BOOLEAN
    BY Zenon DEF TypeOK
  <2> HIDE DEF Ordered, read_request, init_request
  <2>6. QED
    BY <1>1, <2>1, <2>2, <2>3, <2>4, <2>5, Zenon DEF TypeOK, Unit
<1>3. HeadRead'
  BY SizesAssumption DEF HeadRead, Begins
<1>4. HeadPassed' /\ FreshAtHead'
  BY DEF HeadPassed, FreshAtHead, Reading
<1>5. QED
  BY <1>2, <1>3, <1>4

(* A piece that is cut at a NUL is cut behind the head.                    *)
LEMMA HeadReceivedKeepsOrdered ==
  ASSUME Ordered, head_received PROVE Ordered'
<1> DEFINE t == text
<1> DEFINE c == CString(Piece)
<1> DEFINE w == Wire(stream)
<1>1. /\ Len(t) < HeadLen /\ received = Len(t) /\ Begins(t, w) /\ t \in Seq(Unit)
      /\ received \in Nat
  BY StreamTypes DEF Ordered, HeadRead, head_received, AtHead, TypeOK, Unit
<1>2. /\ Piece \in Seq(Unit) /\ Len(Piece) \in Nat \ {0} /\ received + Len(Piece) <= arrived
      /\ \A k \in 1 .. Len(Piece) : Piece[k] = w[received + k]
  BY PieceProperties DEF Ordered, head_received
<1>3. /\ c \in Seq(Unit) /\ Begins(c, Piece) /\ (HasNoNUL(Piece) => c = Piece)
      /\ c # Piece => \E k \in 1 .. Len(Piece) : k = Len(c) + 1 /\ Piece[k] = NUL
  BY <1>2, CStringProperties
<1>4. /\ text' = t \o c /\ received' = received + Len(Piece)
      /\ UNCHANGED <<pc, stream, arrived, has_body, body>>
  BY DEF head_received, Take, headVars, peerVars, AtHead
<1>5. /\ t \o c \in Seq(Unit) /\ Len(t \o c) = Len(t) + Len(c)
      /\ \A i \in 1 .. Len(t) : (t \o c)[i] = t[i]
      /\ \A i \in 1 .. Len(c) : (t \o c)[Len(t) + i] = c[i]
  BY <1>1, <1>3, ConcatOfSeq
<1>6. /\ arrived \in Nat /\ arrived <= Len(w) /\ Len(w) \in Nat /\ Len(t) \in Nat /\ Len(c) \in Nat
  BY <1>1, <1>3, StreamTypes, WireProperties, LenProperties DEF Ordered
<1>7. Len(c) <= Len(Piece) /\ \A k \in 1 .. Len(c) : c[k] = w[Len(t) + k]
  <2> HIDE DEF c, w, t
  <2>1. Len(c) <= Len(Piece) /\ \A k \in 1 .. Len(c) : c[k] = Piece[k]
    BY <1>3 DEF Begins
  <2>2. 1 .. Len(c) \subseteq 1 .. Len(Piece)
    BY <1>2, <1>6, <2>1
  <2>3. QED
    BY <1>1, <1>2, <2>1, <2>2
<1>8. Begins(t \o c, w)
  <2> DEFINE u == t \o c
  <2> DEFINE m == Len(t)
  <2> DEFINE n == Len(c)
  <2>1. /\ Len(u) = m + n /\ m \in Nat /\ n \in Nat
        /\ \A i \in 1 .. m : u[i] = w[i]
        /\ \A i \in 1 .. n : u[m + i] = w[m + i]
    BY <1>1, <1>5, <1>6, <1>7, Zenon DEF Begins
  <2>2. m + n <= Len(w)
    <3>1. m = received /\ n <= Len(Piece) /\ Len(Piece) \in Nat
      BY <1>1, <1>2, <1>7
    <3> HIDE DEF m, n, w
    <3>2. QED
      BY <1>1, <1>2, <1>6, <2>1, <3>1 DEF w
  <2> HIDE DEF u, m, n, w
  <2>3. ASSUME NEW i \in 1 .. m + n PROVE u[i] = w[i]
    <3>1. CASE i <= m
      BY <2>1, <3>1
    <3>2. CASE ~(i <= m)
      <4>1. i - m \in 1 .. n /\ m + (i - m) = i
        BY <2>1, <3>2
      <4>2. QED
        BY <2>1, <4>1
    <3>3. QED
      BY <3>1, <3>2
  <2>4. QED
    BY <2>1, <2>2, <2>3 DEF Begins, u
<1>9. c # Piece => Len(t \o c) >= HeadLen /\ ~HasNoNUL(stream.body)
  <2> SUFFICES ASSUME c # Piece PROVE Len(t \o c) >= HeadLen /\ ~HasNoNUL(stream.body)
    OBVIOUS
  <2>1. PICK k \in 1 .. Len(Piece) : k = Len(c) + 1 /\ Piece[k] = NUL
    BY <1>3
  <2> DEFINE j == received + k
  <2>2. w[j] = NUL
    BY <1>2, <2>1
  <2>3. j \in Nat \ {0} /\ j <= Len(w) /\ j = Len(t) + Len(c) + 1
    <3> HIDE DEF c, t, w
    <3>1. QED
      BY <1>1, <1>2, <1>6, <2>1
  <2>4. ~(j <= HeadLen)
    <3>1. j <= HeadLen => w[j] = HeadUnit
      <4>1. stream \in Stream
        BY StreamTypes DEF Ordered
      <4> HIDE DEF j
      <4>2. j <= HeadLen => j \in 1 .. HeadLen
        BY <2>3, SizesAssumption
      <4>3. QED
        BY <4>1, <4>2, WireProperties
    <3>2. NUL # HeadUnit
      BY CharAssumption
    <3>3. QED
      BY <2>2, <3>1, <3>2, Zenon
  <2>5. j - HeadLen \in 1 .. Len(stream.body) /\ stream.body[j - HeadLen] = NUL
    <3> DEFINE i == j - HeadLen
    <3> DEFINE m == Len(stream.body)
    <3>1. Len(w) = HeadLen + m /\ m \in Nat /\ stream \in Stream
      BY StreamTypes DEF Ordered
    <3> HIDE DEF w, j, m
    <3>2. i \in 1 .. m /\ HeadLen + i = j
      BY <2>3, <2>4, <3>1, SizesAssumption
    <3> HIDE DEF i
    <3>3. w[HeadLen + i] = stream.body[i]
      BY <3>1, <3>2, WireProperties DEF w, m
    <3>4. QED
      BY <2>2, <3>2, <3>3 DEF i, m
  <2>6. ~HasNoNUL(stream.body)
    BY <2>5 DEF HasNoNUL
  <2>7. Len(t \o c) >= HeadLen
    <3>1. Len(t \o c) = j - 1
      <4> HIDE DEF c, t, w, j
      <4>1. QED
        BY <1>5, <1>6, <2>3
    <3> HIDE DEF c, t, w, j
    <3>2. QED
      BY <2>3, <2>4, <3>1, SizesAssumption
  <2>8. QED
    BY <2>6, <2>7
<1>10. HeadRead'
  <2>1. Len(t \o c) <= received + Len(Piece)
    <3> HIDE DEF c, t, w
    <3>1. QED
      BY <1>1, <1>2, <1>5, <1>6, <1>7
  <2>2. Len(t \o c) < HeadLen \/ HasNoNUL(stream.body) => received + Len(Piece) = Len(t \o c)
    <3>1. Len(t \o c) \in Nat /\ HeadLen \in Nat
      BY <1>5, <1>6, SizesAssumption
    <3>2. c = Piece => received + Len(Piece) = Len(t \o c)
      BY <1>1, <1>5
    <3>3. Len(t \o c) < HeadLen \/ HasNoNUL(stream.body) => c = Piece
      <4> DEFINE n == Len(t \o c)
      <4> HIDE DEF n
      <4>1. n < HeadLen => ~(n >= HeadLen)
        BY <3>1, SizesAssumption DEF n
      <4>2. QED
        BY <1>9, <4>1 DEF n
    <3>4. QED
      BY <3>2, <3>3
  <2>3. QED
    BY <1>4, <1>8, <2>1, <2>2 DEF HeadRead
<1>11. TypeOK'
  <2>1. text' \in Seq(Char \cup {HeadUnit})
    BY <1>4, <1>5 DEF Unit
  <2>2. received' \in 0 .. arrived
    <3> HIDE DEF c, t, w
    <3>1. QED
      BY <1>1, <1>2, <1>4, <1>6
  <2>3. UNCHANGED <<pc, calls, part, total_bytes, decoding, code, headVars, statusVars,
                    body, chunkVars, peerVars>>
    BY DEF head_received, AtHead
  <2>4. QED
    BY <2>1, <2>2, <2>3, SMTT(60) DEF Ordered, TypeOK, headVars, statusVars, chunkVars, peerVars
<1>12. HeadPassed' /\ FreshAtHead'
  BY <1>4 DEF Ordered, HeadPassed, FreshAtHead, head_received, AtHead, Reading
<1>13. QED
  BY <1>10, <1>11, <1>12 DEF Ordered

(* read_request returns.                                                   *)
LEMMA ReturnKeepsOrdered ==
  ASSUME Ordered,
         \/ head_closed \/ head_times_out \/ head_fails \/ length_closed \/ length_fails
         \/ not_chunked \/ chunks_end \/ chunks_break \/ chunks_break_on_NUL
  PROVE  Ordered'
<1> USE DEF headVars, chunkVars, statusVars, peerVars, localVars, return
<1>1. pc' = "returned" /\ UNCHANGED <<stream, text, part, has_body, body, arrived>>
  BY DEF head_closed, head_times_out, head_fails, length_closed, length_fails, give_up,
    not_chunked, chunks_end, chunks_break, chunks_break_on_NUL, finish
<1>2. HeadRead' /\ HeadPassed' /\ FreshAtHead'
  BY <1>1 DEF HeadRead, HeadPassed, FreshAtHead, Reading
<1>3. CASE head_closed \/ head_times_out \/ head_fails \/ length_closed \/ length_fails
  <2>1. PICK v \in {400, 408, 500} : give_up(v)
    BY <1>3 DEF head_closed, head_times_out, head_fails, length_closed, length_fails
  <2>2. TypeOK'
    BY <2>1, SMTT(60) DEF give_up, Ordered, TypeOK
  <2>3. QED
    BY <1>2, <2>2 DEF Ordered
<1>4. CASE not_chunked \/ chunks_end \/ chunks_break
  <2>1. finish /\ fully_parsed' \in BOOLEAN
    BY <1>4, Zenon DEF not_chunked, chunks_end, chunks_break, Ordered, TypeOK
  <2>2. TypeOK'
    BY <2>1, SMTT(60) DEF finish, Ordered, TypeOK
  <2>3. QED
    BY <1>2, <2>2 DEF Ordered
<1>5. CASE chunks_break_on_NUL
  <2>1. received' \in 0 .. arrived
    <3>1. received' = received + Len(Piece) /\ Len(Piece) \in Nat \ {0}
          /\ received + Len(Piece) <= arrived
      BY <1>5, PieceProperties DEF chunks_break_on_NUL, Take, Ordered
    <3> HIDE DEF Ordered
    <3>2. QED
      BY <3>1, StreamTypes DEF Ordered
  <2>2. TypeOK'
    BY <1>5, <2>1, SMTT(60) DEF chunks_break_on_NUL, Ordered, TypeOK
  <2>3. QED
    BY <1>2, <2>2 DEF Ordered
<1>6. QED
  BY <1>3, <1>4, <1>5

(* What came with the head is the beginning of the body.                   *)
LEMMA BodyPart ==
  ASSUME TypeOK, HeadRead, pc = "head", Len(text) >= HeadLen
  PROVE  /\ body_part \in Seq(Char) /\ Len(body_part) \in Nat
         /\ HeadLen + Len(body_part) = Len(text) /\ Begins(body_part, stream.body)
<1> DEFINE t == text
<1> DEFINE m == Len(stream.body)
<1> DEFINE w == Wire(stream)
<1> DEFINE n == Len(t) - HeadLen
<1>1. /\ t \in Seq(Unit) /\ Len(t) \in Nat /\ m \in Nat /\ Len(w) = HeadLen + m
      /\ Len(t) <= Len(w) /\ (\A k \in 1 .. Len(t) : t[k] = w[k]) /\ stream \in Stream
      /\ Len(t) >= HeadLen
  BY StreamTypes, LenProperties DEF HeadRead, TypeOK, Begins, Unit
<1>2. n \in Nat /\ HeadLen + n = Len(t) /\ HeadLen \in Nat /\ n <= m
  <2> HIDE DEF t, w, m
  <2>1. QED
    BY <1>1, SizesAssumption
<1> HIDE DEF n
<1> DEFINE p == SubSeq(t, HeadLen + 1, HeadLen + n)
<1>3. p \in Seq(Unit) /\ Len(p) = n /\ \A k \in 1 .. n : p[k] = t[HeadLen + k]
  <2> HIDE DEF t
  <2>1. QED
    BY <1>1, <1>2, SubSeqOfSeq
<1>4. p = body_part
  BY <1>2 DEF body_part
<1> HIDE DEF p
<1>5. ASSUME NEW k \in 1 .. n PROVE p[k] = stream.body[k] /\ p[k] \in Char
  <2> DEFINE j == HeadLen + k
  <2>1. j \in 1 .. Len(t) /\ k \in 1 .. m
    <3> HIDE DEF t, m
    <3>1. QED
      BY <1>1, <1>2
  <2>2. t[j] = w[j]
    <3> HIDE DEF t, w, j
    <3>1. QED
      BY <1>1, <2>1
  <2>3. w[HeadLen + k] = stream.body[k]
    BY <1>1, <2>1, WireProperties
  <2>4. stream.body[k] \in Char
    BY <2>1, StreamTypes, ElementOfSeq
  <2>5. QED
    BY <1>3, <2>2, <2>3, <2>4
<1>6. p \in Seq(Char)
  <2>1. p \in [1 .. n -> Unit]
    BY <1>3, LenProperties
  <2>2. p \in [1 .. n -> Char]
    BY <1>5, <2>1
  <2>3. QED
    BY <1>2, <2>2, SeqDef
<1>7. QED
  BY <1>2, <1>3, <1>4, <1>5, <1>6 DEF Begins

LEMMA HeadEndsKeepsOrdered ==
  ASSUME Ordered, head_ends PROVE Ordered'
<1>1. /\ body_part \in Seq(Char) /\ Len(body_part) \in Nat
      /\ HeadLen + Len(body_part) = Len(text)
  BY BodyPart DEF Ordered, head_ends
<1>2. body = <<>> /\ Len(text) <= received /\ Len(text) \in Nat /\ received \in Nat
  BY StreamTypes, LenProperties DEF Ordered, FreshAtHead, HeadRead, head_ends, TypeOK
<1>3. pc' \in {"length", "framing"} /\ HeadLen <= received'
  <2>1. pc' \in {"length", "framing"} /\ received' = received
    BY DEF head_ends, length_begins
  <2>2. HeadLen <= received
    BY <1>1, <1>2, SizesAssumption
  <2>3. QED
    BY <2>1, <2>2
<1>4. body' \in Seq(Char) /\ total_bytes' \in Nat
  <2>1. CASE length_begins
    BY <1>1, <1>2, <2>1, ConcatOfSeq, EmptySeq DEF length_begins
  <2>2. CASE UNCHANGED <<body, total_bytes>>
    BY <2>2 DEF Ordered, TypeOK
  <2>3. QED
    BY <2>1, <2>2, Zenon DEF head_ends
<1>5. /\ names' \subseteq Names /\ chunked' \in BOOLEAN /\ content_length' \in Nat
      /\ has_body' \in BOOLEAN /\ status_code' \in {200, 400, 405, 505} /\ error' \in BOOLEAN
  <2>1. stream.head \in HeadResult /\ names \subseteq Names
    BY StreamTypes DEF Ordered, Stream, TypeOK
  <2>2. names' \subseteq Names /\ chunked' \in BOOLEAN /\ content_length' \in Nat
        /\ has_body' \in BOOLEAN
    BY <2>1 DEF head_ends, parse_request, HeadResult
  <2>3. \/ status_code' = 400 /\ error' = TRUE
        \/ status_code' = stream.head.status /\ error' = (stream.head.status # 200)
    BY Zenon DEF head_ends, parse_request
  <2>4. error' \in BOOLEAN
    BY <2>3, Zenon
  <2>5. status_code' \in {200, 400, 405, 505}
    <3>1. status_code' = 400 \/ status_code' = stream.head.status
      BY <2>3, Zenon
    <3>2. QED
      BY <2>1, <3>1 DEF HeadResult
  <2>6. QED
    BY <2>2, <2>4, <2>5
<1>6. /\ part' = body_part
      /\ UNCHANGED <<calls, text, decoding, code, chunkVars, peerVars, received>>
  BY DEF head_ends
<1>7. TypeOK'
  BY <1>1, <1>3, <1>4, <1>5, <1>6, SMTT(60) DEF Ordered, TypeOK, chunkVars, peerVars
<1>8. QED
  BY <1>3, <1>7 DEF Ordered, HeadRead, HeadPassed, FreshAtHead, Reading

(* A piece of the body, into body or into the accumulator.                 *)
LEMMA BodyReceivedKeepsOrdered ==
  ASSUME Ordered, length_received \/ chunks_received PROVE Ordered'
<1> USE DEF headVars, chunkVars, statusVars, peerVars
<1>1. HeadLen <= received
  BY DEF Ordered, HeadPassed, Reading, length_received, chunks_received, InLength, InChunks
<1>2. Arrived /\ received' = received + Len(Piece) /\ UNCHANGED arrived
  BY DEF length_received, chunks_received, Take
<1>3. Piece \in Seq(Char) /\ Len(Piece) \in Nat /\ received + Len(Piece) <= arrived
  BY <1>1, <1>2, BodyPiece, PieceProperties DEF Ordered
<1>4. received' \in 0 .. arrived' /\ HeadLen <= received'
  <2>1. received \in Nat /\ arrived \in Nat
    BY StreamTypes DEF Ordered
  <2>2. QED
    BY <1>1, <1>2, <1>3, <2>1, SizesAssumption
<1>5. body \o Piece \in Seq(Char) /\ accumulator \o Piece \in Seq(Char)
  BY <1>3, ConcatOfSeq DEF Ordered, TypeOK
<1>6. CASE length_received
  <2>1. /\ body' \in Seq(Char) /\ pc' \in {"length", "returned"} /\ error' \in BOOLEAN
        /\ code' \in {200, 400, 405, 408, 413, 500, 505}
    <3>1. \/ body' = body /\ pc' = "returned" /\ code' = 413 /\ error' = TRUE
          \/ body' = body \o Piece /\ pc' = pc /\ code' = code /\ error' = error
      BY <1>6, Zenon DEF length_received, return
    <3>2. body' \in Seq(Char)
      <4>1. body \in Seq(Char)
        BY DEF Ordered, TypeOK
      <4>2. QED
        BY <1>5, <3>1, <4>1, Zenon
    <3>6. code' \in {200, 400, 405, 408, 413, 500, 505}
      <4>1. code' = 413 \/ code' = code
        BY <3>1, Zenon
      <4>2. QED
        BY <4>1 DEF Ordered, TypeOK
    <3>3. pc' \in {"length", "returned"}
      BY <1>6, <3>1 DEF length_received, InLength
    <3>4. error' \in BOOLEAN
      BY <3>1, Zenon DEF Ordered, TypeOK
    <3>5. QED
      BY <3>2, <3>6, <3>3, <3>4
  <2>2. total_bytes' \in Nat
    BY <1>3, <1>6 DEF length_received, Ordered, TypeOK
  <2>3. TypeOK'
    BY <1>4, <1>6, <2>1, <2>2, SMTT(60) DEF length_received, Ordered, TypeOK
  <2>4. QED
    BY <1>4, <2>1, <2>3 DEF Ordered, HeadRead, HeadPassed, FreshAtHead, Reading
<1>7. CASE chunks_received
  <2>1. TypeOK'
    BY <1>4, <1>5, <1>7, SMTT(60) DEF chunks_received, Ordered, TypeOK
  <2>2. QED
    BY <1>4, <1>7, <2>1 DEF chunks_received, Ordered, HeadRead, HeadPassed, FreshAtHead, Reading
<1>8. QED
  BY <1>6, <1>7

LEMMA DecodeKeepsOrdered ==
  ASSUME SizesAreNumbers, Ordered,
         decode_waits \/ decode_empty_line \/ decode_size \/ decode_data
  PROVE  Ordered'
<1> USE DEF headVars, chunkVars, statusVars, peerVars, decoderFrame
<1>1. /\ Input \in Seq(Char) /\ part \in Seq(Char) /\ accumulator \in Seq(Char)
      /\ body \in Seq(Char)
  BY DEF Ordered, TypeOK, Input
<1>2. HasLine(Input) => LineOf(Input) \in Seq(Char) /\ AfterLine(Input) \in Seq(Char)
  BY <1>1, LineProperties
<1>3. pc = "decode" /\ pc' \in {"decode", "chunks"}
  BY DEF decode_waits, decode_empty_line, decode_size, decode_data
<1>4. HeadRead' /\ HeadPassed' /\ FreshAtHead'
  BY <1>3 DEF decode_waits, decode_empty_line, decode_size, decode_data, Ordered, HeadRead,
    HeadPassed, FreshAtHead, Reading
<1>5. part' \in Seq(Char) /\ accumulator' \in Seq(Char)
  <2>1. CASE UNCHANGED <<part, accumulator>>
    BY <1>1, <2>1
  <2>2. CASE HasLine(Input) /\ \E rest \in {<<>>, AfterLine(Input)} : Consume(rest)
    BY <1>1, <1>2, <2>2, EmptySeq DEF Consume
  <2>3. QED
    BY <2>1, <2>2, Zenon DEF decode_waits, decode_empty_line, decode_size, decode_data
<1>6. body' \in Seq(Char)
  <2>1. \/ body' = body
        \/ HasLine(Input) /\ body' = body \o LineOf(Input)
    BY Zenon DEF decode_waits, decode_empty_line, decode_size, decode_data
  <2>2. QED
    BY <1>1, <1>2, <2>1, ConcatOfSeq
<1>7. expected' \in Nat \cup {-1}
  <2>1. \/ expected' = expected
        \/ HasLine(Input) /\ expected' = ChunkSize(LineOf(Input))
    BY Zenon DEF decode_waits, decode_empty_line, decode_size, decode_data
  <2>2. HasLine(Input) => ChunkSize(LineOf(Input)) \in Nat
    BY <1>2, Zenon DEF SizesAreNumbers
  <2>3. QED
    BY <2>1, <2>2 DEF Ordered, TypeOK
<1>8. /\ odd_line' \in BOOLEAN /\ fully_parsed' \in BOOLEAN /\ error' \in BOOLEAN
  BY Zenon DEF decode_waits, decode_empty_line, decode_size, decode_data, Ordered, TypeOK
<1>9. status_code' \in {200, 400, 405, 505}
  <2>1. status_code' = status_code \/ status_code' = 400
    BY Zenon DEF decode_waits, decode_empty_line, decode_size, decode_data
  <2>2. QED
    BY <2>1 DEF Ordered, TypeOK
<1>10. UNCHANGED <<calls, text, total_bytes, decoding, code, headVars, peerVars, received>>
  BY DEF decode_waits, decode_empty_line, decode_size, decode_data
<1>11. TypeOK'
  BY <1>3, <1>5, <1>6, <1>7, <1>8, <1>9, <1>10, SMTT(60) DEF Ordered, TypeOK
<1>12. QED
  BY <1>4, <1>11 DEF Ordered

LEMMA QuietKeepsOrdered ==
  ASSUME Ordered,
         length_ends \/ chunks_begin \/ peer_sends \/ peer_closes \/ UNCHANGED vars
  PROVE  Ordered'
<1> USE DEF headVars, chunkVars, statusVars, peerVars, localVars
<1>1. CASE length_ends \/ chunks_begin
  <2>1. TypeOK'
    BY <1>1, SMTT(60) DEF length_ends, chunks_begin, Ordered, TypeOK
  <2>2. QED
    BY <1>1, <2>1 DEF length_ends, chunks_begin, Ordered, HeadRead, HeadPassed, FreshAtHead,
      Reading
<1>2. CASE peer_sends
  <2>1. arrived' \in 0 .. Len(Wire(stream)) /\ received \in 0 .. arrived'
    <3> DEFINE w == Len(Wire(stream))
    <3>1. w \in Nat /\ arrived < w
      BY <1>2, StreamTypes, WireProperties, LenProperties DEF peer_sends, Ordered
    <3>2. arrived' = arrived + 1 /\ arrived \in 0 .. w /\ received \in 0 .. arrived
      BY <1>2 DEF peer_sends, Ordered, TypeOK
    <3> HIDE DEF w
    <3>3. arrived' \in 0 .. w /\ received \in 0 .. arrived'
      BY <3>1, <3>2
    <3>4. QED
      BY <3>3 DEF w
  <2>2. TypeOK'
    BY <1>2, <2>1, SMTT(60) DEF peer_sends, Ordered, TypeOK
  <2>3. QED
    BY <1>2, <2>2 DEF peer_sends, Ordered, HeadRead, HeadPassed, FreshAtHead
<1>3. CASE peer_closes
  <2>1. TypeOK'
    BY <1>3, SMTT(60) DEF peer_closes, Ordered, TypeOK
  <2>2. QED
    BY <1>3, <2>1 DEF peer_closes, Ordered, HeadRead, HeadPassed, FreshAtHead
<1>4. CASE UNCHANGED vars
  BY <1>4 DEF vars, Ordered, TypeOK, HeadRead, HeadPassed, FreshAtHead
<1>5. QED
  BY <1>1, <1>2, <1>3, <1>4

LEMMA StepOrdered == SizesAreNumbers /\ Ordered /\ [Next]_vars => Ordered'
BY CallKeepsOrdered, HeadReceivedKeepsOrdered, ReturnKeepsOrdered, HeadEndsKeepsOrdered,
  BodyReceivedKeepsOrdered, DecodeKeepsOrdered, QuietKeepsOrdered DEF Next, Reader

-----------------------------------------------------------------------------
(* The body of an announced length.                                        *)

LEMMA HeadEndsKeepsLength ==
  ASSUME Ordered, head_ends PROVE LengthRead'
<1> SUFFICES ASSUME ByLength', HasNoNUL(stream.body)'
             PROVE  /\ pc' \in {"length", "framing", "returned"}
                    /\ Begins(body', stream'.body)
                    /\ pc' = "length" => total_bytes' = Len(body') /\ received' = HeadLen + Len(body')
                    /\ Len(body') > content_length' => body' = part'
                    /\ pc' = "framing" => Len(body') >= content_length'
                    /\ (pc' = "returned" /\ code' = 200) => Len(body') >= content_length'
                    /\ (pc' = "returned" /\ code' = 413) => Len(stream'.body) > content_length'
  BY DEF LengthRead
<1>1. length_begins /\ part' = body_part /\ UNCHANGED <<stream, received>>
  BY DEF ByLength, head_ends, peerVars
<1>2. /\ body_part \in Seq(Char) /\ HeadLen + Len(body_part) = Len(text)
      /\ Begins(body_part, stream.body)
  BY BodyPart DEF Ordered, head_ends
<1>3. body = <<>> /\ received = Len(text)
  BY <1>1 DEF Ordered, FreshAtHead, HeadRead, head_ends
<1>4. body' = body_part
  BY <1>1, <1>2, <1>3, ConcatEmptySeq DEF length_begins
<1>5. pc' = "length" /\ total_bytes' = Len(body_part)
  BY <1>1 DEF length_begins
<1>6. QED
  BY <1>1, <1>2, <1>3, <1>4, <1>5

LEMMA LengthReceivedKeepsLength ==
  ASSUME Ordered, LengthRead, length_received PROVE LengthRead'
<1>1. UNCHANGED <<has_body, content_length, chunked, stream, part>> /\ pc = "length"
      /\ total_bytes < content_length
  BY DEF length_received, headVars, peerVars, InLength
<1> SUFFICES ASSUME ByLength, HasNoNUL(stream.body) PROVE LengthRead'
  BY <1>1 DEF ByLength, LengthRead
<1> DEFINE m == Len(body)
<1> DEFINE n == Len(Piece)
<1>2. /\ body \in Seq(Char) /\ m \in Nat /\ Begins(body, stream.body)
      /\ total_bytes = m /\ received = HeadLen + m
  BY <1>1, LenProperties DEF LengthRead, Ordered, TypeOK
<1>3. Arrived /\ received' = received + n /\ total_bytes' = m + n
  BY <1>2 DEF length_received, Take
<1>4. HeadLen <= received /\ received - HeadLen = m
  <2> HIDE DEF m
  <2>1. QED
    BY <1>2, SizesAssumption
<1>5. /\ Piece \in Seq(Char) /\ n \in Nat /\ m + n <= Len(stream.body)
      /\ \A k \in 1 .. n : Piece[k] = stream.body[m + k]
  BY <1>3, <1>4, BodyPiece DEF Ordered
<1>6. content_length \in Nat /\ Len(stream.body) \in Nat
  BY StreamTypes DEF Ordered, TypeOK
<1>7. CASE m + n > content_length
  <2>1. pc' = "returned" /\ code' = 413 /\ UNCHANGED body
    BY <1>3, <1>7, Zenon DEF length_received, return
  <2>2. Len(stream.body) > content_length
    <3> DEFINE b == Len(stream.body)
    <3> HIDE DEF m, n, b
    <3>1. QED
      BY <1>2, <1>5, <1>6, <1>7 DEF b
  <2>3. ~(m > content_length)
    <3> HIDE DEF m
    <3>1. QED
      BY <1>1, <1>2, <1>6
  <2>4. QED
    BY <1>1, <1>2, <2>1, <2>2, <2>3 DEF LengthRead, ByLength
<1>8. CASE ~(m + n > content_length)
  <2>1. body' = body \o Piece /\ UNCHANGED pc
    BY <1>3, <1>8, Zenon DEF length_received
  <2> DEFINE c == body \o Piece
  <2>2. /\ c \in Seq(Char) /\ Len(c) = m + n
        /\ \A i \in 1 .. m : c[i] = body[i]
        /\ \A i \in 1 .. n : c[m + i] = Piece[i]
    BY <1>2, <1>5, ConcatOfSeq
  <2>3. Begins(c, stream.body)
    <3>1. \A i \in 1 .. m : body[i] = stream.body[i]
      BY <1>2 DEF Begins
    <3> HIDE DEF c, m, n
    <3>2. ASSUME NEW i \in 1 .. m + n PROVE c[i] = stream.body[i]
      <4>1. CASE i <= m
        BY <1>2, <2>2, <3>1, <4>1
      <4>2. CASE ~(i <= m)
        <5>1. i - m \in 1 .. n /\ m + (i - m) = i
          BY <1>2, <1>5, <4>2
        <5>2. QED
          BY <1>5, <2>2, <5>1
      <4>3. QED
        BY <4>1, <4>2
    <3>3. QED
      BY <1>5, <2>2, <3>2 DEF Begins
  <2>4. received' = HeadLen + (m + n)
    <3> HIDE DEF m, n
    <3>1. QED
      BY <1>2, <1>3, <1>5, SizesAssumption
  <2>5. QED
    BY <1>1, <1>3, <1>8, <2>1, <2>2, <2>3, <2>4 DEF LengthRead, ByLength
<1>9. QED
  BY <1>7, <1>8

LEMMA StepLengthRead == Ordered /\ LengthRead /\ [Next]_vars => LengthRead'
<1> SUFFICES ASSUME Ordered, LengthRead, [Next]_vars PROVE LengthRead'
  OBVIOUS
<1> USE DEF headVars, chunkVars, statusVars, peerVars, localVars
<1>1. CASE read_request
  BY <1>1 DEF read_request, init_request, LengthRead, ByLength
<1>2. CASE head_received \/ head_closed \/ head_times_out \/ head_fails
  BY <1>2 DEF head_received, head_closed, head_times_out, head_fails, give_up, AtHead,
    Ordered, FreshAtHead, LengthRead, ByLength
<1>3. CASE head_ends
  BY <1>3, HeadEndsKeepsLength
<1>4. CASE length_received
  BY <1>4, LengthReceivedKeepsLength
<1>5. CASE length_closed \/ length_fails
  <2>1. /\ pc = "length" /\ pc' = "returned" /\ code' \notin {200, 413}
        /\ UNCHANGED <<headVars, stream, body, part, total_bytes, received>>
    BY <1>5 DEF length_closed, length_fails, give_up, return, InLength
  <2>2. QED
    BY <2>1 DEF LengthRead, ByLength
<1>6. CASE length_ends
  <2>1. /\ pc = "length" /\ pc' = "framing" /\ total_bytes >= content_length
        /\ UNCHANGED <<headVars, stream, body, part, received, code>>
    BY <1>6 DEF length_ends
  <2>2. QED
    BY <2>1 DEF LengthRead, ByLength
<1>7. CASE not_chunked
  <2>1. /\ pc = "framing" /\ pc' = "returned" /\ code' \in {200, 400, 405, 505}
        /\ UNCHANGED <<headVars, stream, body, part, received>>
    BY <1>7 DEF not_chunked, finish, return, Ordered, TypeOK
  <2>2. QED
    BY <2>1 DEF LengthRead, ByLength
<1>8. CASE chunks_begin \/ decode_waits \/ decode_empty_line \/ decode_size \/ decode_data
           \/ chunks_received \/ chunks_break \/ chunks_break_on_NUL \/ chunks_end
  <2>1. UNCHANGED <<headVars, stream>>
    BY <1>8 DEF chunks_begin, decode_waits, decode_empty_line, decode_size, decode_data,
      chunks_received, chunks_break, chunks_break_on_NUL, chunks_end, finish, decoderFrame
  <2>2. pc \in {"decode", "chunks"} \/ chunked
    BY <1>8 DEF chunks_begin, decode_waits, decode_empty_line, decode_size, decode_data,
      chunks_received, chunks_break, chunks_break_on_NUL, chunks_end, InChunks
  <2>3. QED
    BY <2>1, <2>2 DEF LengthRead, ByLength
<1>9. CASE peer_sends \/ peer_closes \/ UNCHANGED vars
  BY <1>9 DEF peer_sends, peer_closes, vars, LengthRead, ByLength
<1>10. QED
  BY <1>1, <1>2, <1>3, <1>4, <1>5, <1>6, <1>7, <1>8, <1>9 DEF Next, Reader

-----------------------------------------------------------------------------
LEMMA StepIInv == SizesAreNumbers /\ IInv /\ [Next]_vars => IInv'
BY StepOrdered, StepErrorReturned, StepLengthRead DEF IInv

(* IInv holds in every reachable state.                                    *)
THEOREM Inductive ==
  ASSUME SizesAreNumbers PROVE Spec => []IInv
BY InitIInv, StepIInv, PTL DEF Spec

(* The variables keep their types, and nothing is taken from the stream    *)
(* that has not arrived.                                                   *)
THEOREM TypeCorrect ==
  ASSUME SizesAreNumbers PROVE Spec => []TypeOK
<1>1. IInv => TypeOK
  BY DEF IInv, Ordered
<1>2. QED
  BY <1>1, Inductive, PTL

(* Whatever way read_request comes back, _error and the code it returns    *)
(* agree.                                                                  *)
THEOREM ErrorCorrect == Spec => []ErrorReturned
<1>1. Init => StatusAgrees /\ ErrorReturned
  BY InitIInv DEF IInv
<1>2. QED
  BY <1>1, StepErrorReturned, PTL DEF Spec

(* A body of an announced length is what the peer sent, however it was cut *)
(* up, and complete when 200 is returned.                                  *)
THEOREM LengthCorrect ==
  ASSUME SizesAreNumbers PROVE Spec => []LengthKept
<1>1. IInv => LengthKept
  <2> SUFFICES ASSUME IInv, ByLength, HasNoNUL(stream.body)
               PROVE  /\ IsPrefix(body, stream.body)
                      /\ Len(body) > content_length => body = part
                      /\ (pc = "returned" /\ code = 200) => Len(body) >= content_length
                      /\ (pc = "returned" /\ code = 413) => Len(stream.body) > content_length
    BY Zenon DEF LengthKept
  <2>1. Begins(body, stream.body) /\ body \in Seq(Char) /\ stream.body \in Seq(Char)
    BY StreamTypes DEF IInv, Ordered, TypeOK, LengthRead
  <2>2. IsPrefix(body, stream.body)
    <3> DEFINE b == stream.body
    <3> DEFINE n == Len(body)
    <3>1. n \in Nat /\ n <= Len(b) /\ \A k \in 1 .. n : body[k] = b[k]
      BY <2>1, LenProperties DEF Begins
    <3> DEFINE p == SubSeq(b, 0 + 1, 0 + n)
    <3>2. p \in Seq(Char) /\ Len(p) = n /\ \A k \in 1 .. n : p[k] = b[0 + k]
      <4> HIDE DEF n, b
      <4>1. QED
        BY <2>1, <3>1, SubSeqOfSeq DEF b
    <3>3. 0 + n = n /\ 0 + 1 = 1 /\ \A k \in 1 .. n : 0 + k = k
      <4> HIDE DEF n
      <4>1. QED
        BY <3>1
    <3> HIDE DEF p
    <3>4. p = body
      <4>1. \A k \in 1 .. n : p[k] = body[k]
        BY <3>1, <3>2, <3>3
      <4>2. QED
        BY <2>1, <3>2, <4>1, SeqEqual
    <3>5. SubSeq(body, 1, n) = body
      BY <2>1, SubSeqFull
    <3>6. QED
      BY <3>1, <3>3, <3>4, <3>5 DEF IsPrefix, p
  <2>3. QED
    BY <2>2 DEF IInv, LengthRead
<1>2. QED
  BY <1>1, Inductive, PTL

-----------------------------------------------------------------------------
(* A body in chunks, as data.  LengthOf counts the places of the first k   *)
(* parts: the pairs of a part's number and a place in it.                  *)

Places(parts, k) == UNION {{j} \X (1 .. Len(parts[j])) : j \in 1 .. k}

LEMMA PlacesNext ==
  ASSUME NEW parts, NEW k \in Nat
  PROVE  /\ Places(parts, k + 1) = Places(parts, k) \cup ({k + 1} \X (1 .. Len(parts[k + 1])))
         /\ Places(parts, k) \cap ({k + 1} \X (1 .. Len(parts[k + 1]))) = {}
         /\ Places(parts, k) \subseteq Places(parts, k + 1)
<1> DEFINE m == k + 1
<1>1. \A j : j \in 1 .. m <=> j \in 1 .. k \/ j = m
  OBVIOUS
<1>2. m \notin 1 .. k
  OBVIOUS
<1> HIDE DEF m
<1> DEFINE P(j) == {j} \X (1 .. Len(parts[j]))
<1>3. Places(parts, m) = Places(parts, k) \cup P(m)
  BY <1>1 DEF Places
<1>4. \A j : j # m => P(j) \cap P(m) = {}
  OBVIOUS
<1>5. Places(parts, k) \cap P(m) = {}
  BY <1>2, <1>4 DEF Places
<1>6. QED
  BY <1>3, <1>5 DEF m

LEMMA PlacesFinite ==
  ASSUME NEW S, NEW parts \in Seq(Seq(S)), NEW k \in 0 .. Len(parts)
  PROVE  IsFiniteSet(Places(parts, k))
<1> DEFINE L == Len(parts)
<1> DEFINE Bad == {j \in 0 .. L : ~IsFiniteSet(Places(parts, j))}
<1>1. L \in Nat
  BY LenProperties
<1>2. ASSUME Bad # {} PROVE FALSE
  <2>1. Bad \subseteq Nat
    <3>1. Bad \subseteq 0 .. L
      OBVIOUS
    <3> HIDE DEF Bad, L
    <3>2. QED
      BY <1>1, <3>1
  <2>2. PICK x \in Bad : \A y \in Bad : x <= y
    BY <1>2, <2>1, LeastNatural
  <2>3. x \in 0 .. L /\ ~IsFiniteSet(Places(parts, x))
    BY <2>2
  <2>4. x # 0
    <3>1. Places(parts, 0) = {}
      BY DEF Places
    <3>2. QED
      BY <2>3, <3>1, FS_EmptySet
  <2> DEFINE j == x - 1
  <2>5. j \in Nat /\ j + 1 = x /\ j \in 0 .. L /\ ~(x <= j) /\ x \in 1 .. L
    <3> HIDE DEF L, Bad
    <3>1. QED
      BY <1>1, <2>3, <2>4
  <2>6. IsFiniteSet(Places(parts, j))
    <3>1. j \notin Bad
      BY <2>2, <2>5
    <3> HIDE DEF j
    <3>2. QED
      BY <2>5, <3>1
  <2> HIDE DEF j, Bad
  <2> DEFINE n == Len(parts[x])
  <2>7. n \in Nat
    <3>1. parts[x] \in Seq(S)
      BY <2>5, ElementOfSeq
    <3>2. QED
      BY <3>1, LenProperties
  <2> HIDE DEF n
  <2>8. IsFiniteSet(1 .. n)
    BY <2>7, FS_Interval
  <2>9. IsFiniteSet({x} \X (1 .. n))
    BY <2>8, FS_Product, FS_Singleton
  <2>10. Places(parts, x) = Places(parts, j) \cup ({x} \X (1 .. n))
    BY <2>5, PlacesNext DEF n
  <2>11. IsFiniteSet(Places(parts, j) \cup ({x} \X (1 .. n)))
    BY <2>6, <2>9, FS_Union
  <2>12. QED
    BY <2>3, <2>10, <2>11
<1>3. k \in 0 .. L
  OBVIOUS
<1> HIDE DEF L
<1>4. QED
  BY <1>2, <1>3

(* One part more, which lies behind the ones before it.                    *)
LEMMA LengthOfNext ==
  ASSUME NEW S, NEW parts \in Seq(Seq(S)), NEW k \in Nat, k < Len(parts)
  PROVE  /\ LengthOf(parts, k) \in Nat /\ LengthOf(parts, k + 1) \in Nat
         /\ parts[k + 1] \in Seq(S) /\ Len(parts[k + 1]) \in Nat
         /\ LengthOf(parts, k + 1) = LengthOf(parts, k) + Len(parts[k + 1])
<1> DEFINE L == Len(parts)
<1> DEFINE m == k + 1
<1> DEFINE n == Len(parts[m])
<1>1. L \in Nat /\ k < L
  BY LenProperties
<1> HIDE DEF L
<1>2. k \in 0 .. L /\ m \in 0 .. L /\ m \in 1 .. L
  BY <1>1
<1>3. IsFiniteSet(Places(parts, k)) /\ IsFiniteSet(Places(parts, m))
  <2> HIDE DEF m
  <2>1. QED
    BY <1>2, PlacesFinite DEF L
<1>4. parts[m] \in Seq(S) /\ n \in Nat
  <2> HIDE DEF m
  <2>1. parts[m] \in Seq(S)
    BY <1>2, ElementOfSeq DEF L
  <2>2. QED
    BY <2>1, LenProperties
<1>5. /\ Places(parts, m) = Places(parts, k) \cup ({m} \X (1 .. n))
      /\ Places(parts, k) \cap ({m} \X (1 .. n)) = {}
  BY PlacesNext
<1> HIDE DEF m, n
<1>6. IsFiniteSet({m} \X (1 .. n)) /\ Cardinality({m} \X (1 .. n)) = n
  <2>1. IsFiniteSet(1 .. n) /\ Cardinality(1 .. n) = n
    <3>1. IsFiniteSet(1 .. n) /\ Cardinality(1 .. n) = IF 1 > n THEN 0 ELSE n - 1 + 1
      <4>1. 1 \in Int /\ n \in Int
        BY <1>4
      <4>2. QED
        BY <4>1, FS_Interval, Zenon
    <3>2. QED
      BY <1>4, <3>1
  <2>2. Cardinality({m}) = 1 /\ IsFiniteSet({m})
    BY FS_Singleton
  <2>3. Cardinality({m} \X (1 .. n)) = 1 * n
    BY <2>1, <2>2, FS_Product
  <2>4. QED
    BY <1>4, <2>1, <2>2, <2>3, FS_Product
<1>7. /\ Cardinality(Places(parts, k)) \in Nat
      /\ Cardinality(Places(parts, m)) \in Nat
  BY <1>3, FS_CardinalityType
<1>8. Cardinality(Places(parts, m)) = Cardinality(Places(parts, k)) + n
  <2>1. Cardinality(Places(parts, m)) = Cardinality(Places(parts, k)) + n - Cardinality({})
    BY <1>3, <1>5, <1>6, FS_Union
  <2>2. QED
    BY <1>4, <1>7, <2>1, FS_EmptySet
<1>9. LengthOf(parts, k) = Cardinality(Places(parts, k)) /\ LengthOf(parts, m) = Cardinality(Places(parts, m))
  BY DEF LengthOf, Places
<1>10. QED
  BY <1>4, <1>7, <1>8, <1>9 DEF m, n

LEMMA LengthOfNone ==
  ASSUME NEW parts
  PROVE  LengthOf(parts, 0) = 0
<1>1. UNION {{j} \X (1 .. Len(parts[j])) : j \in 1 .. 0} = {}
  OBVIOUS
<1>2. QED
  BY <1>1, FS_EmptySet DEF LengthOf

LEMMA LengthOfGrows ==
  ASSUME NEW S, NEW parts \in Seq(Seq(S)), NEW k \in 0 .. Len(parts), NEW j \in 0 .. k
  PROVE  /\ LengthOf(parts, j) \in Nat /\ LengthOf(parts, k) \in Nat
         /\ LengthOf(parts, j) <= LengthOf(parts, k)
<1> DEFINE L == Len(parts)
<1>1. L \in Nat /\ k \in 0 .. L
  BY LenProperties
<1> HIDE DEF L
<1>2. 1 .. j \subseteq 1 .. k /\ j \in 0 .. L
  BY <1>1
<1>3. Places(parts, j) \subseteq Places(parts, k)
  BY <1>2 DEF Places
<1>4. IsFiniteSet(Places(parts, k)) /\ IsFiniteSet(Places(parts, j))
  BY <1>1, <1>2, PlacesFinite DEF L
<1>5. Cardinality(Places(parts, j)) <= Cardinality(Places(parts, k))
  BY <1>3, <1>4, FS_Subset
<1>6. Cardinality(Places(parts, k)) \in Nat /\ Cardinality(Places(parts, j)) \in Nat
  BY <1>4, FS_CardinalityType
<1>7. QED
  BY <1>5, <1>6 DEF LengthOf, Places

(* Where a part lies in the parts put together; and that is all there is   *)
(* to being put together.                                                  *)
LEMMA PartOf ==
  ASSUME NEW S, NEW s \in Seq(S), NEW parts \in Seq(Seq(S)), IsJoined(s, parts),
         NEW k \in Nat, k < Len(parts)
  PROVE  /\ LengthOf(parts, k + 1) <= Len(s)
         /\ \A i \in 1 .. Len(parts[k + 1]) : s[LengthOf(parts, k) + i] = parts[k + 1][i]
<1> DEFINE L == Len(parts)
<1> DEFINE m == k + 1
<1> DEFINE c == LengthOf(parts, k)
<1> DEFINE n == Len(parts[m])
<1>1. L \in Nat /\ k < L /\ Len(s) = LengthOf(parts, L)
  BY LenProperties DEF IsJoined
<1>2. c \in Nat /\ n \in Nat /\ LengthOf(parts, m) = c + n
  BY LengthOfNext
<1>3. m \in 1 .. L /\ m - 1 = k /\ m \in 0 .. L /\ L \in 0 .. L
  <2> HIDE DEF L
  <2>1. QED
    BY <1>1
<1>4. parts[m] = SubSeq(s, LengthOf(parts, m - 1) + 1, LengthOf(parts, m))
  <2> HIDE DEF m
  <2>1. QED
    BY <1>3 DEF IsJoined
<1> HIDE DEF m, L
<1>5. LengthOf(parts, m) <= LengthOf(parts, L)
  BY <1>3, LengthOfGrows DEF L
<1>6. parts[m] = SubSeq(s, c + 1, c + n) /\ c + n <= Len(s)
  BY <1>1, <1>2, <1>3, <1>4, <1>5
<1> HIDE DEF c, n
<1>7. \A i \in 1 .. n : SubSeq(s, c + 1, c + n)[i] = s[c + i]
  BY <1>2, <1>6, SubSeqOfSeq
<1>8. \A i \in 1 .. n : s[c + i] = parts[m][i]
  BY <1>6, <1>7
<1>9. QED
  BY <1>1, <1>5, <1>8 DEF m, c, n

LEMMA JoinedIf ==
  ASSUME NEW S, NEW s \in Seq(S), NEW parts \in Seq(Seq(S)),
         Len(s) = LengthOf(parts, Len(parts)),
         \A k \in 1 .. Len(parts) : \A i \in 1 .. Len(parts[k]) :
           s[LengthOf(parts, k - 1) + i] = parts[k][i]
  PROVE  IsJoined(s, parts)
<1> DEFINE L == Len(parts)
<1> SUFFICES ASSUME NEW m \in 1 .. L
             PROVE  parts[m] = SubSeq(s, LengthOf(parts, m - 1) + 1, LengthOf(parts, m))
  BY DEF IsJoined
<1> DEFINE k == m - 1
<1> DEFINE c == LengthOf(parts, k)
<1> DEFINE n == Len(parts[m])
<1>1. L \in Nat /\ m \in 1 .. L /\ \A i \in 1 .. n : s[c + i] = parts[m][i]
  BY LenProperties
<1>2. k \in Nat /\ k < L /\ m = k + 1 /\ m \in 0 .. L /\ L \in 0 .. L
  <2> HIDE DEF L
  <2>1. QED
    BY <1>1
<1> HIDE DEF k
<1>3. /\ c \in Nat /\ n \in Nat /\ LengthOf(parts, m) = c + n /\ parts[m] \in Seq(S)
  BY <1>2, LengthOfNext DEF L
<1> HIDE DEF L
<1>4. LengthOf(parts, m) <= LengthOf(parts, L)
  BY <1>2, LengthOfGrows DEF L
<1> HIDE DEF c, n
<1>5. c + n <= Len(s)
  BY <1>3, <1>4 DEF L
<1> DEFINE p == SubSeq(s, c + 1, c + n)
<1>6. p \in Seq(S) /\ Len(p) = n /\ \A i \in 1 .. n : p[i] = s[c + i]
  BY <1>3, <1>5, SubSeqOfSeq
<1> HIDE DEF p
<1>7. \A i \in 1 .. Len(p) : p[i] = parts[m][i]
  BY <1>1, <1>6
<1>8. p = parts[m]
  BY <1>3, <1>6, <1>7, SeqEqual DEF n
<1>9. QED
  BY <1>3, <1>8 DEF p, c, k

(* If a line comes next in the stream, it is the one found first.          *)
LEMMA NextLine ==
  ASSUME NEW b \in Seq(Char), NEW c \in Nat, NEW x \in Seq(Char), ~HasLine(x),
         \A i \in 1 .. Len(x) : b[c + i] = x[i],
         b[c + Len(x) + 1] = CR, b[c + Len(x) + 2] = LF,
         NEW in \in Seq(Char), \A i \in 1 .. Len(in) : in[i] = b[c + i], HasLine(in)
  PROVE  /\ LineOf(in) = x /\ AfterLine(in) \in Seq(Char)
         /\ Len(x) + 2 + Len(AfterLine(in)) = Len(in)
         /\ \A i \in 1 .. Len(AfterLine(in)) : AfterLine(in)[i] = b[c + Len(x) + 2 + i]
<1> DEFINE L == Len(in)
<1> DEFINE n == Len(x)
<1> DEFINE e == LineEnd(in)
<1>1. L \in Nat /\ n \in Nat
  BY LenProperties
<1>2. /\ e \in 1 .. L - 1 /\ in[e] = CR /\ in[e + 1] = LF
      /\ \A j \in 1 .. e - 1 : ~(in[j] = CR /\ in[j + 1] = LF)
  BY LineEndProperties
<1>3. /\ \A i \in 1 .. n : b[c + i] = x[i]
      /\ \A i \in 1 .. L : in[i] = b[c + i]
      /\ b[c + n + 1] = CR /\ b[c + n + 2] = LF
      /\ \A k \in 1 .. n - 1 : ~(x[k] = CR /\ x[k + 1] = LF)
  BY DEF HasLine
<1> HIDE DEF L, n, e
<1>4. c + (n + 1) = c + n + 1 /\ c + (n + 2) = c + n + 2
  BY <1>1
<1>5. e = n + 1
  <2>1. CASE e < n
    <3> DEFINE f == e + 1
    <3>1. e \in 1 .. n /\ f \in 1 .. n /\ e \in 1 .. L /\ f \in 1 .. L /\ e \in 1 .. n - 1
      BY <1>1, <1>2, <2>1
    <3> HIDE DEF f
    <3>2. x[e] = CR /\ x[f] = LF
      BY <1>2, <1>3, <3>1 DEF f
    <3>3. QED
      BY <1>3, <3>1, <3>2 DEF f
  <2>2. CASE e = n
    <3> DEFINE f == e + 1
    <3>1. f \in 1 .. L /\ c + f = c + n + 1
      <4>1. e \in Nat /\ e <= L - 1
        BY <1>1, <1>2
      <4>2. f \in 1 .. L
        BY <1>1, <4>1
      <4>3. QED
        BY <1>1, <2>2, <4>2
    <3>2. in[f] = LF
      BY <1>2
    <3> HIDE DEF f
    <3>3. QED
      BY <1>3, <3>1, <3>2, CharAssumption
  <2>3. CASE e > n + 1
    <3> DEFINE j == n + 1
    <3> DEFINE f == j + 1
    <3>1. j \in 1 .. e - 1 /\ j \in 1 .. L /\ f \in 1 .. L /\ c + j = c + n + 1 /\ c + f = c + n + 2
      BY <1>1, <1>2, <2>3
    <3> HIDE DEF f
    <3>2. in[f] = LF
      BY <1>3, <3>1
    <3> HIDE DEF j
    <3>3. in[j] = CR
      BY <1>3, <3>1
    <3>4. QED
      BY <1>2, <3>1, <3>2, <3>3 DEF f
  <2>4. e \in Nat
    BY <1>1, <1>2
  <2>5. QED
    BY <1>1, <2>1, <2>2, <2>3, <2>4
<1>6. n + 2 <= L
  BY <1>1, <1>2, <1>5
<1>7. LineOf(in) = x
  <2> DEFINE z == 0
  <2>1. z \in Nat /\ z + n <= L /\ z + 1 = 1 /\ z + n = e - 1
    BY <1>1, <1>5, <1>6
  <2>2. \A i \in 1 .. n : z + i = i
    BY <1>1
  <2> HIDE DEF z
  <2> DEFINE p == SubSeq(in, z + 1, z + n)
  <2>3. p \in Seq(Char) /\ Len(p) = n /\ \A i \in 1 .. n : p[i] = in[z + i]
    BY <1>1, <2>1, SubSeqOfSeq DEF L
  <2>4. LineOf(in) = p
    BY <2>1 DEF LineOf, e
  <2> HIDE DEF p
  <2>5. \A i \in 1 .. n : p[i] = x[i]
    <3>1. TAKE i \in 1 .. n
    <3>2. i \in 1 .. L
      BY <1>1, <1>6
    <3>3. p[i] = in[i]
      BY <2>2, <2>3
    <3>4. in[i] = b[c + i]
      BY <1>3, <3>2
    <3>5. QED
      BY <1>3, <3>3, <3>4
  <2>6. p = x
    BY <2>3, <2>5, SeqEqual DEF n
  <2>7. QED
    BY <2>4, <2>6
<1>8. /\ AfterLine(in) \in Seq(Char) /\ Len(AfterLine(in)) = L - (n + 2)
      /\ \A i \in 1 .. L - (n + 2) : AfterLine(in)[i] = in[n + 2 + i]
  <2> DEFINE m == n + 2
  <2> DEFINE q == L - m
  <2>1. m \in Nat /\ q \in Nat /\ m + q <= L /\ m + q = L /\ m + 1 = e + 2
    BY <1>1, <1>5, <1>6
  <2>2. AfterLine(in) = SubSeq(in, m + 1, m + q)
    BY <2>1 DEF AfterLine, e, L
  <2> HIDE DEF m, q
  <2>3. /\ SubSeq(in, m + 1, m + q) \in Seq(Char) /\ Len(SubSeq(in, m + 1, m + q)) = q
        /\ \A i \in 1 .. q : SubSeq(in, m + 1, m + q)[i] = in[m + i]
    BY <2>1, SubSeqOfSeq DEF L
  <2>4. QED
    BY <2>2, <2>3 DEF m, q
<1> DEFINE after == AfterLine(in)
<1>9. Len(after) = L - (n + 2) /\ after \in Seq(Char)
  BY <1>8
<1> HIDE DEF after
<1>10. n + 2 + Len(after) = L
  BY <1>1, <1>6, <1>9
<1>11. \A i \in 1 .. Len(after) : after[i] = b[c + n + 2 + i]
  <2> SUFFICES ASSUME NEW i \in 1 .. Len(after) PROVE after[i] = b[c + n + 2 + i]
    OBVIOUS
  <2> DEFINE j == n + 2 + i
  <2>1. i \in 1 .. L - (n + 2) /\ j \in 1 .. L /\ c + j = c + n + 2 + i
    BY <1>1, <1>6, <1>9
  <2>2. after[i] = in[j]
    BY <1>8, <2>1 DEF after
  <2> HIDE DEF j
  <2>3. in[j] = b[c + j]
    BY <1>3, <2>1
  <2>4. QED
    BY <2>1, <2>2, <2>3
<1>12. QED
  BY <1>7, <1>9, <1>10, <1>11 DEF after, n, L

(* b is the first k chunks, one after the other.                           *)
Collected(b, chunks, k) ==
  /\ Len(b) = LengthOf(chunks, k)
  /\ \A j \in 1 .. k : \A i \in 1 .. Len(chunks[j]) :
       b[LengthOf(chunks, j - 1) + i] = chunks[j][i]

LEMMA CollectedNone ==
  ASSUME NEW chunks PROVE Collected(<<>>, chunks, 0)
BY LengthOfNone, EmptySeq DEF Collected

LEMMA CollectedNext ==
  ASSUME NEW b \in Seq(Char), NEW chunks \in Seq(Seq(Char)), NEW k \in Nat, k < Len(chunks),
         Collected(b, chunks, k)
  PROVE  Collected(b \o chunks[k + 1], chunks, k + 1)
<1> DEFINE L == Len(chunks)
<1> DEFINE m == k + 1
<1> DEFINE c == LengthOf(chunks, k)
<1> DEFINE x == chunks[m]
<1> DEFINE s == b \o x
<1>1. L \in Nat /\ k < L /\ Len(b) = c
  BY LenProperties DEF Collected
<1>2. c \in Nat /\ x \in Seq(Char) /\ Len(x) \in Nat /\ LengthOf(chunks, m) = c + Len(x)
  BY LengthOfNext
<1>3. m \in Nat /\ m - 1 = k /\ \A j \in 1 .. m : j \in 1 .. k \/ j = m
  OBVIOUS
<1>4. \A j \in 1 .. k : j \in Nat /\ j - 1 \in 0 .. k /\ j - 1 \in Nat /\ j - 1 < L /\ j - 1 + 1 = j
               /\ j \in 0 .. k
  <2> HIDE DEF L
  <2>1. QED
    BY <1>1
<1>5. k \in 0 .. L
  <2> HIDE DEF L
  <2>1. QED
    BY <1>1
<1> HIDE DEF L, m, c, x
<1>6. /\ Len(s) = c + Len(x)
      /\ \A i \in 1 .. c : s[i] = b[i]
      /\ \A i \in 1 .. Len(x) : s[c + i] = x[i]
  <2>1. /\ Len(s) = Len(b) + Len(x)
        /\ \A i \in 1 .. Len(b) : s[i] = b[i]
        /\ \A i \in 1 .. Len(x) : s[Len(b) + i] = x[i]
    BY <1>2, ConcatOfSeq
  <2> HIDE DEF s
  <2>2. QED
    BY <1>1, <2>1
<1> HIDE DEF s
<1>7. ASSUME NEW j \in 1 .. k, NEW i \in 1 .. Len(chunks[j])
      PROVE  s[LengthOf(chunks, j - 1) + i] = chunks[j][i]
  <2> DEFINE d == LengthOf(chunks, j - 1)
  <2> DEFINE l == Len(chunks[j])
  <2> DEFINE j0 == j - 1
  <2>1. j0 \in Nat /\ j0 < Len(chunks) /\ j0 + 1 = j
    BY <1>4 DEF L
  <2>2. d \in Nat /\ l \in Nat /\ LengthOf(chunks, j) = d + l
    <3> HIDE DEF j0
    <3>1. LengthOf(chunks, j0) \in Nat /\ Len(chunks[j0 + 1]) \in Nat
          /\ LengthOf(chunks, j0 + 1) = LengthOf(chunks, j0) + Len(chunks[j0 + 1])
      BY <2>1, LengthOfNext
    <3>2. QED
      BY <2>1, <3>1 DEF j0
  <2>3. LengthOf(chunks, j) <= c
    BY <1>4, <1>5, LengthOfGrows DEF L, c
  <2>4. b[d + i] = chunks[j][i]
    BY DEF Collected
  <2> HIDE DEF d, l
  <2>5. d + i \in 1 .. c
    <3>1. i \in 1 .. l
      BY DEF l
    <3>2. QED
      BY <1>2, <2>2, <2>3, <3>1
  <2>6. QED
    BY <1>6, <2>4, <2>5 DEF d
<1>8. ASSUME NEW j \in 1 .. m, NEW i \in 1 .. Len(chunks[j])
      PROVE  s[LengthOf(chunks, j - 1) + i] = chunks[j][i]
  <2>1. CASE j \in 1 .. k
    BY <1>7, <2>1
  <2>2. CASE j = m
    <3>1. i \in 1 .. Len(x) /\ LengthOf(chunks, j - 1) = c /\ chunks[j] = x
      BY <1>3, <2>2 DEF x, c
    <3>2. QED
      BY <1>6, <3>1
  <2>3. QED
    BY <1>3, <2>1, <2>2
<1>9. QED
  BY <1>2, <1>6, <1>8 DEF Collected, s, x, m

LEMMA CollectedJoined ==
  ASSUME NEW b \in Seq(Char), NEW chunks \in Seq(Seq(Char)), NEW k \in 0 .. Len(chunks),
         Collected(b, chunks, k)
  PROVE  IsJoined(b, SubSeq(chunks, 1, k))
<1> DEFINE L == Len(chunks)
<1> DEFINE z == 0
<1>1. L \in Nat /\ k \in 0 .. L /\ z \in Nat /\ z + 1 = 1
  BY LenProperties
<1>2. z + k <= L /\ z + k = k /\ k \in Nat /\ (\A i \in 1 .. k : z + i = i)
  <2> HIDE DEF L
  <2>1. QED
    BY <1>1
<1> HIDE DEF z
<1> DEFINE p == SubSeq(chunks, z + 1, z + k)
<1>3. p \in Seq(Seq(Char)) /\ Len(p) = k /\ \A i \in 1 .. k : p[i] = chunks[z + i]
  BY <1>1, <1>2, SubSeqOfSeq DEF L
<1>4. p = SubSeq(chunks, 1, k)
  BY <1>1, <1>2
<1> HIDE DEF p
<1>5. \A i \in 1 .. k : p[i] = chunks[i]
  BY <1>2, <1>3
<1>6. ASSUME NEW j \in 0 .. k PROVE LengthOf(p, j) = LengthOf(chunks, j)
  <2>1. \A i \in 1 .. j : i \in 1 .. k
    BY <1>2
  <2>2. \A i \in 1 .. j : p[i] = chunks[i]
    BY <1>5, <2>1
  <2>3. {{i} \X (1 .. Len(p[i])) : i \in 1 .. j} = {{i} \X (1 .. Len(chunks[i])) : i \in 1 .. j}
    BY <2>2
  <2>4. QED
    BY <2>3, Zenon DEF LengthOf
<1>7. Len(b) = LengthOf(p, Len(p))
  <2>1. k \in 0 .. k
    BY <1>2
  <2>2. QED
    BY <1>3, <1>6, <2>1 DEF Collected
<1>8. ASSUME NEW j \in 1 .. Len(p), NEW i \in 1 .. Len(p[j])
      PROVE  b[LengthOf(p, j - 1) + i] = p[j][i]
  <2>1. j \in 1 .. k /\ j - 1 \in 0 .. k
    BY <1>2, <1>3
  <2>2. p[j] = chunks[j] /\ LengthOf(p, j - 1) = LengthOf(chunks, j - 1)
    BY <1>5, <1>6, <2>1
  <2>3. QED
    BY <2>1, <2>2 DEF Collected
<1>9. IsJoined(b, p)
  BY <1>3, <1>7, <1>8, JoinedIf
<1>10. QED
  BY <1>4, <1>9

-----------------------------------------------------------------------------
(* A chunk on the wire: its size, the end of a line, its data and another. *)
LEMMA CodedLayout ==
  ASSUME NEW x \in Seq(Char), Hex(Len(x)) \in Seq(Char)
  PROVE  /\ Coded(x) \in Seq(Char)
         /\ Len(Coded(x)) = Len(Hex(Len(x))) + 2 + Len(x) + 2
         /\ Len(Hex(Len(x))) \in Nat /\ Len(x) \in Nat
         /\ \A i \in 1 .. Len(Hex(Len(x))) : Coded(x)[i] = Hex(Len(x))[i]
         /\ Coded(x)[Len(Hex(Len(x))) + 1] = CR
         /\ Coded(x)[Len(Hex(Len(x))) + 2] = LF
         /\ \A i \in 1 .. Len(x) : Coded(x)[Len(Hex(Len(x))) + 2 + i] = x[i]
         /\ Coded(x)[Len(Hex(Len(x))) + 2 + Len(x) + 1] = CR
         /\ Coded(x)[Len(Hex(Len(x))) + 2 + Len(x) + 2] = LF
<1> DEFINE h == Hex(Len(x))
<1> DEFINE e == <<CR, LF>>
<1> DEFINE s1 == h \o e
<1> DEFINE s2 == s1 \o x
<1> DEFINE s3 == s2 \o e
<1> DEFINE m == Len(h)
<1> DEFINE n == Len(x)
<1>1. s3 = Coded(x)
  BY DEF Coded
<1>2. h \in Seq(Char) /\ m \in Nat /\ n \in Nat
  BY LenProperties
<1>3. e \in Seq(Char) /\ Len(e) = 2 /\ e[1] = CR /\ e[2] = LF
  BY CharAssumption
<1>h. h \in Seq(Char)
  BY <1>2
<1>e. e \in Seq(Char)
  BY <1>3
<1> HIDE DEF h, e, s3, s2, m, n
<1>4. /\ s1 \in Seq(Char) /\ Len(s1) = m + 2
      /\ \A i \in 1 .. m : s1[i] = h[i]
      /\ \A i \in 1 .. 2 : s1[m + i] = e[i]
  <2>1. /\ s1 \in Seq(Char) /\ Len(s1) = Len(h) + Len(e)
        /\ \A i \in 1 .. Len(h) : s1[i] = h[i]
        /\ \A i \in 1 .. Len(e) : s1[Len(h) + i] = e[i]
    BY <1>h, <1>e, ConcatOfSeq
  <2> HIDE DEF s1
  <2>2. QED
    BY <1>3, <2>1 DEF m
<1> HIDE DEF s1
<1>5. /\ s2 \in Seq(Char) /\ Len(s2) = m + 2 + n
      /\ \A i \in 1 .. m + 2 : s2[i] = s1[i]
      /\ \A i \in 1 .. n : s2[m + 2 + i] = x[i]
  <2>1. /\ s2 \in Seq(Char) /\ Len(s2) = Len(s1) + Len(x)
        /\ \A i \in 1 .. Len(s1) : s2[i] = s1[i]
        /\ \A i \in 1 .. Len(x) : s2[Len(s1) + i] = x[i]
    <3>1. s1 \in Seq(Char)
      BY <1>4
    <3>2. QED
      BY <3>1, ConcatOfSeq DEF s2
  <2>2. QED
    BY <1>4, <2>1 DEF n
<1>6. /\ s3 \in Seq(Char) /\ Len(s3) = m + 2 + n + 2
      /\ \A i \in 1 .. m + 2 + n : s3[i] = s2[i]
      /\ \A i \in 1 .. 2 : s3[m + 2 + n + i] = e[i]
  <2>1. s3 = s2 \o e
    BY DEF s3
  <2>2. /\ s2 \o e \in Seq(Char) /\ Len(s2 \o e) = Len(s2) + Len(e)
        /\ \A i \in 1 .. Len(s2) : (s2 \o e)[i] = s2[i]
        /\ \A i \in 1 .. Len(e) : (s2 \o e)[Len(s2) + i] = e[i]
    <3>1. s2 \in Seq(Char)
      BY <1>5
    <3>2. QED
      BY <1>e, <3>1, ConcatOfSeq
  <2>3. QED
    BY <1>3, <1>5, <2>1, <2>2
<1>7. \A i \in 1 .. m + 2 : s3[i] = s1[i]
  <2>1. \A i \in 1 .. m + 2 : i \in 1 .. m + 2 + n
    BY <1>2
  <2>2. QED
    BY <1>5, <1>6, <2>1
<1>8. \A i \in 1 .. m : s3[i] = h[i]
  <2>1. \A i \in 1 .. m : i \in 1 .. m + 2
    BY <1>2
  <2>2. QED
    BY <1>4, <1>7, <2>1
<1>9. s3[m + 1] = CR /\ s3[m + 2] = LF
  <2>1. m + 1 \in 1 .. m + 2 /\ m + 2 \in 1 .. m + 2 /\ 1 \in 1 .. 2 /\ 2 \in 1 .. 2
    BY <1>2
  <2>2. QED
    BY <1>3, <1>4, <1>7, <2>1
<1>10. \A i \in 1 .. n : s3[m + 2 + i] = x[i]
  <2>1. \A i \in 1 .. n : m + 2 + i \in 1 .. m + 2 + n
    BY <1>2
  <2>2. QED
    BY <1>5, <1>6, <2>1
<1>11. s3[m + 2 + n + 1] = CR /\ s3[m + 2 + n + 2] = LF
  <2>1. 1 \in 1 .. 2 /\ 2 \in 1 .. 2
    OBVIOUS
  <2>2. QED
    BY <1>3, <1>6, <2>1
<1>12. QED
  BY <1>1, <1>2, <1>6, <1>8, <1>9, <1>10, <1>11 DEF m, n, h

(* The k+1st piece of a body: a chunk, or the empty one at the end; and    *)
(* the line with its size.                                                 *)
ChunkAt(chunks, k) == Append(chunks, <<>>)[k + 1]
SizeAt(chunks, k)  == Hex(Len(ChunkAt(chunks, k)))

Codable(chunks) ==
  \A k \in 0 .. Len(chunks) :
    /\ ~HasLine(ChunkAt(chunks, k)) /\ (ChunkAt(chunks, k) = <<>> => k = Len(chunks))
    /\ SizeAt(chunks, k) \in Seq(Char \ {CR, LF}) /\ SizeAt(chunks, k) # <<>>
    /\ ChunkSize(SizeAt(chunks, k)) = Len(ChunkAt(chunks, k))

LEMMA ChunkAtProperties ==
  ASSUME NEW chunks \in Seq(Seq(Char))
  PROVE  /\ Len(chunks) \in Nat
         /\ \A k \in 0 .. Len(chunks) :
              ChunkAt(chunks, k) \in Seq(Char) /\ Len(ChunkAt(chunks, k)) \in Nat
         /\ \A k \in 0 .. Len(chunks) - 1 :
              /\ ChunkAt(chunks, k) = chunks[k + 1]
              /\ k \in 0 .. Len(chunks) /\ k < Len(chunks) /\ k + 1 \in 0 .. Len(chunks)
         /\ ChunkAt(chunks, Len(chunks)) = <<>>
<1> DEFINE a == Append(chunks, <<>>)
<1> DEFINE L == Len(chunks)
<1>1. L \in Nat /\ <<>> \in Seq(Char)
  BY LenProperties, EmptySeq
<1>2. a \in Seq(Seq(Char)) /\ Len(a) = L + 1 /\ (\A i \in 1 .. L : a[i] = chunks[i]) /\ a[L + 1] = <<>>
  BY <1>1, AppendProperties
<1> HIDE DEF a
<1>3. ASSUME NEW k \in 0 .. L PROVE ChunkAt(chunks, k) \in Seq(Char) /\ Len(ChunkAt(chunks, k)) \in Nat
  <2> DEFINE m == k + 1
  <2>1. m \in 1 .. L + 1
    <3> HIDE DEF L
    <3>1. QED
      BY <1>1
  <2> HIDE DEF m
  <2>2. a[m] \in Seq(Char)
    BY <1>2, <2>1, ElementOfSeq
  <2>3. QED
    BY <2>2, LenProperties DEF ChunkAt, a, m
<1>4. ASSUME NEW k \in 0 .. L - 1
      PROVE  ChunkAt(chunks, k) = chunks[k + 1] /\ k \in 0 .. L /\ k < L /\ k + 1 \in 0 .. L
  <2> HIDE DEF L
  <2>1. k + 1 \in 1 .. L /\ k \in 0 .. L /\ k < L /\ k + 1 \in 0 .. L
    BY <1>1
  <2>2. QED
    BY <1>2, <2>1 DEF ChunkAt, a
<1>5. QED
  BY <1>1, <1>2, <1>3, <1>4 DEF ChunkAt, a

(* The line of a size has no other line in it.                             *)
LEMMA NoLineWithout ==
  ASSUME NEW s \in Seq(Char \ {CR, LF}) PROVE s \in Seq(Char) /\ ~HasLine(s)
<1> DEFINE L == Len(s)
<1>1. L \in Nat
  BY LenProperties
<1>2. \A k \in 1 .. L - 1 : s[k] # CR
  <2>1. \A k \in 1 .. L - 1 : k \in 1 .. L
    <3> HIDE DEF L
    <3>1. QED
      BY <1>1
  <2>2. \A k \in 1 .. L : s[k] \in Char \ {CR, LF}
    BY ElementOfSeq
  <2>3. QED
    BY <2>1, <2>2
<1>3. s \in Seq(Char)
  <2>1. s \in [1 .. L -> Char \ {CR, LF}]
    BY LenProperties
  <2>2. s \in [1 .. L -> Char]
    BY <2>1
  <2>3. QED
    BY <1>1, <2>2, SeqDef
<1>4. QED
  BY <1>2, <1>3 DEF HasLine

(* Where the size and the data of the k+1st chunk lie in the body.         *)
LEMMA BodyLayout ==
  ASSUME NEW b \in Seq(Char), NEW chunks \in Seq(Seq(Char)), Codable(chunks),
         IsJoined(b, CodedBody(chunks)), NEW k \in 0 .. Len(chunks),
         NEW x, x = ChunkAt(chunks, k), NEW h, h = Hex(Len(x)),
         NEW c, c = LengthOf(CodedBody(chunks), k)
  PROVE  /\ c \in Nat /\ Len(h) \in Nat /\ Len(x) \in Nat /\ x \in Seq(Char) /\ h \in Seq(Char)
         /\ ~HasLine(x) /\ ~HasLine(h)
         /\ LengthOf(CodedBody(chunks), k + 1) = c + (Len(h) + 2 + Len(x) + 2)
         /\ \A i \in 1 .. Len(h) : b[c + i] = h[i]
         /\ b[c + Len(h) + 1] = CR /\ b[c + Len(h) + 2] = LF
         /\ \A i \in 1 .. Len(x) : b[c + (Len(h) + 2) + i] = x[i]
         /\ b[c + (Len(h) + 2) + Len(x) + 1] = CR /\ b[c + (Len(h) + 2) + Len(x) + 2] = LF
<1> DEFINE L == Len(chunks)
<1> DEFINE p == CodedBody(chunks)
<1> DEFINE m == k + 1
<1>1. L \in Nat /\ x \in Seq(Char) /\ Len(x) \in Nat /\ k \in 0 .. L
  BY ChunkAtProperties
<1>2. ASSUME NEW j \in 0 .. L
      PROVE  /\ Hex(Len(ChunkAt(chunks, j))) \in Seq(Char) /\ ~HasLine(Hex(Len(ChunkAt(chunks, j))))
             /\ ~HasLine(ChunkAt(chunks, j))
             /\ Coded(ChunkAt(chunks, j)) \in Seq(Char)
  <2>1. /\ Hex(Len(ChunkAt(chunks, j))) \in Seq(Char \ {CR, LF})
        /\ ~HasLine(ChunkAt(chunks, j))
    BY DEF Codable, SizeAt
  <2>2. Hex(Len(ChunkAt(chunks, j))) \in Seq(Char) /\ ~HasLine(Hex(Len(ChunkAt(chunks, j))))
    BY <2>1, NoLineWithout
  <2>3. QED
    BY <2>1, <2>2, ChunkAtProperties, CodedLayout
<1>3. p = [j \in 1 .. L + 1 |-> Coded(Append(chunks, <<>>)[j])]
  BY DEF CodedBody
<1>4. p \in Seq(Seq(Char)) /\ Len(p) = L + 1
  <2>1. ASSUME NEW j \in 1 .. L + 1 PROVE Coded(Append(chunks, <<>>)[j]) \in Seq(Char)
    <3> DEFINE i == j - 1
    <3>1. i \in 0 .. L /\ i + 1 = j
      <4> HIDE DEF L
      <4>1. QED
        BY <1>1
    <3> HIDE DEF i
    <3>2. QED
      BY <1>2, <3>1 DEF ChunkAt
  <2>2. p \in [1 .. L + 1 -> Seq(Char)]
    BY <1>3, <2>1
  <2>3. L + 1 \in Nat
    <3> HIDE DEF L
    <3>1. QED
      BY <1>1
  <2> HIDE DEF p, L
  <2>4. p \in Seq(Seq(Char))
    BY <2>2, <2>3, FunctionIsSeq
  <2>5. DOMAIN p = 1 .. L + 1 /\ DOMAIN p = 1 .. Len(p) /\ Len(p) \in Nat
    BY <2>2, <2>4, LenProperties
  <2>6. QED
    BY <2>3, <2>4, <2>5
<1>5. k \in Nat /\ k < Len(p) /\ m \in 1 .. L + 1
  <2>1. k \in Nat /\ k < L + 1 /\ m \in 1 .. L + 1
    <3> HIDE DEF L
    <3>1. QED
      BY <1>1
  <2> HIDE DEF p
  <2>2. QED
    BY <1>4, <2>1
<1>6. p[m] = Coded(x)
  <2>1. p[m] = Coded(Append(chunks, <<>>)[m])
    BY <1>3, <1>5
  <2>2. QED
    BY <2>1 DEF ChunkAt
<1> HIDE DEF p
<1>7. /\ c \in Nat /\ LengthOf(p, m) = c + Len(p[m])
      /\ \A i \in 1 .. Len(p[m]) : b[c + i] = p[m][i]
  <2>1. c = LengthOf(p, k)
    BY DEF p
  <2>2. IsJoined(b, p)
    BY DEF p
  <2>3. LengthOf(p, k) \in Nat /\ LengthOf(p, m) = LengthOf(p, k) + Len(p[m])
    BY <1>4, <1>5, LengthOfNext
  <2>4. \A i \in 1 .. Len(p[m]) : b[LengthOf(p, k) + i] = p[m][i]
    <3>1. p \in Seq(Seq(Char)) /\ k \in Nat /\ k < Len(p)
      BY <1>4, <1>5
    <3> HIDE DEF L
    <3>2. QED
      BY <2>2, <3>1, PartOf
  <2>5. QED
    BY <2>1, <2>3, <2>4
<1> DEFINE q == Coded(x)
<1> DEFINE f == Len(h)
<1> DEFINE n == Len(x)
<1>8. h \in Seq(Char) /\ ~HasLine(h) /\ ~HasLine(x)
  BY <1>2
<1>9. /\ q \in Seq(Char) /\ Len(q) = f + 2 + n + 2 /\ f \in Nat /\ n \in Nat
      /\ \A i \in 1 .. f : q[i] = h[i]
      /\ q[f + 1] = CR /\ q[f + 2] = LF
      /\ \A i \in 1 .. n : q[f + 2 + i] = x[i]
      /\ q[f + 2 + n + 1] = CR /\ q[f + 2 + n + 2] = LF
  <2>1. Hex(Len(x)) \in Seq(Char)
    BY <1>8
  <2>2. QED
    BY <1>1, <2>1, CodedLayout
<1> HIDE DEF q, f, n, m, L
<1>n. c \in Nat /\ f \in Nat /\ n \in Nat
  BY <1>7, <1>9
<1>10. LengthOf(p, m) = c + (f + 2 + n + 2) /\ \A i \in 1 .. f + 2 + n + 2 : b[c + i] = q[i]
  <2>1. Len(p[m]) = f + 2 + n + 2 /\ p[m] = q
    BY <1>6, <1>9 DEF q
  <2>2. QED
    BY <1>7, <2>1
<1>11. \A i \in 1 .. f : b[c + i] = h[i]
  <2>1. \A i \in 1 .. f : i \in 1 .. f + 2 + n + 2
    BY <1>9
  <2>2. QED
    BY <1>9, <1>10, <2>1
<1>12. b[c + f + 1] = CR /\ b[c + f + 2] = LF
  <2>1. /\ f + 1 \in 1 .. f + 2 + n + 2 /\ f + 2 \in 1 .. f + 2 + n + 2
        /\ c + (f + 1) = c + f + 1 /\ c + (f + 2) = c + f + 2
    BY <1>n
  <2>2. QED
    BY <1>9, <1>10, <2>1
<1>13. \A i \in 1 .. n : b[c + (f + 2) + i] = x[i]
  <2>1. \A i \in 1 .. n : f + 2 + i \in 1 .. f + 2 + n + 2 /\ c + (f + 2 + i) = c + (f + 2) + i
    BY <1>n
  <2>2. QED
    BY <1>9, <1>10, <2>1
<1>14. b[c + (f + 2) + n + 1] = CR /\ b[c + (f + 2) + n + 2] = LF
  <2>1. /\ f + 2 + n + 1 \in 1 .. f + 2 + n + 2 /\ f + 2 + n + 2 \in 1 .. f + 2 + n + 2
        /\ c + (f + 2 + n + 1) = c + (f + 2) + n + 1 /\ c + (f + 2 + n + 2) = c + (f + 2) + n + 2
    BY <1>n
  <2>2. QED
    BY <1>9, <1>10, <2>1
<1>15. QED
  BY <1>1, <1>7, <1>8, <1>9, <1>10, <1>11, <1>12, <1>13, <1>14 DEF p, f, n, m

-----------------------------------------------------------------------------
(* s is what b holds from c to r.                                          *)
RestAt(s, b, c, r) == c + Len(s) = r /\ \A i \in 1 .. Len(s) : s[i] = b[c + i]

(* A line that is found in what was received of a body is the size of the  *)
(* next chunk,                                                             *)
LEMMA SizeLine ==
  ASSUME NEW b \in Seq(Char), NEW chunks \in Seq(Seq(Char)), Codable(chunks),
         IsJoined(b, CodedBody(chunks)), NEW k \in 0 .. Len(chunks),
         NEW in \in Seq(Char), HasLine(in), NEW r \in Nat,
         RestAt(in, b, LengthOf(CodedBody(chunks), k), r)
  PROVE  /\ LineOf(in) = SizeAt(chunks, k)
         /\ AfterLine(in) \in Seq(Char)
         /\ RestAt(AfterLine(in), b,
                   LengthOf(CodedBody(chunks), k) + (Len(SizeAt(chunks, k)) + 2), r)
<1> DEFINE c == LengthOf(CodedBody(chunks), k)
<1> DEFINE x == ChunkAt(chunks, k)
<1> DEFINE h == Hex(Len(x))
<1> DEFINE f == Len(h)
<1>1. /\ c \in Nat /\ f \in Nat /\ h \in Seq(Char) /\ ~HasLine(h)
      /\ \A i \in 1 .. f : b[c + i] = h[i]
      /\ b[c + f + 1] = CR /\ b[c + f + 2] = LF
  BY BodyLayout
<1>2. c + Len(in) = r /\ \A i \in 1 .. Len(in) : in[i] = b[c + i]
  BY DEF RestAt
<1>3. h = SizeAt(chunks, k)
  BY DEF SizeAt
<1> HIDE DEF h, c
<1> DEFINE a == AfterLine(in)
<1>4. /\ LineOf(in) = h /\ a \in Seq(Char)
      /\ f + 2 + Len(a) = Len(in)
      /\ \A i \in 1 .. Len(a) : a[i] = b[c + f + 2 + i]
  <2>1. c \in Nat /\ h \in Seq(Char) /\ ~HasLine(h)
    BY <1>1
  <2>2. \A i \in 1 .. Len(h) : b[c + i] = h[i]
    BY <1>1
  <2>3. b[c + Len(h) + 1] = CR /\ b[c + Len(h) + 2] = LF
    BY <1>1
  <2>4. \A i \in 1 .. Len(in) : in[i] = b[c + i]
    BY <1>2
  <2>5. QED
    BY <2>1, <2>2, <2>3, <2>4, NextLine
<1>5. Len(a) \in Nat /\ Len(in) \in Nat
  BY <1>4, LenProperties
<1> HIDE DEF a, f, c
<1>6. /\ c + (f + 2) + Len(a) = r
      /\ \A i \in 1 .. Len(a) : c + f + 2 + i = c + (f + 2) + i
  <2> DEFINE l == Len(a)
  <2> DEFINE m == Len(in)
  <2>1. l \in Nat /\ m \in Nat /\ f + 2 + l = m /\ c + m = r
    BY <1>2, <1>4, <1>5
  <2>c. c \in Nat /\ f \in Nat
    BY <1>1
  <2> HIDE DEF l, m
  <2>2. c + (f + 2) + l = r /\ \A i \in 1 .. l : c + f + 2 + i = c + (f + 2) + i
    BY <2>c, <2>1
  <2>3. QED
    BY <2>2 DEF l
<1>7. RestAt(a, b, c + (f + 2), r)
  BY <1>4, <1>6 DEF RestAt
<1>8. QED
  BY <1>3, <1>4, <1>7 DEF a, f, c

(* or its data, after which the next one comes.                            *)
LEMMA DataLine ==
  ASSUME NEW b \in Seq(Char), NEW chunks \in Seq(Seq(Char)), Codable(chunks),
         IsJoined(b, CodedBody(chunks)), NEW k \in 0 .. Len(chunks),
         NEW in \in Seq(Char), HasLine(in), NEW r \in Nat,
         RestAt(in, b, LengthOf(CodedBody(chunks), k) + (Len(SizeAt(chunks, k)) + 2), r)
  PROVE  /\ LineOf(in) = ChunkAt(chunks, k)
         /\ AfterLine(in) \in Seq(Char)
         /\ RestAt(AfterLine(in), b, LengthOf(CodedBody(chunks), k + 1), r)
<1> DEFINE x == ChunkAt(chunks, k)
<1> DEFINE h == Hex(Len(x))
<1> DEFINE f == Len(h)
<1> DEFINE n == Len(x)
<1> DEFINE d == LengthOf(CodedBody(chunks), k)
<1> DEFINE c == LengthOf(CodedBody(chunks), k) + (Len(SizeAt(chunks, k)) + 2)
<1> DEFINE e == LengthOf(CodedBody(chunks), k + 1)
<1>1. /\ d \in Nat /\ f \in Nat /\ n \in Nat /\ x \in Seq(Char) /\ ~HasLine(x)
      /\ e = d + (f + 2 + n + 2)
      /\ \A i \in 1 .. n : b[d + (f + 2) + i] = x[i]
      /\ b[d + (f + 2) + n + 1] = CR /\ b[d + (f + 2) + n + 2] = LF
  BY BodyLayout
<1>2. c + Len(in) = r /\ \A i \in 1 .. Len(in) : in[i] = b[c + i]
  BY DEF RestAt
<1>3. c = d + (f + 2)
  BY DEF SizeAt
<1> HIDE DEF x, f, d, e, c
<1>4. /\ c \in Nat /\ e = c + n + 2
      /\ \A i \in 1 .. n : b[c + i] = x[i]
      /\ b[c + n + 1] = CR /\ b[c + n + 2] = LF
  <2> HIDE DEF n
  <2>1. d \in Nat /\ f \in Nat /\ n \in Nat /\ e = d + (f + 2 + n + 2)
    BY <1>1
  <2>2. c \in Nat /\ e = c + n + 2
    BY <1>3, <2>1
  <2>3. QED
    BY <1>1, <1>3, <2>2
<1> DEFINE a == AfterLine(in)
<1>5. /\ LineOf(in) = x /\ a \in Seq(Char)
      /\ n + 2 + Len(a) = Len(in)
      /\ \A i \in 1 .. Len(a) : a[i] = b[c + n + 2 + i]
  <2>1. c \in Nat /\ x \in Seq(Char) /\ ~HasLine(x)
    BY <1>1, <1>4
  <2>2. \A i \in 1 .. Len(x) : b[c + i] = x[i]
    BY <1>4
  <2>3. b[c + Len(x) + 1] = CR /\ b[c + Len(x) + 2] = LF
    BY <1>4
  <2>4. \A i \in 1 .. Len(in) : in[i] = b[c + i]
    BY <1>2
  <2>5. QED
    BY <2>1, <2>2, <2>3, <2>4, NextLine
<1>6. Len(a) \in Nat /\ Len(in) \in Nat
  BY <1>5, LenProperties
<1> HIDE DEF a, n
<1>7. e + Len(a) = r
  <2> DEFINE l == Len(a)
  <2> DEFINE m == Len(in)
  <2>1. l \in Nat /\ m \in Nat /\ n + 2 + l = m /\ c + m = r
    BY <1>2, <1>5, <1>6
  <2> HIDE DEF l, m
  <2>2. e + l = r
    BY <1>1, <1>4, <2>1
  <2>3. QED
    BY <2>2 DEF l
<1>8. RestAt(a, b, e, r)
  BY <1>4, <1>5, <1>7 DEF RestAt
<1>9. QED
  BY <1>5, <1>8 DEF a, e, x

(* ... also with a piece more.                                             *)
LEMMA RestGrows ==
  ASSUME NEW s \in Seq(Char), NEW p \in Seq(Char), NEW b, NEW c \in Nat, NEW r \in Nat,
         RestAt(s, b, c, r), \A i \in 1 .. Len(p) : p[i] = b[r + i]
  PROVE  RestAt(s \o p, b, c, r + Len(p))
<1> DEFINE m == Len(s)
<1> DEFINE n == Len(p)
<1> DEFINE t == s \o p
<1>1. m \in Nat /\ n \in Nat
  BY LenProperties
<1>2. /\ Len(t) = m + n
      /\ \A i \in 1 .. m : t[i] = s[i]
      /\ \A i \in 1 .. n : t[m + i] = p[i]
  BY ConcatOfSeq
<1>3. c + m = r /\ (\A i \in 1 .. m : s[i] = b[c + i]) /\ \A i \in 1 .. n : p[i] = b[r + i]
  BY DEF RestAt
<1> HIDE DEF m, n, t
<1>4. ASSUME NEW i \in 1 .. m + n PROVE t[i] = b[c + i]
  <2>1. CASE i <= m
    <3>1. i \in 1 .. m
      BY <1>1, <2>1
    <3>2. QED
      BY <1>2, <1>3, <3>1
  <2>2. CASE ~(i <= m)
    <3> DEFINE j == i - m
    <3>1. j \in 1 .. n /\ m + j = i /\ r + j = c + i
      BY <1>1, <1>3, <2>2
    <3> HIDE DEF j
    <3>2. t[m + j] = p[j] /\ p[j] = b[r + j]
      BY <1>2, <1>3, <3>1
    <3>3. QED
      BY <3>1, <3>2
  <2>3. QED
    BY <2>1, <2>2
<1>5. c + (m + n) = r + n
  BY <1>1, <1>3
<1>6. QED
  BY <1>2, <1>4, <1>5 DEF RestAt, t, n

-----------------------------------------------------------------------------
(* What the decoder has done while nothing is lost where the head ends.    *)
(* DecodeInv is inductive with Ordered, which it rests on.                 *)

Chunks == stream.chunks

AtSize(s, k) == RestAt(s, stream.body, LengthOf(CodedBody(Chunks), k), received - HeadLen)

AtData(s, k) ==
  RestAt(s, stream.body, LengthOf(CodedBody(Chunks), k) + (Len(SizeAt(Chunks, k)) + 2),
         received - HeadLen)

(* s is what was received and not decoded, from the line that comes after  *)
(* the first k chunks.                                                     *)
AtLine(s, k) ==
  IF odd_line THEN k < Len(Chunks) /\ expected = Len(ChunkAt(Chunks, k)) /\ AtData(s, k)
  ELSE AtSize(s, k)

FromPart == pc = "framing" \/ (pc = "decode" /\ decoding = "part")

Decoding(k) ==
  /\ Collected(body, Chunks, k)
  /\ FromPart  => accumulator = <<>> /\ AtLine(part, k)
  /\ ~FromPart => part = <<>> /\ AtLine(accumulator, k)

Intact == Decodable(stream) /\ ~CutAtHead

InBody == pc \in {"framing", "decode", "chunks"}

Decoded ==
  /\ pc # "length"
  /\ pc \in {"idle", "head"} =>
       body = <<>> /\ accumulator = <<>> /\ part = <<>> /\ ~odd_line /\ ~fully_parsed
  /\ InBody => has_body /\ chunked /\ (error => HeadRefused)
  /\ pc \in {"framing", "decode"} => ~fully_parsed
  /\ pc = "framing" => ~odd_line /\ body = <<>>
  /\ (InBody /\ ~fully_parsed) => \E k \in 0 .. Len(Chunks) : Decoding(k)
  /\ \E k \in 0 .. Len(Chunks) :
       Collected(body, Chunks, k) /\ (fully_parsed => k = Len(Chunks))

DecodeInv == Intact => Decoded

(* The requests the decoder is made for, and what their sizes look like.   *)
LEMMA DecodableProperties ==
  ASSUME TypeOK, Decodable(stream)
  PROVE  /\ Chunks \in Seq(Seq(Char)) /\ stream.body \in Seq(Char) /\ Len(Chunks) \in Nat
         /\ Codable(Chunks) /\ IsJoined(stream.body, CodedBody(Chunks))
         /\ HasNoNUL(stream.body)
         /\ stream.head.chunked = TRUE /\ stream.head.post = TRUE /\ stream.head.length = 0
         /\ "Transfer-Encoding" \in stream.head.names
<1> DEFINE L == Len(Chunks)
<1>1. stream \in Streams /\ stream \in Stream
  BY StreamTypes DEF TypeOK
<1>2. Chunks \in Seq(Seq(Char)) /\ stream.body \in Seq(Char) /\ stream.head \in HeadResult
  BY <1>1 DEF Stream, Chunks
<1>3. L \in Nat
  BY <1>2, LenProperties
<1>4. stream.head.chunked = TRUE /\ stream.head.post = TRUE /\ stream.head.length = 0
      /\ "Transfer-Encoding" \in stream.head.names
  <2>1. /\ stream.head.length > 0 => "Content-Length" \in stream.head.names
        /\ stream.head.chunked => "Transfer-Encoding" \in stream.head.names
    BY <1>1, StreamsAssumption
  <2>2. /\ stream.head.length \in Nat /\ stream.head.chunked \in BOOLEAN
        /\ stream.head.post \in BOOLEAN
    BY <1>2 DEF HeadResult
  <2>3. stream.head.post /\ stream.head.chunked /\ "Content-Length" \notin stream.head.names
    BY DEF Decodable
  <2>4. QED
    BY <2>1, <2>2, <2>3
<1>5. \A k \in 1 .. L : Chunks[k] # <<>> /\ ~HasLine(Chunks[k])
  BY DEF Decodable, Chunks
<1>6. ASSUME NEW k \in 0 .. L
      PROVE  /\ ~HasLine(ChunkAt(Chunks, k)) /\ (ChunkAt(Chunks, k) = <<>> => k = L)
             /\ Len(ChunkAt(Chunks, k)) \in {0} \cup
                  {Len(c) : c \in UNION {{s.chunks[j] : j \in 1 .. Len(s.chunks)} : s \in Streams}}
  <2>1. CASE k = L
    <3>1. ChunkAt(Chunks, k) = <<>>
      BY <1>2, <2>1, ChunkAtProperties
    <3>2. Len(ChunkAt(Chunks, k)) = 0
      BY <3>1, EmptySeq
    <3>3. ~HasLine(ChunkAt(Chunks, k))
      BY <3>2 DEF HasLine
    <3>4. QED
      BY <2>1, <3>2, <3>3
  <2>2. CASE k # L
    <3>1. k \in 0 .. L - 1 /\ k + 1 \in 1 .. L
      <4>1. k \in 0 .. L
        OBVIOUS
      <4> HIDE DEF L
      <4>2. QED
        BY <1>3, <2>2, <4>1
    <3>2. ChunkAt(Chunks, k) = Chunks[k + 1]
      BY <1>2, <3>1, ChunkAtProperties
    <3>3. Chunks[k + 1] \in UNION {{s.chunks[j] : j \in 1 .. Len(s.chunks)} : s \in Streams}
      BY <1>1, <3>1 DEF Chunks
    <3>4. QED
      BY <1>5, <3>1, <3>2, <3>3
  <2>3. QED
    BY <2>1, <2>2
<1>7. Codable(Chunks)
  BY <1>6, HexAssumption DEF Codable, SizeAt
<1>8. QED
  BY <1>2, <1>3, <1>4, <1>7 DEF Decodable, Chunks

-----------------------------------------------------------------------------
(* A call begins with nothing decoded, whatever the object did before.     *)
LEMMA CallKeepsDecoded ==
  ASSUME Ordered, read_request PROVE DecodeInv'
<1>1. stream' \in Stream
  BY StreamsAssumption DEF read_request
<1>2. Len(Chunks') \in Nat
  <2>1. stream'.chunks \in Seq(Seq(Char))
    BY <1>1 DEF Stream
  <2>2. QED
    BY <2>1, LenProperties DEF Chunks
<1>3. /\ pc' = "head" /\ body' = <<>> /\ accumulator' = <<>> /\ part' = <<>>
      /\ odd_line' = FALSE /\ fully_parsed' = FALSE
  BY DEF read_request, init_request
<1>4. Collected(body', Chunks', 0)
  BY <1>3, CollectedNone
<1>5. 0 \in 0 .. Len(Chunks')
  BY <1>2
<1>6. QED
  BY <1>3, <1>4, <1>5 DEF DecodeInv, Decoded, InBody

(* A step that the decoder does not see.                                   *)
LEMMA QuietKeepsDecoded ==
  ASSUME DecodeInv, head_received \/ peer_sends \/ peer_closes \/ UNCHANGED vars
  PROVE  DecodeInv'
<1> USE DEF headVars, chunkVars, statusVars, peerVars, localVars
<1>1. UNCHANGED <<pc, part, decoding, names, chunked, has_body, error, body, accumulator,
                  odd_line, expected, fully_parsed, stream>>
  BY DEF head_received, peer_sends, peer_closes, vars
<1>2. CASE head_received
  <2>1. pc = "head"
    BY <1>2 DEF head_received, AtHead
  <2>2. QED
    BY <1>1, <2>1 DEF DecodeInv, Intact, CutAtHead, Decoded, InBody, HeadRefused, Chunks
<1>3. CASE peer_sends \/ peer_closes \/ UNCHANGED vars
  <2>1. received' = received
    BY <1>3 DEF peer_sends, peer_closes, vars
  <2>2. QED
    BY <1>1, <2>1 DEF DecodeInv, Intact, CutAtHead, Decoded, InBody, HeadRefused, Chunks,
      Decoding, FromPart, AtLine, AtSize, AtData
<1>4. QED
  BY <1>2, <1>3

(* What came with the head is the beginning of the body, and all that was  *)
(* received of it.                                                         *)
LEMMA HeadEndsKeepsDecoded ==
  ASSUME Ordered, DecodeInv, head_ends PROVE DecodeInv'
<1> USE DEF chunkVars, peerVars
<1>1. pc = "head" /\ Len(text) >= HeadLen /\ part' = body_part
      /\ UNCHANGED <<accumulator, odd_line, expected, fully_parsed, stream, received>>
  BY DEF head_ends
<1> SUFFICES ASSUME Decodable(stream) PROVE Decoded'
  BY <1>1 DEF DecodeInv, Intact
<1>2. body = <<>> /\ accumulator = <<>> /\ ~odd_line /\ ~fully_parsed
  BY <1>1 DEF DecodeInv, Intact, CutAtHead, Decoded
<1> DEFINE b == stream.body
<1>3. /\ b \in Seq(Char) /\ Len(Chunks) \in Nat /\ HasNoNUL(b)
      /\ stream.head.chunked = TRUE /\ stream.head.post = TRUE /\ stream.head.length = 0
      /\ "Transfer-Encoding" \in stream.head.names
  BY DecodableProperties DEF Ordered
<1>4. /\ names' = names \cup stream.head.names /\ chunked' = TRUE /\ content_length' = 0
      /\ has_body' = TRUE
  <2>1. /\ names' = names \cup stream.head.names /\ chunked' = stream.head.chunked
        /\ content_length' = stream.head.length
        /\ has_body' = (stream.head.post /\ names' \cap Framings # {})
    BY DEF head_ends, parse_request
  <2>2. names' \cap Framings # {}
    BY <1>3, <2>1 DEF Framings
  <2>3. QED
    BY <1>3, <2>1, <2>2
<1>5. error' => HeadRefused'
  <2>1. \/ "Host" \notin names' \/ Framings \subseteq names'
        \/ error' = (stream.head.status # 200)
    BY Zenon DEF head_ends, parse_request
  <2>2. QED
    BY <1>1, <2>1, Zenon DEF HeadRefused
<1>6. pc' = "framing" /\ body' = <<>>
  <2>1. ~(has_body' /\ content_length' > 0)
    BY <1>4
  <2>2. QED
    BY <1>2, <2>1, Zenon DEF head_ends
<1>7. RestAt(body_part, b, 0, received - HeadLen)
  <2> DEFINE n == Len(body_part)
  <2>1. n \in Nat /\ HeadLen + n = Len(text) /\ Begins(body_part, b)
    BY <1>1, BodyPart DEF Ordered
  <2>2. received = Len(text)
    BY <1>1, <1>3 DEF Ordered, HeadRead
  <2>3. 0 + n = received - HeadLen
    <3> HIDE DEF n
    <3>1. QED
      BY <2>1, <2>2, SizesAssumption
  <2>4. \A i \in 1 .. n : i = 0 + i
    <3> HIDE DEF n
    <3>1. QED
      BY <2>1
  <2>5. QED
    BY <2>1, <2>3, <2>4 DEF RestAt, Begins
<1>8. Collected(body', Chunks, 0) /\ 0 \in 0 .. Len(Chunks)
  BY <1>3, <1>6, CollectedNone
<1>9. LengthOf(CodedBody(Chunks), 0) = 0
  BY LengthOfNone
<1>10. Chunks' = Chunks
  BY <1>1 DEF Chunks
<1>11. AtLine(part, 0)'
  <2>1. RestAt(part', stream'.body, LengthOf(CodedBody(Chunks'), 0), received' - HeadLen)
    BY <1>1, <1>7, <1>9, <1>10
  <2>2. QED
    BY <1>1, <1>2, <2>1 DEF AtLine, AtSize
<1>12. Decoding(0)'
  BY <1>1, <1>2, <1>6, <1>8, <1>10, <1>11 DEF Decoding, FromPart
<1>13. QED
  BY <1>1, <1>2, <1>4, <1>5, <1>6, <1>8, <1>10, <1>12 DEF Decoded, InBody

(* read_request comes back with what has been decoded.                     *)
LEMMA ReturnKeepsDecoded ==
  ASSUME DecodeInv,
         \/ head_closed \/ head_times_out \/ head_fails \/ length_closed \/ length_fails
         \/ not_chunked \/ chunks_end \/ chunks_break \/ chunks_break_on_NUL
  PROVE  DecodeInv'
<1> USE DEF headVars, chunkVars, statusVars, peerVars, localVars, return
<1>1. pc' = "returned" /\ UNCHANGED <<stream, part, body>>
  BY DEF head_closed, head_times_out, head_fails, length_closed, length_fails, give_up,
    not_chunked, chunks_end, chunks_break, chunks_break_on_NUL, finish
<1>2. not_chunked \/ fully_parsed' = fully_parsed
  BY DEF head_closed, head_times_out, head_fails, length_closed, length_fails, give_up,
    chunks_end, chunks_break, chunks_break_on_NUL
<1> SUFFICES ASSUME Decodable(stream), part = <<>> PROVE Decoded'
  BY <1>1 DEF DecodeInv, Intact, CutAtHead
<1>3. Decoded
  BY DEF DecodeInv, Intact, CutAtHead
<1>4. ~not_chunked
  BY <1>3 DEF not_chunked, Decoded, InBody
<1>5. QED
  BY <1>1, <1>2, <1>3, <1>4 DEF Decoded, InBody, Chunks

(* A decodable request is not read by length.                              *)
LEMMA LengthKeepsDecoded ==
  ASSUME DecodeInv, length_received \/ length_ends PROVE DecodeInv'
<1>1. pc = "length" /\ stream' = stream
  BY DEF length_received, length_ends, InLength, peerVars
<1>2. ~Decodable(stream)
  BY <1>1 DEF DecodeInv, Intact, CutAtHead, Decoded
<1>3. QED
  BY <1>1, <1>2 DEF DecodeInv, Intact

LEMMA ChunksBeginKeepsDecoded ==
  ASSUME DecodeInv, chunks_begin PROVE DecodeInv'
<1> USE DEF headVars, chunkVars, statusVars, peerVars
<1>1. pc = "framing"
      /\ UNCHANGED <<part, names, chunked, has_body, error, body, accumulator,
                     odd_line, expected, fully_parsed, stream, received>>
      /\ (part # <<>> => pc' = "decode" /\ decoding' = "part")
      /\ (part = <<>> => pc' = "chunks")
  BY DEF chunks_begin
<1> SUFFICES ASSUME Decodable(stream) PROVE Decoded'
  BY <1>1 DEF DecodeInv, Intact
<1>2. Decoded
  BY <1>1 DEF DecodeInv, Intact, CutAtHead
<1>3. /\ has_body /\ chunked /\ (error => HeadRefused) /\ ~fully_parsed
      /\ \E k \in 0 .. Len(Chunks) : Collected(body, Chunks, k) /\ (fully_parsed => k = Len(Chunks))
  BY <1>1, <1>2 DEF Decoded, InBody
<1>4. PICK k \in 0 .. Len(Chunks) : Decoding(k)
  BY <1>1, <1>2, <1>3 DEF Decoded, InBody
<1>5. Collected(body, Chunks, k) /\ accumulator = <<>> /\ AtLine(part, k)
  BY <1>1, <1>4 DEF Decoding, FromPart
<1>6. AtLine(part, k)' /\ (part = <<>> => AtLine(accumulator, k)')
  BY <1>1, <1>5 DEF AtLine, AtSize, AtData, Chunks
<1>7. Decoding(k)'
  BY <1>1, <1>5, <1>6 DEF Decoding, FromPart, Chunks
<1>8. QED
  BY <1>1, <1>3, <1>7 DEF Decoded, InBody, HeadRefused, Chunks

-----------------------------------------------------------------------------
(* A turn of the decoder: what it finds in a body that is intact.          *)

Turn == decode_waits \/ decode_empty_line \/ decode_size \/ decode_data

(* What a turn begins with.                                                *)
LEMMA TurnInput ==
  ASSUME Ordered, DecodeInv, Turn, Intact'
  PROVE  /\ Intact /\ Decoded /\ Input \in Seq(Char) /\ body \in Seq(Char)
         /\ has_body /\ chunked /\ (error => HeadRefused) /\ ~fully_parsed
         /\ UNCHANGED <<names, chunked, has_body, stream, received, decoding, Chunks>>
         /\ \E k \in 0 .. Len(Chunks) : Collected(body, Chunks, k) /\ AtLine(Input, k)
         /\ IF decoding = "part" THEN accumulator = <<>> ELSE part = <<>>
<1> USE DEF headVars, peerVars, decoderFrame
<1>1. /\ pc = "decode" /\ pc' \in {"decode", "chunks"}
      /\ UNCHANGED <<names, chunked, has_body, stream, received, decoding, Chunks>>
  BY DEF Turn, decode_waits, decode_empty_line, decode_size, decode_data, Chunks
<1>2. decoding # "part" => part' = part
  BY Zenon DEF Turn, decode_waits, decode_empty_line, decode_size, decode_data, Consume
<1>3. Intact
  <2>1. Decodable(stream)
    BY <1>1 DEF Intact
  <2>2. ASSUME CutAtHead PROVE FALSE
    <3>1. part # <<>> /\ decoding = "accumulator"
      BY <1>1, <2>2 DEF CutAtHead
    <3>2. CutAtHead'
      BY <1>1, <1>2, <3>1 DEF CutAtHead
    <3>3. QED
      BY <3>2 DEF Intact
  <2>3. QED
    BY <2>1, <2>2 DEF Intact
<1>4. Decoded
  BY <1>3 DEF DecodeInv
<1>5. has_body /\ chunked /\ (error => HeadRefused) /\ ~fully_parsed
  BY <1>1, <1>4 DEF Decoded, InBody
<1>6. PICK k \in 0 .. Len(Chunks) : Decoding(k)
  BY <1>1, <1>4, <1>5 DEF Decoded, InBody
<1>7. /\ Collected(body, Chunks, k) /\ AtLine(Input, k)
      /\ IF decoding = "part" THEN accumulator = <<>> ELSE part = <<>>
  BY <1>1, <1>6 DEF Decoding, FromPart, Input
<1>8. Input \in Seq(Char) /\ body \in Seq(Char)
  BY DEF Ordered, TypeOK, Input
<1>9. QED
  BY <1>1, <1>3, <1>4, <1>5, <1>7, <1>8

(* A line is the size of the next chunk or its data, and never empty.      *)
LEMMA TurnLine ==
  ASSUME Ordered, Decodable(stream), NEW k \in 0 .. Len(Chunks), NEW in \in Seq(Char),
         AtLine(in, k), HasLine(in), pc = "decode"
  PROVE  /\ LineOf(in) # <<>>
         /\ odd_line => /\ LineOf(in) = ChunkAt(Chunks, k) /\ k < Len(Chunks)
                        /\ expected = Len(ChunkAt(Chunks, k))
                        /\ RestAt(AfterLine(in), stream.body, LengthOf(CodedBody(Chunks), k + 1),
                                  received - HeadLen)
         /\ ~odd_line => /\ ChunkSize(LineOf(in)) = Len(ChunkAt(Chunks, k))
                         /\ AtData(AfterLine(in), k)
<1> DEFINE c == Chunks
<1> DEFINE b == stream.body
<1> DEFINE r == received - HeadLen
<1>1. /\ c \in Seq(Seq(Char)) /\ b \in Seq(Char) /\ Len(c) \in Nat /\ Codable(c)
      /\ IsJoined(b, CodedBody(c))
  BY DecodableProperties DEF Ordered
<1>2. r \in Nat
  <2>1. HeadLen <= received /\ received \in Nat
    BY StreamTypes DEF Ordered, HeadPassed, Reading
  <2>2. QED
    BY <2>1, SizesAssumption
<1>3. k \in 0 .. Len(c)
  OBVIOUS
<1>4. /\ (ChunkAt(c, k) = <<>> => k = Len(c)) /\ SizeAt(c, k) # <<>>
      /\ ChunkSize(SizeAt(c, k)) = Len(ChunkAt(c, k))
  BY <1>1, <1>3 DEF Codable
<1>5. CASE odd_line
  <2>1. k < Len(c) /\ expected = Len(ChunkAt(c, k))
        /\ RestAt(in, b, LengthOf(CodedBody(c), k) + (Len(SizeAt(c, k)) + 2), r)
    BY <1>5 DEF AtLine, AtData
  <2> HIDE DEF c, b, r
  <2>2. /\ LineOf(in) = ChunkAt(c, k)
        /\ RestAt(AfterLine(in), b, LengthOf(CodedBody(c), k + 1), r)
    BY <1>1, <1>2, <1>3, <2>1, DataLine
  <2>3. k # Len(c)
    BY <1>1, <1>3, <2>1
  <2>4. QED
    BY <1>4, <1>5, <2>1, <2>2, <2>3 DEF c, b, r
<1>6. CASE ~odd_line
  <2>1. RestAt(in, b, LengthOf(CodedBody(c), k), r)
    BY <1>6 DEF AtLine, AtSize
  <2> HIDE DEF c, b, r
  <2>2. /\ LineOf(in) = SizeAt(c, k)
        /\ RestAt(AfterLine(in), b, LengthOf(CodedBody(c), k) + (Len(SizeAt(c, k)) + 2), r)
    BY <1>1, <1>2, <1>3, <2>1, SizeLine
  <2>3. QED
    BY <1>4, <1>6, <2>2 DEF AtData, c, b, r
<1>7. QED
  BY <1>5, <1>6

(* What is left of the string is decoded in the next turn.                 *)
LEMMA ConsumeKeeps ==
  ASSUME NEW rest, NEW k, Consume(rest), pc' = "decode", decoding' = decoding,
         IF decoding = "part" THEN accumulator = <<>> ELSE part = <<>>,
         Collected(body, Chunks, k)', AtLine(rest, k)'
  PROVE  Decoding(k)'
<1>1. FromPart' <=> decoding = "part"
  BY DEF FromPart
<1>2. CASE decoding = "part"
  <2>1. accumulator' = <<>> /\ part' = rest
    BY <1>2 DEF Consume
  <2>2. AtLine(part, k)'
    BY <2>1 DEF AtLine, AtSize, AtData
  <2>3. QED
    BY <1>1, <1>2, <2>1, <2>2 DEF Decoding
<1>3. CASE decoding # "part"
  <2>1. part' = <<>> /\ accumulator' = rest
    BY <1>3 DEF Consume
  <2>2. AtLine(accumulator, k)'
    BY <2>1 DEF AtLine, AtSize, AtData
  <2>3. QED
    BY <1>1, <1>3, <2>1, <2>2 DEF Decoding
<1>4. QED
  BY <1>2, <1>3

LEMMA TurnKeepsDecoded ==
  ASSUME Ordered, DecodeInv, Turn PROVE DecodeInv'
<1> SUFFICES ASSUME Intact' PROVE Decoded'
  BY DEF DecodeInv
<1> USE DEF headVars, chunkVars, statusVars, peerVars, decoderFrame
<1>1. /\ Intact /\ Decoded /\ Input \in Seq(Char) /\ body \in Seq(Char)
      /\ has_body /\ chunked /\ (error => HeadRefused) /\ ~fully_parsed
      /\ UNCHANGED <<names, chunked, has_body, stream, received, decoding, Chunks>>
      /\ IF decoding = "part" THEN accumulator = <<>> ELSE part = <<>>
  BY TurnInput
<1>2. PICK k \in 0 .. Len(Chunks) : Collected(body, Chunks, k) /\ AtLine(Input, k)
  BY TurnInput
<1>3. /\ Chunks \in Seq(Seq(Char)) /\ Len(Chunks) \in Nat /\ Decodable(stream)
  BY <1>1, DecodableProperties DEF Ordered, Intact
<1>4. pc = "decode" /\ pc' \in {"decode", "chunks"}
  BY DEF Turn, decode_waits, decode_empty_line, decode_size, decode_data
<1>5. HasLine(Input) =>
        /\ LineOf(Input) # <<>>
        /\ odd_line => /\ LineOf(Input) = ChunkAt(Chunks, k) /\ k < Len(Chunks)
                       /\ expected = Len(ChunkAt(Chunks, k))
                       /\ RestAt(AfterLine(Input), stream.body,
                                 LengthOf(CodedBody(Chunks), k + 1), received - HeadLen)
        /\ ~odd_line => /\ ChunkSize(LineOf(Input)) = Len(ChunkAt(Chunks, k))
                        /\ AtData(AfterLine(Input), k)
  BY <1>1, <1>2, <1>3, <1>4, TurnLine
<1>6. HeadRefused' <=> HeadRefused
  BY <1>1 DEF HeadRefused
<1>7. CASE decode_waits
  <2>1. pc' = "chunks" /\ UNCHANGED <<part, accumulator, odd_line, expected, fully_parsed, body, error>>
    BY <1>7 DEF decode_waits
  <2>2. part = <<>>
    BY <2>1 DEF Intact, CutAtHead
  <2>3. AtLine(accumulator, k)
    BY <1>1, <1>2, <2>2 DEF Input
  <2>4. AtLine(accumulator, k)'
    BY <1>1, <2>1, <2>3 DEF AtLine, AtSize, AtData
  <2>5. Decoding(k)'
    BY <1>1, <1>2, <2>1, <2>2, <2>4 DEF Decoding, FromPart
  <2>6. QED
    BY <1>1, <1>2, <1>6, <2>1, <2>5 DEF Decoded, InBody
<1>8. CASE decode_empty_line
  BY <1>5, <1>8 DEF decode_empty_line
<1>9. CASE decode_size
  <2>1. /\ HasLine(Input) /\ ~odd_line /\ odd_line' = TRUE
        /\ expected' = ChunkSize(LineOf(Input)) /\ UNCHANGED <<body, error>>
    BY <1>9 DEF decode_size
  <2>2. expected' = Len(ChunkAt(Chunks, k)) /\ AtData(AfterLine(Input), k)
    BY <1>5, <2>1
  <2>3. CASE expected' = 0
    <3>1. fully_parsed' = TRUE /\ pc' = "chunks"
      BY <1>9, <2>3, Zenon DEF decode_size
    <3>2. k = Len(Chunks)
      <4>1. ChunkAt(Chunks, k) \in Seq(Char) /\ Codable(Chunks)
        BY <1>3, ChunkAtProperties, DecodableProperties DEF Ordered
      <4>2. ChunkAt(Chunks, k) = <<>>
        BY <2>2, <2>3, <4>1, EmptySeq
      <4>3. QED
        BY <4>1, <4>2 DEF Codable
    <3>3. QED
      BY <1>1, <1>2, <1>6, <2>1, <3>1, <3>2 DEF Decoded, InBody
  <2>4. CASE expected' # 0
    <3>1. fully_parsed' = fully_parsed /\ pc' = pc /\ Consume(AfterLine(Input))
      BY <1>9, <2>4, Zenon DEF decode_size
    <3>2. k < Len(Chunks)
      <4>1. k # Len(Chunks)
        <5>1. ASSUME k = Len(Chunks) PROVE FALSE
          <6>1. ChunkAt(Chunks, k) = <<>>
            BY <1>3, <5>1, ChunkAtProperties
          <6>2. QED
            BY <2>2, <2>4, <6>1, EmptySeq
        <5>2. QED
          BY <5>1
      <4>2. QED
        BY <1>3, <4>1
    <3> PICK rest : rest = AfterLine(Input)
      OBVIOUS
    <3>3. AtData(rest, k)'
      BY <1>1, <2>2 DEF AtData
    <3>4. AtLine(rest, k)'
      BY <1>1, <2>1, <2>2, <3>2, <3>3 DEF AtLine
    <3>5. Decoding(k)'
      <4>1. Collected(body, Chunks, k)'
        BY <1>1, <1>2, <2>1
      <4>2. QED
        BY <1>1, <1>4, <3>1, <3>4, <4>1, ConsumeKeeps
    <3>6. QED
      BY <1>1, <1>2, <1>4, <1>6, <2>1, <3>1, <3>5 DEF Decoded, InBody
  <2>5. QED
    BY <2>3, <2>4
<1>10. CASE decode_data
  <2>1. /\ HasLine(Input) /\ odd_line /\ odd_line' = FALSE
        /\ Consume(AfterLine(Input)) /\ UNCHANGED <<expected, fully_parsed>>
    BY <1>10 DEF decode_data
  <2>2. /\ LineOf(Input) = ChunkAt(Chunks, k) /\ k < Len(Chunks)
        /\ expected = Len(ChunkAt(Chunks, k))
        /\ RestAt(AfterLine(Input), stream.body, LengthOf(CodedBody(Chunks), k + 1),
                  received - HeadLen)
    BY <1>5, <2>1
  <2> PICK rest : rest = AfterLine(Input)
    OBVIOUS
  <2> PICK m : m = k + 1
    OBVIOUS
  <2>3. k \in Nat /\ k \in 0 .. Len(Chunks) - 1 /\ m \in 0 .. Len(Chunks)
    BY <1>3, <2>2
  <2>4. ChunkAt(Chunks, k) = Chunks[k + 1] /\ Len(ChunkAt(Chunks, k)) \in Nat
    BY <1>3, <2>3, ChunkAtProperties
  <2>5. ~(Len(LineOf(Input)) > expected)
    <3> DEFINE n == Len(ChunkAt(Chunks, k))
    <3>1. Len(LineOf(Input)) = n /\ expected = n /\ n \in Nat
      BY <2>2, <2>4
    <3> HIDE DEF n
    <3>2. QED
      BY <3>1
  <2>6. body' = body \o Chunks[k + 1] /\ UNCHANGED <<pc, error>>
    <3>1. body' = body \o LineOf(Input) /\ UNCHANGED <<pc, statusVars>>
      BY <1>10, <2>5, Zenon DEF decode_data
    <3>2. QED
      BY <2>2, <2>4, <3>1
  <2>7. Collected(body, Chunks, m)'
    <3>1. Collected(body \o Chunks[k + 1], Chunks, k + 1)
      BY <1>1, <1>2, <1>3, <2>2, <2>3, CollectedNext
    <3>2. QED
      BY <1>1, <2>6, <3>1
  <2>8. AtLine(rest, m)'
    <3>1. AtSize(rest, m)'
      BY <1>1, <2>2 DEF AtSize
    <3>2. QED
      BY <2>1, <3>1 DEF AtLine
  <2>9. Decoding(m)'
    BY <1>1, <1>4, <2>1, <2>6, <2>7, <2>8, ConsumeKeeps
  <2>10. QED
    BY <1>1, <1>4, <1>6, <2>1, <2>3, <2>6, <2>7, <2>9 DEF Decoded, InBody
<1>11. QED
  BY <1>7, <1>8, <1>9, <1>10 DEF Turn

(* A piece goes behind what was received before and not decoded.           *)
LEMMA ChunksReceivedKeepsDecoded ==
  ASSUME Ordered, DecodeInv, chunks_received PROVE DecodeInv'
<1> USE DEF headVars, chunkVars, statusVars, peerVars
<1>1. /\ pc = "chunks" /\ ~fully_parsed /\ Arrived /\ pc' = "decode" /\ decoding' = "accumulator"
      /\ UNCHANGED <<part, names, chunked, has_body, error, body, odd_line, expected,
                     fully_parsed, stream>>
      /\ accumulator' = accumulator \o Piece /\ received' = received + Len(Piece)
  BY DEF chunks_received, InChunks, Take
<1> SUFFICES ASSUME Decodable(stream), part = <<>> PROVE Decoded'
  BY <1>1 DEF DecodeInv, Intact, CutAtHead
<1>2. Decoded
  BY DEF DecodeInv, Intact, CutAtHead
<1>3. has_body /\ chunked /\ (error => HeadRefused)
  BY <1>1, <1>2 DEF Decoded, InBody
<1>4. PICK k \in 0 .. Len(Chunks) : Decoding(k)
  BY <1>1, <1>2 DEF Decoded, InBody
<1>5. Collected(body, Chunks, k) /\ AtLine(accumulator, k)
  BY <1>1, <1>4 DEF Decoding, FromPart
<1>6. HeadLen <= received /\ received \in Nat /\ accumulator \in Seq(Char)
  BY <1>1, StreamTypes DEF Ordered, HeadPassed, Reading, TypeOK
<1> DEFINE r == received - HeadLen
<1>7. /\ Piece \in Seq(Char) /\ Len(Piece) \in Nat
      /\ \A i \in 1 .. Len(Piece) : Piece[i] = stream.body[r + i]
  BY <1>1, <1>6, BodyPiece DEF Ordered
<1>8. r \in Nat /\ received' - HeadLen = r + Len(Piece)
  <2> DEFINE n == Len(Piece)
  <2>1. n \in Nat /\ received' = received + n
    BY <1>1, <1>7
  <2> HIDE DEF n
  <2>2. r \in Nat /\ received' - HeadLen = r + n
    BY <1>6, <2>1, SizesAssumption
  <2>3. QED
    BY <2>2 DEF n
<1> HIDE DEF r
<1>9. ASSUME NEW c \in Nat, RestAt(accumulator, stream.body, c, r)
      PROVE  RestAt(accumulator', stream.body, c, received' - HeadLen)
  <2>1. RestAt(accumulator \o Piece, stream.body, c, r + Len(Piece))
    BY <1>6, <1>7, <1>8, <1>9, RestGrows
  <2>2. QED
    BY <1>1, <1>8, <2>1
<1>10. LengthOf(CodedBody(Chunks), k) \in Nat /\ Len(SizeAt(Chunks, k)) \in Nat
  <2>1. /\ Chunks \in Seq(Seq(Char)) /\ stream.body \in Seq(Char) /\ Codable(Chunks)
        /\ IsJoined(stream.body, CodedBody(Chunks))
    BY DecodableProperties DEF Ordered
  <2>2. QED
    BY <2>1, BodyLayout DEF SizeAt
<1>11. AtLine(accumulator, k)'
  <2>1. CASE odd_line
    <3> DEFINE c == LengthOf(CodedBody(Chunks), k) + (Len(SizeAt(Chunks, k)) + 2)
    <3>1. c \in Nat
      BY <1>10
    <3>2. RestAt(accumulator, stream.body, c, r) /\ k < Len(Chunks) /\ expected = Len(ChunkAt(Chunks, k))
      BY <1>5, <2>1 DEF AtLine, AtData, r
    <3> HIDE DEF c
    <3>3. RestAt(accumulator', stream.body, c, received' - HeadLen)
      BY <1>9, <3>1, <3>2
    <3>4. QED
      BY <1>1, <2>1, <3>2, <3>3 DEF AtLine, AtData, Chunks, c
  <2>2. CASE ~odd_line
    <3>1. RestAt(accumulator, stream.body, LengthOf(CodedBody(Chunks), k), r)
      BY <1>5, <2>2 DEF AtLine, AtSize, r
    <3>2. RestAt(accumulator', stream.body, LengthOf(CodedBody(Chunks), k), received' - HeadLen)
      BY <1>9, <1>10, <3>1
    <3>3. QED
      BY <1>1, <2>2, <3>2 DEF AtLine, AtSize, Chunks
  <2>3. QED
    BY <2>1, <2>2
<1>12. Decoding(k)'
  BY <1>1, <1>5, <1>11 DEF Decoding, FromPart, Chunks
<1>13. QED
  BY <1>1, <1>3, <1>5, <1>12 DEF Decoded, InBody, HeadRefused, Chunks

LEMMA StepDecodeInv == Ordered /\ DecodeInv /\ [Next]_vars => DecodeInv'
BY CallKeepsDecoded, QuietKeepsDecoded, HeadEndsKeepsDecoded, ReturnKeepsDecoded,
  LengthKeepsDecoded, ChunksBeginKeepsDecoded, TurnKeepsDecoded, ChunksReceivedKeepsDecoded
  DEF Next, Reader, Turn

LEMMA InitDecodeInv == Init => DecodeInv
<1> SUFFICES ASSUME Init PROVE Decoded
  BY DEF DecodeInv
<1>1. Len(Chunks) \in Nat
  BY InitIInv, DecodableProperties, StreamTypes, LenProperties DEF IInv, Ordered, Stream, Chunks
<1>2. Collected(body, Chunks, 0) /\ 0 \in 0 .. Len(Chunks)
  BY <1>1, CollectedNone DEF Init
<1>3. QED
  BY <1>2 DEF Init, Decoded, InBody

(* Whole chunks are decoded, in order, however the stream is split, unless *)
(* a line is cut where the head ends; and the body is taken for complete   *)
(* only when it is.                                                        *)
THEOREM ChunksCorrect ==
  ASSUME SizesAreNumbers PROVE Spec => []ChunksDecoded
<1>1. Ordered /\ DecodeInv => ChunksDecoded
  <2> SUFFICES ASSUME Ordered, DecodeInv, Decodable(stream), ~CutAtHead
               PROVE  /\ \E k \in 0 .. Len(stream.chunks) :
                           /\ IsJoined(body, SubSeq(stream.chunks, 1, k))
                           /\ fully_parsed => k = Len(stream.chunks)
                      /\ pc \in {"decode", "chunks"} => (error => HeadRefused)
    BY DEF ChunksDecoded
  <2>1. Decoded
    BY DEF DecodeInv, Intact
  <2>2. PICK k \in 0 .. Len(Chunks) :
          Collected(body, Chunks, k) /\ (fully_parsed => k = Len(Chunks))
    BY <2>1 DEF Decoded
  <2>3. Chunks \in Seq(Seq(Char)) /\ body \in Seq(Char)
    BY DecodableProperties DEF Ordered, TypeOK
  <2>4. IsJoined(body, SubSeq(Chunks, 1, k))
    BY <2>2, <2>3, CollectedJoined
  <2>5. QED
    BY <2>1, <2>2, <2>4 DEF Decoded, InBody, Chunks
<1>2. Spec => []IInv
  BY Inductive
<1>3. IInv => Ordered
  BY DEF IInv
<1>4. QED
  BY <1>1, <1>2, <1>3, InitDecodeInv, StepDecodeInv, PTL DEF Spec

-----------------------------------------------------------------------------
(* What is left of a call becomes less.                                    *)

(* The string after a line is shorter than the string.                     *)
LEMMA AfterLineShorter ==
  ASSUME NEW s \in Seq(Char), HasLine(s)
  PROVE  Len(AfterLine(s)) + 1 \in 0 .. Len(s)
<1> DEFINE L == Len(s)
<1> DEFINE e == LineEnd(s)
<1> DEFINE m == e + 1
<1> DEFINE n == L - m
<1>1. L \in Nat /\ e \in 1 .. L - 1
  BY LineEndProperties, LenProperties
<1>2. AfterLine(s) = SubSeq(s, e + 2, L)
  BY DEF AfterLine
<1> HIDE DEF L, e
<1>3. m \in Nat /\ n \in Nat /\ m + n <= L /\ m + 1 = e + 2 /\ m + n = L /\ n + 1 \in 0 .. L
  BY <1>1
<1> HIDE DEF m, n
<1>4. Len(SubSeq(s, m + 1, m + n)) = n
  BY <1>3, SubSeqOfSeq DEF L
<1>5. QED
  BY <1>2, <1>3, <1>4 DEF L

LEMMA ReturnProgresses ==
  ASSUME pc \in Reading \cup {"head"}, pc' = "returned"
  PROVE  Progress
BY DEF Progress, Stage, Reading

LEMMA PieceProgresses ==
  ASSUME TypeOK, Arrived, Take, UNCHANGED stream, Stage' = Stage
  PROVE  Progress
<1> DEFINE w == Len(Wire(stream))
<1> DEFINE n == Len(Piece)
<1>1. w \in Nat /\ arrived \in 0 .. w /\ received \in 0 .. arrived
  BY StreamsAssumption, WireProperties, LenProperties DEF TypeOK
<1>2. n \in Nat \ {0} /\ received + n <= arrived /\ received' = received + n
  BY PieceProperties DEF Take
<1>3. Unread = w - received /\ Unread' = w - received'
  BY DEF Unread
<1>4. w - received' \in 0 .. (w - received) - 1
  <2> HIDE DEF w, n
  <2>1. QED
    BY <1>1, <1>2
<1>5. QED
  BY <1>3, <1>4 DEF Progress

LEMMA TurnProgresses ==
  ASSUME TypeOK, Turn
  PROVE  Progress
<1> USE DEF decoderFrame, peerVars
<1>1. /\ pc = "decode" /\ pc' \in {"decode", "chunks"}
      /\ stream' = stream /\ received' = received /\ decoding' = decoding
  BY DEF Turn, decode_waits, decode_empty_line, decode_size, decode_data
<1>2. Stage' = Stage /\ Unread' = Unread
  BY <1>1 DEF Stage, Unread
<1>3. Input \in Seq(Char) /\ Len(Input) \in Nat /\ Undecoded = Len(Input) + 1
  BY <1>1, LenProperties DEF TypeOK, Input, Undecoded
<1>4. CASE pc' = "chunks"
  <2>1. Undecoded' = 0
    BY <1>4 DEF Undecoded
  <2>2. QED
    BY <1>2, <1>3, <2>1 DEF Progress
<1>5. CASE pc' = "decode"
  <2>1. HasLine(Input) /\ Consume(AfterLine(Input))
    BY <1>5, Zenon DEF Turn, decode_waits, decode_empty_line, decode_size, decode_data
  <2>2. Input' = AfterLine(Input)
    BY <1>1, <2>1 DEF Input, Consume
  <2>3. Undecoded' = Len(AfterLine(Input)) + 1
    BY <1>5, <2>2 DEF Undecoded
  <2>4. Len(AfterLine(Input)) + 1 \in 0 .. Len(Input)
    BY <1>3, <2>1, AfterLineShorter
  <2>5. Undecoded' \in 0 .. Undecoded - 1
    BY <1>3, <2>3, <2>4
  <2>6. QED
    BY <1>2, <2>5 DEF Progress
<1>6. QED
  BY <1>1, <1>4, <1>5

LEMMA StepProgresses ==
  ASSUME TypeOK, Next, UNCHANGED <<calls, peerVars>>
  PROVE  Progress
<1>1. CASE read_request
  <2>1. calls' = calls + 1 /\ calls \in Nat
    BY <1>1, SizesAssumption DEF read_request, TypeOK
  <2>2. QED
    BY <2>1
<1>2. CASE \/ head_closed \/ head_times_out \/ head_fails \/ length_closed \/ length_fails
           \/ not_chunked \/ chunks_break \/ chunks_break_on_NUL \/ chunks_end
  BY <1>2, ReturnProgresses DEF head_closed, head_times_out, head_fails, length_closed, length_fails,
    not_chunked, chunks_break, chunks_break_on_NUL, chunks_end, AtHead, InLength, InChunks, give_up,
    finish, return, Reading
<1>3. CASE head_received
  BY <1>3, PieceProgresses DEF head_received, peerVars, Stage
<1>4. CASE length_received
  <2>1. pc = "length" /\ pc' \in {"length", "returned"}
    BY <1>4 DEF length_received, InLength, return
  <2>2. CASE pc' = "length"
    BY <1>4, <2>1, <2>2, PieceProgresses DEF length_received, peerVars, Stage
  <2>3. QED
    BY <2>1, <2>2, ReturnProgresses DEF Reading
<1>5. CASE chunks_received
  BY <1>5, PieceProgresses DEF chunks_received, InChunks, peerVars, Stage
<1>6. CASE head_ends \/ length_ends \/ chunks_begin
  <2>1. \/ pc = "head" /\ pc' \in {"length", "framing"}
        \/ pc = "length" /\ pc' = "framing"
        \/ pc = "framing" /\ pc' \in {"decode", "chunks"}
    BY <1>6, Zenon DEF head_ends, length_begins, length_ends, chunks_begin
  <2>2. QED
    BY <2>1 DEF Progress, Stage
<1>7. CASE Turn
  BY <1>7, TurnProgresses
<1>8. CASE peer_sends
  <2>1. arrived' = arrived + 1 /\ arrived' = arrived /\ arrived \in Nat
    <3>1. arrived \in 0 .. Len(Wire(stream)) /\ Len(Wire(stream)) \in Nat
      BY StreamsAssumption, WireProperties, LenProperties DEF TypeOK
    <3>2. QED
      BY <1>8, <3>1 DEF peer_sends, peerVars
  <2>2. QED
    BY <2>1
<1>9. CASE peer_closes
  BY <1>9 DEF peer_closes, peerVars
<1>10. QED
  BY <1>1, <1>2, <1>3, <1>4, <1>5, <1>6, <1>7, <1>8, <1>9 DEF Next, Reader, Turn

(* Whatever a peer sends, and however much of it, every step of a call     *)
(* leaves less to do, in an order in which nothing can become less without *)
(* end: neither the decoder's loop nor those around recv() turn for ever.  *)
THEOREM CallEnds ==
  ASSUME SizesAreNumbers PROVE Spec => CallProgresses
<1>1. TypeOK /\ [Next]_vars => [UNCHANGED <<calls, peerVars>> => Progress]_vars
  BY StepProgresses
<1>2. QED
  BY <1>1, TypeCorrect, PTL DEF Spec, CallProgresses
=============================================================================
