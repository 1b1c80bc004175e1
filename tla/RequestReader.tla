---------------------------- MODULE RequestReader ----------------------------
(***************************************************************************)
(* c_request::read_request of srcs/request/request.cpp: a request is read  *)
(* from a socket up to the blank line, parsed, and its body is read, of an *)
(* announced length or in chunks.  One c_request reads the requests of a   *)
(* connection one after the other.  One action is one recv() with the code *)
(* that follows it, or one turn of the chunk decoder's loop; the peer's    *)
(* steps come in between.                                                  *)
(*                                                                         *)
(* What parse_request does to a head is the subject of Request; here it is *)
(* what it leaves behind: the names it stored, the length, the framing and *)
(* the status of its lines.  A head is HeadLen units on the wire.          *)
(***************************************************************************)
EXTENDS Integers, Sequences, FiniteSets, SequencesExt

CONSTANTS
  Char,          \* the characters of a body
  CR, LF, NUL,
  HeadUnit,      \* a piece of a head, and how many make one
  HeadLen,
  ChunkSize(_),  \* strtoul(_, NULL, 16)
  Hex(_),        \* ... of which it is the inverse
  Streams,       \* the requests a peer may send
  RecvMax,       \* BUFFER_SIZE - 1
  MaxCalls       \* bound: calls of read_request on one object

Names == {"Host", "Content-Length", "Transfer-Encoding"}
Framings == {"Content-Length", "Transfer-Encoding"}

(* What the lines of a head say; chunked: the value of Transfer-Encoding.  *)
HeadResult ==
  [post : BOOLEAN, names : SUBSET Names, length : Nat, chunked : BOOLEAN,
   status : {200, 400, 405, 505}]

(* chunks: what the peer means by the body, if it sends chunks.            *)
Stream == [head : HeadResult, body : Seq(Char), chunks : Seq(Seq(Char))]

ASSUME CharAssumption ==
  {CR, LF, NUL} \subseteq Char /\ HeadUnit \notin Char /\ CR # LF /\ NUL \notin {CR, LF}
ASSUME SizesAssumption == HeadLen \in Nat \ {0} /\ RecvMax \in Nat \ {0} /\ MaxCalls \in Nat
ASSUME StreamsAssumption ==
  \A s \in Streams :
    /\ s \in Stream
    /\ s.head.length > 0 => "Content-Length" \in s.head.names
    /\ s.head.chunked => "Transfer-Encoding" \in s.head.names

(* The sizes of the chunks that are sent are numbers strtoul can read.     *)
ASSUME HexAssumption ==
  \A n \in {0} \cup {Len(c) : c \in UNION {{s.chunks[k] : k \in 1 .. Len(s.chunks)} : s \in Streams}} :
    Hex(n) \in Seq(Char \ {CR, LF}) /\ Hex(n) # <<>> /\ ChunkSize(Hex(n)) = n

VARIABLES
  \* read_request
  pc,              \* idle, head, length, framing, decode, chunks, returned
  calls,           \* how often it was called
  text,            \* request, the local string
  part,            \* body_part
  total_bytes,
  decoding,        \* the string given to fill_body_with_chunks: part or accumulator
  code,            \* the value returned
  \* the object
  names,           \* the keys of _headers
  chunked,         \* is the value of Transfer-Encoding "chunked"?
  content_length,  \* _content_length
  has_body,        \* _has_body
  status_code,     \* _status_code
  error,           \* _error
  body,            \* _body
  accumulator,     \* _chunk_accumulator
  odd_line,        \* _chunk_line_count % 2 = 1: the next line is data
  expected,        \* _expected_chunk_size
  fully_parsed,    \* _request_fully_parsed
  \* the socket and its peer
  stream,          \* the request the peer is sending
  arrived,         \* how much of it has arrived
  closed,          \* and that no more will
  received         \* how much recv() returned

localVars   == <<text, part, total_bytes, decoding, code>>
headVars    == <<names, chunked, content_length, has_body>>
statusVars  == <<status_code, error>>
chunkVars   == <<accumulator, odd_line, expected, fully_parsed>>
peerVars    == <<stream, arrived, closed>>
vars == <<pc, calls, localVars, headVars, statusVars, body, chunkVars, peerVars, received>>

-----------------------------------------------------------------------------
(* Data.                                                                   *)

Smaller(a, b) == IF a <= b THEN a ELSE b

Wire(s) == [k \in 1 .. HeadLen |-> HeadUnit] \o s.body

(* request.append(buffer): the char array ends at its first NUL.           *)
CString(s) ==
  LET end == SelectInSeq(s, LAMBDA c : c = NUL) IN
  IF end = 0 THEN s ELSE SubSeq(s, 1, end - 1)

HasLine(s) == \E k \in 1 .. Len(s) - 1 : s[k] = CR /\ s[k + 1] = LF

(* accumulator.find("\r\n").                                               *)
LineEnd(s) ==
  CHOOSE k \in 1 .. Len(s) - 1 :
    /\ s[k] = CR /\ s[k + 1] = LF
    /\ \A j \in 1 .. k - 1 : ~(s[j] = CR /\ s[j + 1] = LF)

LineOf(s)    == SubSeq(s, 1, LineEnd(s) - 1)
AfterLine(s) == SubSeq(s, LineEnd(s) + 2, Len(s))

-----------------------------------------------------------------------------
(* recv(): bytes, 0, EAGAIN or another error.                              *)

Arrived == received < arrived

Piece == SubSeq(Wire(stream), received + 1, received + Smaller(RecvMax, arrived - received))

Ended   == ~Arrived /\ closed
Nothing == ~Arrived /\ ~closed

Take == received' = received + Len(Piece)

return(value) == pc' = "returned" /\ code' = value

(* Mutant: the status is returned and _error not set.                      *)
give_up_silently(value) ==
  /\ return(value) /\ UNCHANGED error
  /\ UNCHANGED <<calls, text, part, total_bytes, decoding, headVars, status_code>>
  /\ UNCHANGED <<body, chunkVars, peerVars, received>>

(* _error = true; return (value): _status_code stays as it was.            *)
give_up(value) ==
  /\ return(value) /\ error' = TRUE
  /\ UNCHANGED <<calls, text, part, total_bytes, decoding, headVars, status_code>>
  /\ UNCHANGED <<body, chunkVars, peerVars, received>>

finish ==
  /\ return(status_code)
  /\ UNCHANGED <<calls, text, part, total_bytes, decoding, headVars, statusVars>>
  /\ UNCHANGED <<body, accumulator, odd_line, expected, peerVars, received>>

-----------------------------------------------------------------------------
(* The head.                                                               *)

(* Mutant: the chunk state of the request before is kept.                  *)
init_request_keeps_chunks ==
  /\ names' = names /\ chunked' = FALSE
  /\ content_length' = 0 /\ has_body' = FALSE
  /\ status_code' = 200 /\ error' = FALSE
  /\ body' = <<>> /\ fully_parsed' = FALSE
  /\ UNCHANGED <<accumulator, odd_line, expected>>

(* The values of _headers are emptied and its keys stay.  The size_t       *)
(* _expected_chunk_size is set to -1, which nothing reads.                 *)
init_request ==
  /\ names' = names /\ chunked' = FALSE
  /\ content_length' = 0 /\ has_body' = FALSE
  /\ status_code' = 200 /\ error' = FALSE
  /\ body' = <<>> /\ accumulator' = <<>>
  /\ odd_line' = FALSE /\ expected' = -1 /\ fully_parsed' = FALSE

(* The caller goes on after these codes only, and drops what is left of    *)
(* the request: drain_socket.                                              *)
GoesOn == code \notin {400, 408, 413} /\ arrived = Len(Wire(stream))

(* The call; the peer sends its next request, unless it has closed.        *)
read_request ==
  /\ pc = "idle" \/ (pc = "returned" /\ GoesOn)
  /\ calls < MaxCalls
  /\ calls' = calls + 1
  /\ init_request
  /\ text' = <<>> /\ part' = <<>> /\ total_bytes' = 0
  /\ pc' = "head"
  /\ stream' \in Streams
  /\ arrived' = 0 /\ received' = 0
  /\ UNCHANGED <<decoding, code, closed>>

AtHead == pc = "head" /\ Len(text) < HeadLen

head_received ==
  /\ AtHead /\ Arrived
  /\ text' = text \o CString(Piece)
  /\ Take
  /\ UNCHANGED <<pc, calls, part, total_bytes, decoding, code, headVars, statusVars>>
  /\ UNCHANGED <<body, chunkVars, peerVars>>

(* A blocking socket waits for more; on one that does not, or that has a   *)
(* timeout, there is EAGAIN.                                               *)
head_closed    == AtHead /\ Ended /\ give_up(400)
head_times_out == AtHead /\ Nothing /\ give_up(408)
head_fails     == AtHead /\ give_up(500)

(* parse_request, as far as the body depends on it: check_required_headers *)
(* looks at every key in _headers.                                         *)
parse_request ==
  LET head == stream.head
      both == Framings \subseteq names'
  IN  /\ names' = names \cup head.names
      /\ chunked' = head.chunked /\ content_length' = head.length
      /\ has_body' = (head.post /\ names' \cap Framings # {})
      /\ IF "Host" \notin names' \/ (has_body' /\ both)
         THEN status_code' = 400 /\ error' = TRUE
         ELSE status_code' = head.status /\ error' = (head.status # 200)

(* Mutant: find() + 3, so that the blank line's last byte is body.         *)
body_part_early == SubSeq(text, HeadLen, Len(text))

body_part == SubSeq(text, HeadLen + 1, Len(text))

(* Mutant: what came with the head is not counted.                         *)
length_begins_at_0 ==
  body' = body \o body_part /\ total_bytes' = 0 /\ pc' = "length"

length_begins ==
  body' = body \o body_part /\ total_bytes' = Len(body_part) /\ pc' = "length"

head_ends ==
  /\ pc = "head" /\ Len(text) >= HeadLen
  /\ parse_request
  /\ part' = body_part
  /\ IF has_body' /\ content_length' > 0
     THEN length_begins
     ELSE pc' = "framing" /\ UNCHANGED <<body, total_bytes>>
  /\ UNCHANGED <<calls, text, decoding, code, chunkVars, peerVars, received>>

-----------------------------------------------------------------------------
(* A body of an announced length.                                          *)

InLength == pc = "length" /\ total_bytes < content_length

length_received ==
  /\ InLength /\ Arrived
  /\ Take
  /\ total_bytes' = total_bytes + Len(Piece)
  /\ IF total_bytes' > content_length
     THEN return(413) /\ error' = TRUE /\ UNCHANGED body
     ELSE body' = body \o Piece /\ UNCHANGED <<pc, code, error>>
  /\ UNCHANGED <<calls, text, part, decoding, headVars, status_code, chunkVars, peerVars>>

(* Mutant: the end of the stream is tried again like EAGAIN.               *)
length_closed_retried == InLength /\ Ended /\ UNCHANGED vars

length_closed == InLength /\ Ended /\ give_up(400)

(* EAGAIN is retried at once: no step.                                     *)
length_fails == InLength /\ give_up(500)

length_ends ==
  /\ pc = "length" /\ total_bytes >= content_length
  /\ pc' = "framing"
  /\ UNCHANGED <<calls, localVars, headVars, statusVars, body, chunkVars, peerVars, received>>

-----------------------------------------------------------------------------
(* A chunked body.                                                         *)

not_chunked ==
  /\ pc = "framing" /\ ~(has_body /\ chunked)
  /\ fully_parsed' = TRUE
  /\ finish

(* fill_body_with_chunks(body_part), unless nothing came with the head.    *)
chunks_begin ==
  /\ pc = "framing" /\ has_body /\ chunked
  /\ IF part # <<>>
     THEN pc' = "decode" /\ decoding' = "part"
     ELSE pc' = "chunks" /\ UNCHANGED decoding
  /\ UNCHANGED <<calls, text, part, total_bytes, code, headVars, statusVars>>
  /\ UNCHANGED <<body, chunkVars, peerVars, received>>

(* The string fill_body_with_chunks consumes.                              *)
Input == IF decoding = "part" THEN part ELSE accumulator

Consume(rest) ==
  IF decoding = "part" THEN part' = rest /\ UNCHANGED accumulator
  ELSE accumulator' = rest /\ UNCHANGED part

(* What a turn of the decoder's loop leaves alone.                         *)
decoderFrame ==
  /\ UNCHANGED <<calls, text, total_bytes, decoding, code, headVars, peerVars, received>>

(* Mutant: the line that is put back is counted, and the loop goes on.     *)
decode_waits_turning ==
  /\ pc = "decode"
  /\ HasLine(Input) => odd_line /\ LineOf(Input) # <<>> /\ Len(LineOf(Input)) < expected
  /\ pc' = (IF HasLine(Input) THEN "decode" ELSE "chunks")
  /\ odd_line' = (odd_line /\ ~HasLine(Input))
  /\ decoderFrame
  /\ UNCHANGED <<part, statusVars, body, accumulator, expected, fully_parsed>>

(* No line, or a data line that is not all there, which is put back: the   *)
(* decoder waits for more.                                                 *)
decode_waits ==
  /\ pc = "decode"
  /\ HasLine(Input) => odd_line /\ LineOf(Input) # <<>> /\ Len(LineOf(Input)) < expected
  /\ pc' = "chunks"
  /\ decoderFrame
  /\ UNCHANGED <<part, statusVars, body, chunkVars>>

decode_empty_line ==
  /\ pc = "decode" /\ HasLine(Input) /\ LineOf(Input) = <<>>
  /\ Consume(AfterLine(Input))
  /\ decoderFrame
  /\ UNCHANGED <<pc, statusVars, body, odd_line, expected, fully_parsed>>

decode_size ==
  /\ pc = "decode" /\ HasLine(Input) /\ LineOf(Input) # <<>> /\ ~odd_line
  /\ odd_line' = TRUE
  /\ expected' = ChunkSize(LineOf(Input))
  /\ IF expected' = 0
     THEN fully_parsed' = TRUE /\ pc' = "chunks" /\ Consume(<<>>)
     ELSE UNCHANGED <<fully_parsed, pc>> /\ Consume(AfterLine(Input))
  /\ decoderFrame
  /\ UNCHANGED <<statusVars, body>>

decode_data ==
  /\ pc = "decode" /\ HasLine(Input) /\ LineOf(Input) # <<>> /\ odd_line
  /\ Len(LineOf(Input)) >= expected
  /\ odd_line' = FALSE
  /\ Consume(AfterLine(Input))
  /\ IF Len(LineOf(Input)) > expected
     THEN status_code' = 400 /\ error' = TRUE /\ pc' = "chunks" /\ UNCHANGED body
     ELSE body' = body \o LineOf(Input) /\ UNCHANGED <<pc, statusVars>>
  /\ decoderFrame
  /\ UNCHANGED <<expected, fully_parsed>>

InChunks == pc = "chunks" /\ ~fully_parsed /\ ~error

chunks_end ==
  /\ pc = "chunks" /\ (fully_parsed \/ error)
  /\ UNCHANGED fully_parsed
  /\ finish

(* The buffer begins with a NUL, which it does also when recv() has failed *)
(* or met the end of the stream: the loop ends before the error is looked  *)
(* at, and the code after it is never reached.                             *)
chunks_break ==
  /\ InChunks
  /\ UNCHANGED fully_parsed
  /\ finish

chunks_break_on_NUL ==
  /\ InChunks /\ Arrived /\ Piece[1] = NUL
  /\ return(status_code)
  /\ Take
  /\ UNCHANGED <<calls, text, part, total_bytes, decoding, headVars, statusVars>>
  /\ UNCHANGED <<body, chunkVars, peerVars>>

chunks_received ==
  /\ InChunks /\ Arrived /\ Piece[1] # NUL
  /\ Take
  /\ accumulator' = accumulator \o Piece
  /\ pc' = "decode" /\ decoding' = "accumulator"
  /\ UNCHANGED <<calls, text, part, total_bytes, code, headVars, statusVars>>
  /\ UNCHANGED <<body, odd_line, expected, fully_parsed, peerVars>>

-----------------------------------------------------------------------------
(* The peer.                                                               *)

peer_sends ==
  /\ ~closed /\ pc # "idle" /\ arrived < Len(Wire(stream))
  /\ arrived' = arrived + 1
  /\ UNCHANGED <<pc, calls, localVars, headVars, statusVars, body, chunkVars>>
  /\ UNCHANGED <<stream, closed, received>>

peer_closes ==
  /\ ~closed
  /\ closed' = TRUE
  /\ UNCHANGED <<pc, calls, localVars, headVars, statusVars, body, chunkVars>>
  /\ UNCHANGED <<stream, arrived, received>>

-----------------------------------------------------------------------------
Init ==
  /\ pc = "idle" /\ calls = 0
  /\ text = <<>> /\ part = <<>> /\ total_bytes = 0
  /\ decoding = "accumulator" /\ code = 200
  /\ names = {} /\ chunked = FALSE /\ content_length = 0 /\ has_body = FALSE
  /\ status_code = 200 /\ error = FALSE
  /\ body = <<>> /\ accumulator = <<>> /\ odd_line = FALSE /\ expected = -1
  /\ fully_parsed = FALSE
  /\ stream \in Streams /\ arrived = 0 /\ closed = FALSE /\ received = 0

Reader ==
  \/ head_received \/ head_closed \/ head_times_out \/ head_ends
  \/ length_received \/ length_closed \/ length_ends
  \/ not_chunked \/ chunks_begin
  \/ decode_waits \/ decode_empty_line \/ decode_size \/ decode_data
  \/ chunks_received \/ chunks_break \/ chunks_break_on_NUL \/ chunks_end

Next == read_request \/ Reader \/ head_fails \/ length_fails \/ peer_sends \/ peer_closes

Spec == Init /\ [][Next]_vars

(* The thread runs and the peer ends what it has begun, or closes.  While  *)
(* it does neither, a body of an announced length is read in a busy loop.  *)
LiveSpec == Spec /\ WF_vars(Reader) /\ WF_vars(peer_sends) /\ WF_vars(peer_closes)

-----------------------------------------------------------------------------
(* The types, with the order of the three positions in the stream: what    *)
(* recv() returned, what arrived and what the peer sends.                  *)
TypeOK ==
  /\ pc \in {"idle", "head", "length", "framing", "decode", "chunks", "returned"}
  /\ calls \in 0 .. MaxCalls
  /\ text \in Seq(Char \cup {HeadUnit}) /\ part \in Seq(Char) /\ total_bytes \in Nat
  /\ decoding \in {"part", "accumulator"}
  /\ code \in {200, 400, 405, 408, 413, 500, 505}
  /\ names \subseteq Names /\ chunked \in BOOLEAN /\ content_length \in Nat
  /\ has_body \in BOOLEAN
  /\ status_code \in {200, 400, 405, 505} /\ error \in BOOLEAN
  /\ body \in Seq(Char) /\ accumulator \in Seq(Char)
  /\ odd_line \in BOOLEAN /\ expected \in Nat \cup {-1} /\ fully_parsed \in BOOLEAN
  /\ stream \in Streams /\ closed \in BOOLEAN
  /\ arrived \in 0 .. Len(Wire(stream)) /\ received \in 0 .. arrived

(* Every way out of read_request that does not return 200 leaves _error    *)
(* set, and no other does: the caller may look at either.                  *)
ErrorReturned == pc = "returned" => (error <=> code # 200)

HasNoNUL(s) == \A k \in 1 .. Len(s) : s[k] # NUL

ByLength == has_body /\ content_length > 0 /\ ~chunked

(* A body of an announced length is what the peer sent, from its beginning *)
(* and without gaps, however it was cut up; 200 is returned only with all  *)
(* of it, more than announced is taken only if it came with the head, and  *)
(* 413 is returned only to a peer that sends more (request.cpp:61-103).    *)
LengthKept ==
  (ByLength /\ HasNoNUL(stream.body)) =>
    /\ IsPrefix(body, stream.body)
    /\ Len(body) > content_length => body = part
    /\ (pc = "returned" /\ code = 200) => Len(body) >= content_length
    /\ (pc = "returned" /\ code = 413) => Len(stream.body) > content_length

(* How many characters the first k of some parts have together.            *)
LengthOf(parts, k) == Cardinality(UNION {{j} \X (1 .. Len(parts[j])) : j \in 1 .. k})

(* s is the parts put together: FlattenSeq, said of every part.            *)
IsJoined(s, parts) ==
  /\ Len(s) = LengthOf(parts, Len(parts))
  /\ \A k \in 1 .. Len(parts) :
       parts[k] = SubSeq(s, LengthOf(parts, k - 1) + 1, LengthOf(parts, k))

(* A chunk on the wire.  The body ends with an empty one.                  *)
Coded(chunk) == Hex(Len(chunk)) \o <<CR, LF>> \o chunk \o <<CR, LF>>

CodedBody(chunks) == [k \in 1 .. Len(chunks) + 1 |-> Coded(Append(chunks, <<>>)[k])]

(* The chunked bodies this decoder is made for: it looks for the ends of   *)
(* lines, so that the data of a chunk has none in it.                      *)
Decodable(s) ==
  /\ s.head.post /\ s.head.chunked /\ "Content-Length" \notin s.head.names
  /\ \A k \in 1 .. Len(s.chunks) : s.chunks[k] # <<>> /\ ~HasLine(s.chunks[k])
  /\ HasNoNUL(s.body) /\ IsJoined(s.body, CodedBody(s.chunks))

(* What came with the head was not all decoded, and is not kept.           *)
CutAtHead ==
  /\ part # <<>>
  /\ pc \in {"chunks", "returned"} \/ (pc = "decode" /\ decoding = "accumulator")

HeadRefused ==
  stream.head.status # 200 \/ "Host" \notin names \/ Framings \subseteq names

(* Unless a line was cut where the head ends, the decoder has at any time  *)
(* taken whole chunks only, in order and from the first one, for any split *)
(* of the stream and whatever the object was used for before; it takes the *)
(* body for complete only when it is, and finds no error in it             *)
(* (request.cpp:286-340).                                                  *)
ChunksDecoded ==
  (Decodable(stream) /\ ~CutAtHead) =>
    /\ \E k \in 0 .. Len(stream.chunks) :
         /\ IsJoined(body, SubSeq(stream.chunks, 1, k))
         /\ fully_parsed => k = Len(stream.chunks)
    /\ pc \in {"decode", "chunks"} => (error => HeadRefused)

(* How far a call has come: the part of the request it is at, what recv()  *)
(* has not returned of the stream, and what the decoder has before it.     *)
Stage ==
  IF pc = "head" THEN 4 ELSE IF pc = "length" THEN 3 ELSE IF pc = "framing" THEN 2
  ELSE IF pc \in {"decode", "chunks"} THEN 1 ELSE 0

Unread    == Len(Wire(stream)) - received
Undecoded == IF pc = "decode" THEN Len(Input) + 1 ELSE 0

Progress ==
  \/ Stage' < Stage
  \/ Stage' = Stage /\ Unread' \in 0 .. Unread - 1
  \/ Stage' = Stage /\ Unread' = Unread /\ Undecoded' \in 0 .. Undecoded - 1

(* No step of a call leads back to where it has been: it goes on to the    *)
(* next part of the request, takes more of the stream, or, with no more of *)
(* it, decodes a line or stops decoding, also when a line is put back.  So *)
(* a stream of any length and content is read in finitely many steps,      *)
(* except in the busy loop on EAGAIN, which is none (request.cpp:26-145,   *)
(* 286-340).                                                               *)
CallProgresses == [][UNCHANGED <<calls, peerVars>> => Progress]_vars

(* read_request comes back, whatever the peer sends and wherever it stops, *)
(* if it closes in the end.                                                *)
Returns == (pc = "head") ~> (pc = "returned")

-----------------------------------------------------------------------------
(* What the code says of itself and does not do.                           *)

(* request.cpp:117-136: a body that ends early or fails is an error.       *)
InterruptedIsReported ==
  (pc = "returned" /\ has_body /\ chunked /\ code = 200) => fully_parsed

(* request.cpp:310, "Chunk final détecté - Body complet": the body is then *)
(* the one that was sent.                                                  *)
BodyIsComplete ==
  (Decodable(stream) /\ fully_parsed) => IsJoined(body, stream.chunks)
=============================================================================
