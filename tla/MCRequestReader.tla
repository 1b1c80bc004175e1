-------------------------- MODULE MCRequestReader --------------------------
(* RequestReader on small instances for TLC: bodies of one to three bytes, *)
(* of an announced length and in up to two chunks.                         *)
EXTENDS RequestReader

Digits  == <<"0", "1", "2", "3">>
MCChar  == {"0", "1", "2", "3", "x", "CR", "LF", "NUL"}
IsDigit(c) == c \in {"0", "1", "2", "3"}
Value(c)   == (CHOOSE k \in 1 .. 4 : Digits[k] = c) - 1

(* strtoul(s, NULL, 16): the digits that s begins with, or 0.              *)
MCChunkSize(s) ==
  LET other  == SelectInSeq(s, LAMBDA c : ~IsDigit(c))
      number == IF other = 0 THEN s ELSE SubSeq(s, 1, other - 1)
  IN  FoldLeft(LAMBDA n, c : 16 * n + Value(c), 0, number)

MCHex(n) == <<Digits[n + 1]>>

HeadOf(framings, length, chunkedValue) ==
  [post |-> TRUE, names |-> {"Host"} \cup framings, length |-> length,
   chunked |-> chunkedValue, status |-> 200]

ByLengthHead(n) == HeadOf({"Content-Length"}, n, FALSE)
ChunkedHead     == HeadOf({"Transfer-Encoding"}, 0, TRUE)

Sent(head, bytes)  == [head |-> head, body |-> bytes, chunks |-> <<>>]
InPieces(list)     == [head |-> ChunkedHead, body |-> FlattenSeq(CodedBody(list)), chunks |-> list]

SomeChunks ==
  {InPieces(<< <<"x">> >>), InPieces(<< <<"1">>, <<"x", "2">> >>),
   InPieces(<< <<"x", "CR">>, <<"LF", "1">> >>), InPieces(<< <<"NUL", "x">> >>), InPieces(<< <<"x", "CR", "LF">> >>),
   [InPieces(<< <<"x">> >>) EXCEPT !.head.names = {"Transfer-Encoding"}],
   Sent(ChunkedHead, <<"1", "CR", "LF", "x", "x", "CR", "LF">>)}

SomeLengths ==
  {Sent(ByLengthHead(2), <<"x", "1">>), Sent(ByLengthHead(2), <<"x", "1", "2">>),
   Sent(ByLengthHead(3), <<"x", "NUL", "1">>), Sent(ByLengthHead(3), <<"x">>),
   [Sent(ByLengthHead(1), <<"x">>) EXCEPT !.head.status = 505]}

OtherStreams ==
  {Sent(HeadOf(Framings, 2, TRUE), <<"1", "CR", "LF", "x", "CR", "LF">>),
   Sent([HeadOf({}, 0, FALSE) EXCEPT !.post = FALSE], <<>>),
   Sent([HeadOf({}, 0, FALSE) EXCEPT !.names = {}], <<"x">>)}

AllStreams == SomeChunks \cup SomeLengths \cup OtherStreams

(* Two that suffice where one call is enough.                              *)
TwoStreams == {InPieces(<< <<"x">> >>), InPieces(<< <<"1">>, <<"x", "2">> >>)}

ASSUME \A s \in AllStreams : IsJoined(FlattenSeq(s.chunks), s.chunks)

MCStreams   == AllStreams
FewStreams  == TwoStreams
=============================================================================
