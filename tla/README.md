# webserv: a verification development

webserv is an HTTP/1.1 server in C++98: one thread, one `poll()` loop, plain
sockets. This directory holds TLA+ models of it, the TLC runs that check them
on small instances, and TLAPS proofs about them for instances of any size.
Paths below are relative to the repository; `request.cpp:165` is a line of
`srcs/request/request.cpp`.

## 1. The system

| Component | Source | State | Operations |
|---|---|---|---|
| start-up | `main.cpp` | the listening socket | `create_socket`, `bind_and_listen`, `set_non_blocking`, called in turn; no result is looked at |
| event loop | `polls/polls.cpp` | `_poll_fds` | `setup_pollfd`, `handle_poll_events`, `handle_new_connection`, `handle_client_read`, `handle_client_write`, `process_client_request` |
| client table | `clients/` | `_clients`: descriptor to `c_client` (state, read buffer, write buffer, bytes written) | `add_client`, `remove_client`, `find_client`, the accessors |
| request parser | `request/` | `c_request`: start line, headers, status, `_error`, body fields | `parse_request`, `parse_start_line`, `parse_headers`, `check_required_headers` |
| request reader | `request/request.cpp` | the same, with the chunk accumulator | `read_request`, `fill_body_with_bytes`, `fill_body_with_chunks`; not called by the current `main()` |
| response builder | `response/` | `_response`, `_file_content` | `define_response_content`, `load_file_content`, two builders |
| configuration lexer | `server_config/lexer.cpp` | `_content`, `_pos`, `_tokens` | `open_file`, `get_next_token`, `skip_line`, `read_word` |
| configuration parser | `server_config/parser.cpp` | `_current`, the server being filled | `parse_config`, `parse_server_block`, the directives, `parse_location_block` |
| configuration loading | `server_config/webserv_config.cpp`, `server.cpp`, `location.*` | `_servers` | `load_configuration`, the setters of `c_server`; used by `parsing_main.cpp` only |
| the rest | `utils/`, `www/` | pages | conversions |

How they interact. `main()` runs `setup_pollfd(); handle_poll_events();` for
ever. `setup_pollfd` rebuilds the poll set from `_clients`; the dispatch loop
walks the entries that `poll()` filled in and calls the handlers, which change
`_clients` under it. `handle_client_read` appends to a client's read buffer
and, when the blank line is in it, `process_client_request` parses the buffer
with a fresh `c_request` and lets a fresh `c_response` build the answer;
`handle_client_write` sends it in pieces and then closes the connection.
Everything is on one thread, so the interleavings are between the steps of the
loop and what the kernel and the peers do between any two system calls.

What is hard in it, and what must hold:

- Event loop: the poll snapshot gets stale while it is dispatched (descriptors
  are closed, and reused by `accept()`); receives and sends are partial at any
  point; peers reset, half-close, stall; descriptors run out; every start-up
  call may fail and the loop runs all the same, and a failed `fcntl` leaves it
  to block in `accept()`. No descriptor may leak or be
  mistaken for another; a response must go out whole, once and in order; a
  client must not go early, nor stay for ever.
- Parser: it goes on after an error, later checks overwrite what earlier ones
  found, and the last character of every line is removed whatever it is. The
  errors, the headers and the answer must be those the request's lines call
  for, whatever their number and order.
- Reader: a body in pieces, two framings, errors and the limit of its length.
- Configuration: a token stream that may end anywhere, with or without a
  token for its end; which of two blocks, directives or values a server is
  made from; and errors that must leave by the one `catch` of `parse()`.

`PROJECT.json` lists the hazards one by one, each with the properties that
would show it go wrong, or with the reason why none does yet.

## 2. The modules

| Module | What it is |
|---|---|
| `ConnectionService` | abstract: what the server promises each connection |
| `EventLoop` | start-up, the loop, the handlers, the client table; the kernel and the peers as its environment |
| `MCEventLoop` | `EventLoop` for TLC: streams, descriptors, symmetry |
| `EventLoopProofs` | TLAPS proofs about `EventLoop` |
| `ServiceProofs` | extends them: buffers, closes, and that `EventLoop` implements `ConnectionService` |
| `Request` | `parse_request` over the lines of a head, one action for each line |
| `Exchange` | `process_client_request`: `Request` and the response builder |
| `MCExchange` | `Exchange` for TLC, on real strings |
| `ExchangeProofs` | TLAPS proofs about `Request` and `Exchange` |
| `RequestReader` | `read_request` with the chunk decoder, and the socket it reads from |
| `MCRequestReader` | `RequestReader` for TLC: requests, `strtoul` of hexadecimal digits |
| `RequestReaderProofs` | TLAPS proofs about `RequestReader` |
| `ConfigLexer` | `c_lexer`: a file and its tokens |
| `ConfigParser` | extends it with `c_parser`, the servers it fills and `load_configuration` |
| `MCConfigParser` | `ConfigParser` for TLC: configurations and their edits, short files |
| `ConfigProofs` | TLAPS proofs about `ConfigLexer` and `ConfigParser` |
| `GrammarProofs` | extends them: what is accepted is what the language admits |
| `WrittenProofs` | extends them: the servers are those that the file describes |
| `DataLemmas` | facts about sequences that `RequestReaderProofs`, `ConfigProofs` and what extends it rest on |

The two halves meet at `process_client_request`. `EventLoop` takes it as one
step that gives a response of some length or throws; `Exchange` is that step
taken apart, and `ThrowsOnlyOn` says for which requests it throws. They are
not composed into one state space: the loop never looks at what is in a
request beyond the blank line, and the exchange does no input or output.

### EventLoop

| TLA+ | code |
|---|---|
| `clients[fd]` | `_clients`, `NoClient` where the map has no key; `bytes_written` is `Unset` until it is written, since the constructors leave it uninitialised |
| `poll_fds[fd]`, `revents[fd]` | `_poll_fds`: the events asked for, and what `poll()` returned for the entries still to be visited; the server's entry comes first, then the clients in the order of the map |
| `open[fd]`, `backlog` | the kernel's descriptor table and accept queue |
| `rcvd[c]`, `handed[c]` | what `recv()` has returned of the peer's stream; the response bytes `send()` has taken, each written as its position |
| `rst` | connections on which the server's kernel sent a reset (closed with unread input, or written to after the close) |
| `peer`, `stream`, `sent`, `read` | the peers |
| `polled`, `answers` | history: the connection each descriptor named when `poll()` returned, and the responses computed |

One action is one system call with the code that follows it: `create_socket`,
`bind_and_listen`, `set_non_blocking`; `setup_pollfd`; `poll_reports`,
`poll_times_out`, `poll_fails`; `accept_one`, `accept_stops`, `server_error`
(one turn of the accept loop each); `handle_client_read`,
`handle_client_write`, `handle_hangup` for an entry; `dispatch_ends`. The
peers connect, send a unit, finish (half-close), abort (reset), read, and meet
a reset in between. A request is a sequence of units: `text`, `CRLF`, `NUL`;
two adjacent `CRLF` are the blank line. `append_to_read_buffer` takes a
`char *`, so a piece ends at its first NUL, and so does the model's `CString`;
`ReadBufferHoldsReceived` and `AnsweredAtHead` speak of the connections on
which no NUL was received, whatever comes on others (the comment at
polls.cpp:145 makes no such exception).
The process ends on an exception nothing catches (`Throws`) and on SIGPIPE.

`set_non_blocking` on a socket that is open sets `O_NONBLOCK` or not: a failed
`F_GETFL` or `F_SETFL` (main.cpp:61-65, 68-72) is only logged. Where it is not
set, `accept_one` waits for a connection in place of `accept_stops`, and the
thread stays in the accept loop (`Blocked`).

Abstracted: the bytes of a response, addresses, logging. Not modelled: errors
of `accept()` other than `EAGAIN` and the want of a descriptor; an `ifstream`
that does not open because descriptors are wanting (to the client it is a
file that is not there); and a failed `fcntl` on an accepted socket, on which
`recv()` after a spurious report would wait for data and `send()` of a long
response for the peer to read, and with them the loop.

### Request and Exchange

A head is a start line and field lines, as `getline()` cuts them; `cr` tells
whether `'\r'` came before the `'\n'`. The start line is its words between
single spaces; a field line is a name, what separates it from its value (no
colon, a colon, a colon and a space) and the value. `StartText` and
`FieldText` are `line.erase(line.size() - 1)`: with `cr` the identity, and
without it the loss of a character of the text, of the space, or of the colon.
`start_line` is the first part of `parse_request` and all of
`parse_start_line`; `header_line` one turn of the loop and all of
`parse_headers`; `head_ends` the break and all of `check_required_headers`;
`start_line_throws` and `header_line_throws` the `out_of_range` of `erase` and
`substr`. `define_response_content` is the function of that name with
`load_file_content` and the two builders. `status_code` and `error` keep the
order in which the code overwrites them.

Abstracted: the text. `Text`, `Trim`, `DropLast`, `Number` and the classes of
valid names and values are constants; TLC gets real strings and computes
them (`MCExchange`), the proofs hold for any. The disk is a function from
paths to what `ifstream` finds there, constant during an exchange. The
Content-Length is a natural number; `strtoul` on a number beyond 64 bits is
not modelled. Of an answer the code, the version, the Connection value and
which file or error page it carries are kept.

### RequestReader

`read_request` is the reader of the blocking loop that `main.cpp:93-134` keeps
in a comment; the current `main()` does not call it. One action is one
`recv()` with the code that follows it, for each of the three loops:
`head_*` up to the blank line, `length_*` for an announced length, `chunks_*`
for chunks. `head_ends` is `parse_request` and the first line of each framing;
`decode_*` are the turns of `fill_body_with_chunks`, over the string it was
given (`decoding`: `body_part` or `_chunk_accumulator`). The peer's bytes
arrive one at a time (`arrived`), it may close at any point, and any `recv()`
may fail. A head is `HeadLen` units and what `parse_request` makes of it
(`HeadResult`), which `Request` models line by line; the tests of
`check_required_headers`, which look at more than one head when the object is
used again, are kept. `_chunk_line_count` is its parity (`odd_line`), and of
the header values only whether Transfer-Encoding is `chunked`.

One object reads one request after the other as the commented loop does: the
next call is made unless the code was 400, 408 or 413, and `drain_socket` has
then dropped the rest. The model makes it only when the whole request has
arrived: what a late rest of a body does as the next head is not modelled.

### ConfigLexer and ConfigParser

A file is a sequence of marks (blank, newline, `{`, `}`, `;`) and of the
pieces words are made of: names, and the characters the code looks for in a
word (`/`, `.`, `:`, `#`). Two names never touch, so that a word is read back
as it was written. One lexer action is one turn of `init_list_of_tokens`; a
token's line and column are one number, its place. `Skip` is the loops of
`skip_whitespace`, `skip_line` and `read_word`, each with its own set.

The parser is one recursive descent; `pc` is the place where it next looks at
`*_current`, and an action is what the code does from one look to the next:
`config_server` is the turn of `parse_config` that finds a block,
`server_lbrace` the `expected_token_type` after it, and so on. `throw` is an
exception of any of them; `parse` catches it, and `load_configuration` returns
false (`rejected`). What the code reads behind the last token is `beyond`, one
arbitrary value for the memory there, and `died` is the outcome in which the
process does not survive it: reading it is undefined, and the model has a
choice at every message that is made of it. `_port` of a server without a
`listen` is `Unset`, as the constructor leaves it: one value, told apart from
every port. In the program it is memory that is not initialised, which may
read as the port of the block before; the model does not show that.

Abstracted: the digits of a number (`Digits`, `Number`), which files
`access()` finds executable, and the exceptions' texts. `errno`, which
`parse_ip` reads without clearing it, is not modelled: a number that makes
`strtol` set `ERANGE` is refused for its size as well, and the file with it, so
only a second file loaded by the same process could meet what is left there.
A process loads one.

## 3. What is checked

| Run | Instance | Shows |
|---|---|---|
| `loop_safety` | 2 connections, 2 descriptors, streams of 2-3 units, receives and sends of at most 2, responses of 1 or 3, one with a NUL between two line ends, throwing, resets, spurious readiness, all start-up failures, of `fcntl` too; symmetry | `TypeOK`, `DescriptorsMatchClients`, `EventsMatchState`, `ResponseInOrder`, `ReadBufferHoldsReceived`, `AnsweredAtHead`, `NoPrematureClose`, and that the loop implements `ConnectionService` |
| `loop_live` | 3 connections, of which one may stall at any point, 2 descriptors, send buffer of 1 | `Answered`, `Released`, unless the loop hangs in `accept()` |
| `loop_lost` | 1 connection, a head with a body after it | violation: `HandedIsRead` |
| `loop_sigpipe` | 1 connection that may be reset | violation: `ServerKeepsRunning` |
| `exchange` | 15 start lines; up to 2 fields out of 17, and up to 4 out of 7 known ones | `TypeOK`, `ErrorHasStatus`, `ErrorIffMalformed`, `HeadersAsSent`, `AnswerAsRequested`, `ThrowsOnlyOn` |
| `exchange_error` | the same with up to 1 field (3 known) | violation: `ErrorIsAnswered` |
| `reader` | 15 requests, 2 of any kind on one object; heads of 2 units, pieces of at most 3, bodies of up to 19 bytes; any split, end of stream and error anywhere | `TypeOK`, `ErrorReturned`, `LengthKept`, `ChunksDecoded`, `Returns`, `CallProgresses` |
| `reader_interrupted` | 2 chunked requests, 1 call | violation: `InterruptedIsReported` |
| `reader_split` | the same | violation: `BodyIsComplete` |
| `config` | every file of up to 5 pieces out of 7; 4 configurations of up to 27 words, cut anywhere, with any one word removed, or added or replaced by one of 29; each also with a comment as last line | `TypeOK`, `TokensOfFile`, `StopsAtEOF`, `AcceptedIfGrammatical`, `ServersAsWritten`, `Loads`, `LoadProgresses` |
| `config_cut` | the edits of `server { }` | violation: `OnlyTokensAreRead` |
| `config_described` | the edits of the three configurations of up to 15 words | violation: `DescribedIsNotRefused` |

Why the bounds are enough. Loop: two descriptors and two connections are what
it takes for one entry of a snapshot to outlive another's client and for a
descriptor to be reused; a stream of three units read two at a time splits the
blank line and leaves a rest; a response of 3 over a send buffer of 2 needs
partial sends and meets a full buffer, one of 1 is sent whole. The third
connection of `loop_live` waits in the accept queue while the other two hold
every descriptor. Exchange: every property speaks of a line by itself, of two
lines with the same name, or of the presence of up to three names (Host and
the two framings), so two arbitrary fields and four known ones contain every
combination the code tells apart; the field lines include each separator, each
kind of invalid name and value, each way a bare `'\n'` can eat a character,
and the lines that throw.

Reader: a head of two units and pieces of three put the end of the head at
every place of a piece, and every line of the decoder (a size, data, the
separators themselves) is cut at every place by some arrival; two chunks make
the line counter go round, and two calls are what it takes for something of
one request to survive into the next. The bodies include data of hexadecimal
digits, data that ends in CR or begins with LF, a line end inside data, a
chunk longer than its size, NUL, and more and less than was announced.

Configuration: five pieces hold a word of two names, a comment inside and
after a word and on the last line, and blanks at every place. The four
configurations use every action of the parser, repeat each directive, and have
two blocks of which one lacks what the other has; one changed word is what it
takes to leave the grammar at any token, and the words include the ports and
numbers at the bounds (34, 255, 256, 65535, 65536) and every form of a
`listen` value the code tells apart. The reference grammar is not a second
descent: it says of each token what may stand before it, and it shares no test
with the parser: `ListenWords` lists what may be written after `listen`, where
`is_listen_value` counts colons, cuts the word and tests the parts. It is the
language of the code, one number smaller than the message of parser.cpp:256
says and without what `location.hpp` and `default.conf` describe of locations;
where it falls short of them is the finding of `config_described`.

The loop's passing runs, the exchange, reader and configuration runs say
`CHECK_DEADLOCK FALSE`: a server that has died or that waits in `accept()`,
with its peers gone, an
exchange that is over, a reader that has been called as often as the bound
allows, and a configuration that is loaded, stop.

Symmetry (`loop_safety`) permutes the connections, which no definition tells
apart there; the liveness run uses none.

### Fairness

`LiveSpec` assumes weak fairness of the server, that is of the thread as a
whole: the process is scheduled, and its loop blocks in `poll()`, which has a
timeout of one second, and in an `accept()` on a listening socket that
`fcntl` failed for, which has none. In the second case the thread has no step
to take, no fairness makes it go on, and nobody is served any more:
`Answered` and `Released` are `BlocksForGood \/ ...`, and `BlocksForGood`
(`<>[]Blocked`) holds of no behaviour in which `O_NONBLOCK` was set. It assumes strong fairness of
`poll_reports`: `poll()` may fail (EINTR) any number of times but not every
time that something is ready. It assumes weak fairness of sending, finishing
and reading for the peers in `FairPeers` only; the third may stop anywhere,
without a reset. `Answered` and `Released` speak of fair peers. No fairness is
assumed of individual handlers: that no client is starved follows from the
dispatch loop's visiting every entry. Start-up may fail in `loop_live` as
well; no connection is then made and nothing is promised. A peer of
`loop_live` sends nothing beyond its head, because of what `loop_lost` shows.

The reader's `LiveSpec` assumes weak fairness of the thread, of the arrival of
what the peer has begun and of its closing in the end, and none of the errors
of `recv()`. Without the close `Returns` would be false: `EAGAIN` is retried
in a loop while a body of an announced length is read.

The configuration's `LiveSpec` assumes weak fairness of the one thread that
loads it. `Loads` speaks of files that end in EOF: without it, memory that
looks like a value keeps `parse_index_directive` in its loop.

### Findings

Seven runs end in a violation. Each property is what a comment, a message or
an error path of the repository says of the program.

1. `loop_lost`: the connection is closed with request bytes unread, so the
   kernel sends a reset that can overtake the response (polls.cpp:174, 188).
2. `loop_sigpipe`: `send()` to a reset connection raises SIGPIPE, which ends
   the server; the error path after it expects an error return
   (polls.cpp:173-182).
3. `exchange_error`: a request the parser rejects is served with 200 when its
   method, version, Host and file are in order (response.cpp:34,
   request.cpp:254-256).
4. `reader_interrupted`: a chunked body that ends early is reported with the
   status of its head; the error path after `recv()` is never reached
   (request.cpp:115).
5. `reader_split`: what is left of `body_part` after decoding is dropped, and
   the rest of a size line can be read as the last chunk (request.cpp:109).
6. `config_cut`: a file that breaks off inside a block and ends in a comment
   has no EOF, and the parser reads behind its tokens (parser.cpp:333,
   lexer.cpp:182-186).
7. `config_described`: files are refused at words that the repository
   describes in their place: a location that is a file (parser.cpp:129 against
   location.hpp:97), a directive in a location (parser.cpp:172-189 against
   location.hpp:98 and default.conf:40), and, as a second finding, the port 34
   (parser.cpp:255 against the message of parser.cpp:256). TLC stops at the
   first of them; with each part of the property taken by itself it finds the
   others, `listen 34 ;` among them.

`ThrowsOnlyOn` passes, and its statement is a list of inputs that end the
server: the three kinds of request for which `process_client_request` throws.

## 4. What is proved

The proofs hold for every value of the constants that meets the named
assumptions (`ConnsAssumption`, `FdsAssumption`, `StreamsAssumption`,
`AnswersAssumption`, `SizesAssumption`, `SentinelsAssumption`;
`TextAssumption`, `RequestsAssumption`, `DiskAssumption`; `CharAssumption` and
the reader's own `SizesAssumption` and `StreamsAssumption`, and
`HexAssumption`, that the size line of a chunk holds no line end and is read as
the size it was written for; `NamesAssumption`,
`FilesAssumption`, `DigitsAssumption`, `SetsAssumption`), which TLC evaluates
on every run.

**EventLoop** (`EventLoopProofs`). `TypeCorrect`, `DescriptorsCorrect`,
`NoStaleEvent` and `ResponseCorrect`: any number of connections and
descriptors, any streams and responses, any buffer sizes. None of the four is
inductive. `IInv` adds `EntriesMatchState` (between `setup_pollfd` and
`poll()` the entries still say what the clients' states call for, without
which nothing is known of the events `poll()` reports) and
`NothingBeforeAccept` (a queued connection has no history, without which the
client that `accept()` adds would not start at the beginning of its
response). There is one lemma for each conjunct, split by action; what the
handlers have in common (a removal, an update of one client, the end of the
process) is stated once and cited.

`ServiceProofs` goes on from `IInv`. `BufferCorrect` and `AnswerAtHeadCorrect`
speak of each connection as long as no NUL has come on it. The two are
inductive together: what has no NUL had none before its last piece, a piece
without NUL is its own C string
(`CStringOfPiece`), so the buffer grows as `rcvd` does (`ReceivedExtends`),
and the test for the blank line sees all that was received. `CloseCorrect`
needs two more facts, `Endings`: what `poll()` reported for an entry still to
be visited is still so (`ReportsTrue`), which takes that the server resets no
connection before it has closed it (`NotResetBefore`), or a peer that had
finished could be cut by a reset of ours and its end of file forgotten.
`ServiceImplemented` is the step simulation: `HeldPhase` reads the phase of a
connection off the one descriptor that names it (`DescriptorsMatchClients`),
`OtherPhasesStay` says that a handler moves no other connection, and each
handler is then one abstract action (`AcceptAccepts`, `ProcessAnswers`,
`SendDelivers`, `RemoveHangsUp`, `TerminateCrashes`) or a stutter.

**Request and Exchange** (`ExchangeProofs`). `TypeCorrect`, `StatusCorrect`,
`ErrorCorrect`, `HeadersCorrect`, `AnswerCorrect`, `ThrowsCorrect`: requests
of any length over any text. The properties are stated over the request's
lines, the code works on its own state, and `IInv` ties the two line by line:
after `pos - 1` fields the names stored are those of these fields
(`NamesTaken`), the value of each is that of the last line with its name
(`ValuesTaken`), `_error` says whether one of the lines so far, or the start
line, was not well formed (`ErrorSoFar`), and none of them ended the head or
threw (`LinesTaken`). `AllSeen` shows that at the end these are all the lines
the properties speak of. There is one lemma for each action.
`FieldCheck` carries the argument about damaged lines: a line that lost a
character is in error for want of `'\r'`, so what it turned into is never
taken for what was sent. `NoHostIs400` is why the one place that passes the
status on (`response.cpp:36`) has a page for it.

**RequestReader** (`RequestReaderProofs`). `TypeCorrect`, `ErrorCorrect`,
`LengthCorrect`, `ChunksCorrect` and `CallEnds`: any heads, bodies, chunks,
sizes of head and buffer, any number of calls on one object. All but `ErrorCorrect` have a
hypothesis that TLC cannot evaluate,
`SizesAreNumbers`: `strtoul` of any string is a natural number. `LengthKept`
speaks of the body; what makes it true is elsewhere, and `IInv` says it:
`HeadRead` (`text` begins the stream, and is all that `recv()` returned unless
a NUL cut it), `HeadPassed` (from then on more than the head was returned),
`LengthRead` (in the loop of an announced length the body is what was received
beyond the head, and `total_bytes` its length; more than announced came with
the head), `FreshAtHead` (no body is there when a head begins) and
`StatusAgrees` (`_error` and `_status_code` agree wherever the code goes on,
which is why it may return the one and the caller look at the other).

`ChunksCorrect` shows `ChunksDecoded`. That the body is some chunks put
together (`IsJoined`) is said part by part: where a part begins is the number
of places in the parts before it (`LengthOf`, the cardinality of a set, so that
no induction is needed to reason about it; `LengthOfNext` and `LengthOfGrows`
are all that is). `BodyLayout` says where the size and the data of each chunk
lie in what the peer sends. `DecodeInv` is the invariant: there is a number `k`
of chunks such that the body is the first `k` (`Collected`), and what was
received and not decoded is exactly what the peer sent from the next line on,
which is a size or data as `odd_line` has it, the size being the expected one
(`AtLine`). A turn of the decoder then finds that line and no other:
`NextLine`, since neither a size nor a chunk has an end of line in it, and a
chunk that ends in CR is not taken for half of one (`SizeLine`, `DataLine`,
`TurnLine`). What was received and not decoded is in one of two strings,
`body_part` or `_chunk_accumulator` (`FromPart`), and the other is empty;
where the code changes from the first to the second and the first is not empty,
the rest of it is lost. That is `CutAtHead`, the case the property leaves
out, and it stays so until the next call (`TurnInput`).

`CallEnds` shows `CallProgresses`, the part of `Returns` that needs no
fairness: no call takes steps without end. `Stage`, `Unread` and `Undecoded`
are natural numbers that become less in lexicographic order. `recv()` takes at
least one unit of the stream (`PieceProperties`), what is after a line is
shorter than what the line was cut from (`AfterLineShorter`), and a line that
is put back ends the turns of the decoder (`TurnProgresses`). What is left to
TLC of `Returns` is that a call does not stop before its end, and it would
stop: on `EAGAIN` with an announced length it neither goes on nor returns.

**ConfigLexer and ConfigParser** (`ConfigProofs`). `TypeCorrect`, `EndCorrect`,
`TokensCorrect` and `LoadEnds`: any files of any length over any names.
`LoadEnds` apart, none of them is inductive.
`IInv` adds `ValuesAreWords` (a token that is no delimiter is made of pieces
of a word, so that an address cut out of a `listen` value is a word again),
`StartsAtFirst` (`_current` is set when the tokens are there) and `PathSeen`
(the path a location is stored under is two tokens back when its `}` is
found; the one other way to that place is behind the tokens, where no `}`
follows). `SkipProperties` and `AfterValuesProperties` say where the loops
stop, from the least element of a set of naturals (`LeastNatural`) and not by
induction; `comment` needs that every line ends (`FilesAssumption`, from
`open_file`), or `skip_line` would pass the end of the file.
`AdvanceProperties` is the argument for `StopsAtEOF`: `advance_token` does not
move at EOF, and the loop of `parse_index_directive`, which moves by itself,
stops there because EOF is no value.

`TokensCorrect` shows `TokensOfFile`: the tokens are those of the file, as many
as there are places where one begins, in order, each word with all of its
pieces. `ScanInv` is the invariant. Of the file before `_pos` the tokens are
all there, one for each place where one begins (`TokensBefore`, a
cardinality), and at `_pos` nothing goes on: no word, and no comment
(`Between`). Each turn of the lexer moves `_pos` over a stretch in which nothing
begins, or one token does; a comment's turn may end the file, with no token
for its end.

`LoadEnds` shows `LoadProgresses`, the part of `Loads` that needs no fairness.
`Stage` and `Unread` become less with every turn of the lexer and every token
that is stepped over. A step need not lead over a token: `advance_token` stays
at the end, where an empty word passes for a port and the memory behind the
tokens for a brace, and the parser could go round there. `Looks` says that it
does not: where `advance_token` may stay, the next function is nearer to the
end of the block, and those that lead back into it have tested for the end
before (`AdvanceProgresses`, `ParserProgresses`). The proof covers files that
break off; `parse_index_directive` is one step, whose loop behind the tokens
`Loads` leaves out.

`GrammarProofs` shows `AcceptanceCorrect`: the recursive descent accepts the
language of `MayStand`, no more and no less, whatever the file. The argument
has three parts. `TokensTyped` and `EOFIsLast`: the lexer's tokens have the
type that their value tells, and EOF ends them. `Reading`: the tokens before
`_current` are each in their place, and `Follows` says for each function of the
parser what stands directly before it, one to three tokens of one kind each
(`KindAt`); that is all the descent remembers, with `has_location`. And
`MayFollow`: after those tokens the language admits only what the function
looks for, so each exception is thrown at a token that may not stand there.
`WordsOfListen` is where the parser's test of a `listen` value meets the list
of the language: a word of the list has one colon, directly before the port,
or none (`PartsOfListed`), and a word that passes the test is put together
from an address and a port of the list (`PartsOfRead`, `PartsTell`).
For an index directive, which reads many tokens in one step, `OneIndex` says
that the word `index` before them is theirs. The case left over is `BrokeOff`:
the tokens ended inside a block, and either there is EOF, which no function
takes for more than an empty `listen` value, or what is behind them decides;
only the acceptance of such a file is excepted (`BreaksOff`).

`WrittenProofs` shows `ServersCorrect`, of the files that the language admits.
`Written` is the invariant that it takes: each server that is stored has what
the tokens of one whole block say (`Finished`), the block is known by how many
begin before it (`NumberOf`), and the local `server` has what those say that are
read of the block in work (`IsRead`); a path comes late, when the `}` of its
location is read (`PathsUpTo`). A step keeps it by two kinds of argument.
`ReadOn`: after a token that does not follow `listen`, `index` or `location`
nothing of what was read changes, and `InBlock` says that no block begins
before the one in work has ended. `AddressNext`, `IndexNext` and `PathsNext`:
after a token that does follow one of these words, it is the last such place,
and the server has it; the port and the address are those of the written word
(`WordsOfListen`), however the code cuts it. `BlockIs` and `NumberUnique` then tell that the n-th
server's block is the n-th of the file. `ValuesNotEmpty`, that no word is
empty, is needed because an empty `listen` value is read as port 0.

Model-checked only: liveness (`Answered`, `Released`, `Returns`, `Loads`),
which is out of this prover's reach under fairness (of `Returns` and `Loads`
the part without fairness is proved, see above), and what the seven runs of
section 3 refute. Every invariant and action property of a passing run is
stated by a theorem.

## 5. What is not modelled

- `drain_socket` (never called) and the blocking loop in a comment of
  `main.cpp`.
- The functions of the configuration parser that nothing calls (`peek_token`,
  `parse_server_name`, `location_url_file`) and the members of `c_location`
  that nothing sets.
- `get_content_type`, printing, `int_to_string`: no control.
- Memory exhaustion, signals other than SIGPIPE, `poll()` on a changed
  descriptor limit.

## 6. Plan

Done: `ConnectionService`, `EventLoop`, `Request`, `Exchange`,
`RequestReader`, `ConfigLexer` and `ConfigParser`, their runs and the proofs
of section 4. In the order of what matters most:

1. An abstract specification of the reader, which delivers the body or an
   error, and that length-framed requests refine it.

Bounds: runs of the plan stay below a minute each.
