--------------------------- MODULE EventLoopProofs ---------------------------
(***************************************************************************)
(* Proofs about EventLoop, for any sets of connections, descriptors,       *)
(* streams and responses and any buffer sizes.                             *)
(***************************************************************************)
EXTENDS EventLoop, SequenceTheorems, FiniteSetTheorems, TLAPS

(* What setup_pollfd wrote is still true of _clients when poll() is called *)
EntriesMatchState ==
  pc = "poll" => \A fd \in Fds : poll_fds[fd] = Entry(fd)

(* A connection that accept() has not returned has seen no recv or send.   *)
NothingBeforeAccept ==
  \A c \in Conns :
    /\ peer[c] = "idle" => sent[c] = 0 /\ read[c] = 0
    /\ peer[c] = "idle" \/ Queued(c) =>
         rcvd[c] = 0 /\ handed[c] = <<>> /\ answers[c] = <<>>

IInv ==
  /\ TypeOK
  /\ DescriptorsMatchClients
  /\ EntriesMatchState
  /\ EventsMatchState
  /\ ResponseInOrder
  /\ NothingBeforeAccept

LEMMA InitTypeOK == Init => TypeOK
<1> SUFFICES ASSUME Init PROVE TypeOK
  OBVIOUS
<1> USE DEF Init
<1>1. ProcessTypes
  BY Zenon DEF ProcessTypes
<1>2. KernelTypes
  BY DEF KernelTypes
<1>3. PeerTypes
  BY DEF PeerTypes
<1>4. HistoryTypes
  BY DEF HistoryTypes
<1>5. CountersBounded
  <2> USE DEF CountersBounded
  <2> TAKE c \in Conns
  <2>1. rcvd[c] = 0 /\ sent[c] = 0 /\ read[c] = 0
    OBVIOUS
  <2>2. Len(stream[c]) = 0 /\ Len(handed[c]) = 0
    OBVIOUS
  <2>3. QED
    BY <2>1, <2>2, SizesAssumption DEF InFlight
<1>6. QED
  BY <1>1, <1>2, <1>3, <1>4, <1>5 DEF TypeOK

LEMMA InitIInv == Init => IInv
<1> SUFFICES ASSUME Init PROVE IInv
  OBVIOUS
<1> USE DEF Init
<1>1. DescriptorsMatchClients
  <2>1. \A fd \in Fds : clients[fd] = NoClient /\ open[fd] = NoConn
    OBVIOUS
  <2>2. Len(backlog) = 0
    OBVIOUS
  <2>3. \A c \in Conns : ~Queued(c) /\ ~Held(c)
    <3>1. \A c \in Conns : ~Queued(c)
      <4>1. \A k \in 1 .. Len(backlog) : FALSE
        BY <2>2
      <4>2. QED
        BY <4>1 DEF Queued
    <3>2. \A c \in Conns : ~Held(c)
      BY <2>1, ConnsAssumption DEF Held
    <3>3. QED
      BY <3>1, <3>2
  <2>4. QED
    BY <2>1, <2>2, <2>3 DEF DescriptorsMatchClients
<1>2. EntriesMatchState /\ EventsMatchState
  BY DEF EntriesMatchState, EventsMatchState
<1>3. ResponseInOrder
  BY DEF ResponseInOrder, ConnInOrder
<1>4. NothingBeforeAccept
  BY DEF NothingBeforeAccept
<1>5. QED
  BY <1>1, <1>2, <1>3, <1>4, InitTypeOK DEF IInv

-----------------------------------------------------------------------------
(* The data: what recv() returns and what becomes of it.                   *)

LEMMA CStringType ==
  ASSUME NEW s \in Seq(Unit)
  PROVE  CString(s) \in Seq(Unit)
<1> DEFINE K == {k \in 1 .. Len(s) : \A j \in 1 .. k : s[j] # "NUL"}
<1> DEFINE L == Len(s)
<1>1. L \in Nat /\ IsFiniteSet(1 .. L) /\ Cardinality(1 .. L) = L
  <2>1. L \in Nat
    OBVIOUS
  <2> HIDE DEF L
  <2>2. IsFiniteSet(1 .. L) /\ Cardinality(1 .. L) = IF 1 > L THEN 0 ELSE L - 1 + 1
    BY <2>1, FS_Interval
  <2>3. QED
    BY <2>1, <2>2
<1>2. Cardinality(K) \in Nat /\ Cardinality(K) <= Len(s)
  BY <1>1, FS_Subset, FS_CardinalityType
<1> HIDE DEF K
<1>3. \A i \in 1 .. Cardinality(K) : s[i] \in Unit
  BY <1>1, <1>2, ElementOfSeq
<1>4. SubSeq(s, 1, Cardinality(K)) \in Seq(Unit)
  BY <1>2, <1>3, SubSeqProperties
<1>5. QED
  BY <1>4 DEF CString, strlen, K

(* The units recv() returns for the client of fd, and their number.        *)
RecvCount(fd) == Smaller(RecvMax, sent[open[fd]] - rcvd[open[fd]])
RecvData(fd)  == SubSeq(stream[open[fd]], rcvd[open[fd]] + 1,
                        rcvd[open[fd]] + RecvCount(fd))

LEMMA RecvTypes ==
  ASSUME TypeOK, NEW fd \in Fds, open[fd] \in Conns, Unread(open[fd])
  PROVE  /\ RecvCount(fd) \in Nat \ {0}
         /\ rcvd[open[fd]] + RecvCount(fd) <= sent[open[fd]]
         /\ RecvData(fd) \in Seq(Unit)
         /\ Len(RecvData(fd)) = RecvCount(fd)
<1> DEFINE c == open[fd]
<1>1. /\ rcvd[c] \in Nat /\ sent[c] \in Nat /\ stream[c] \in Seq(Unit)
      /\ rcvd[c] < sent[c] /\ sent[c] <= Len(stream[c])
  BY StreamsAssumption DEF TypeOK, KernelTypes, PeerTypes, CountersBounded, Unread
<1>2. RecvCount(fd) \in Nat \ {0} /\ rcvd[c] + RecvCount(fd) <= sent[c]
  BY <1>1, SizesAssumption DEF RecvCount, Smaller
<1>3. \A i \in rcvd[c] + 1 .. rcvd[c] + RecvCount(fd) : stream[c][i] \in Unit
  BY <1>1, <1>2, ElementOfSeq
<1>4. QED
  BY <1>1, <1>2, <1>3, SubSeqProperties DEF RecvData

LEMMA BufferType ==
  ASSUME NEW fd \in Fds, clients[fd] \in Client, NEW data \in Seq(Unit)
  PROVE  append_to_read_buffer(fd, data) \in Seq(Unit)
BY CStringType DEF Client, append_to_read_buffer

-----------------------------------------------------------------------------
(* What a handler finds at an entry of the dispatch loop.                  *)

LEMMA EntryHasClient ==
  ASSUME IInv, NEW fd \in Fds, AtEntry(fd)
  PROVE  /\ clients[fd] \in Client /\ clients[fd] # NoClient
         /\ open[fd] \in Conns /\ open[fd] # NoConn
BY ConnsAssumption, SentinelsAssumption DEF IInv, TypeOK, ProcessTypes, KernelTypes,
  AtEntry, EventsMatchState, DescriptorsMatchClients

LEMMA EntryToRead ==
  ASSUME IInv, NEW fd \in Fds, AtEntry(fd), "IN" \in revents[fd]
  PROVE  clients[fd].state = "READING" /\ answers[open[fd]] = <<>>
BY EntryHasClient DEF IInv, AtEntry, EventsMatchState, ResponseInOrder, ClientInOrder

LEMMA EntryToWrite ==
  ASSUME IInv, NEW fd \in Fds, AtEntry(fd), "OUT" \in revents[fd]
  PROVE  /\ clients[fd].state = "SENDING"
         /\ answers[open[fd]] = <<clients[fd].write_buffer>>
         /\ clients[fd].bytes_written \in Nat /\ clients[fd].write_buffer \in Nat
         /\ Len(handed[open[fd]]) = clients[fd].bytes_written
         /\ clients[fd].bytes_written < clients[fd].write_buffer
<1>1. clients[fd].state = "SENDING" /\ clients[fd].bytes_written # Unset
  BY EntryHasClient DEF IInv, AtEntry, EventsMatchState
<1>2. clients[fd].bytes_written \in Nat /\ clients[fd].write_buffer \in Nat
  BY <1>1, EntryHasClient DEF Client
<1>3. QED
  BY <1>1, <1>2, EntryHasClient DEF IInv, ResponseInOrder, ClientInOrder

-----------------------------------------------------------------------------
LEMMA StepProcessTypes == IInv /\ [Next]_vars => ProcessTypes'
<1> SUFFICES ASSUME IInv, [Next]_vars PROVE ProcessTypes'
  OBVIOUS
<1> USE DEF IInv, TypeOK, ProcessTypes
<1>1. CASE create_socket
  BY <1>1 DEF create_socket
<1>2. CASE bind_and_listen
  BY <1>2 DEF bind_and_listen
<1>3. CASE set_non_blocking
  BY <1>3 DEF set_non_blocking
<1>4. CASE setup_pollfd
  BY <1>4 DEF setup_pollfd, Entry, Events, Client, Flag, State
<1>5. CASE poll_reports
  BY <1>5 DEF poll_reports, ClientReady, ServerReady, Flag, NotPolled
<1>6. CASE poll_times_out \/ poll_fails \/ dispatch_ends
  BY <1>6 DEF poll_times_out, poll_fails, dispatch_ends
<1>7. CASE accept_one
  BY <1>7 DEF accept_one, add_client, c_client, Client, FreeFds, State
<1>8. CASE accept_stops \/ server_error
  BY <1>8 DEF accept_stops, server_error, Visited
<1>9. ASSUME NEW fd \in Fds, handle_client_read(fd) PROVE ProcessTypes'
  <2>1. clients[fd] \in Client /\ revents' \in [Fds \cup {ServerFd} -> SUBSET Flag]
    BY <1>9, EntryHasClient DEF handle_client_read, Visited
  <2>2. CASE receive_nothing(fd) /\ UNCHANGED <<sock, nonblocking, poll_fds>>
    BY <2>1, <2>2 DEF receive_nothing, remove_client
  <2>3. CASE receive(fd) /\ UNCHANGED <<sock, nonblocking, poll_fds>>
    <3> DEFINE buf == append_to_read_buffer(fd, RecvData(fd))
    <3>1. buf \in Seq(Unit)
      BY <1>9, <2>1, <2>3, EntryHasClient, RecvTypes, BufferType
      DEF receive, handle_client_read
    <3> HIDE DEF buf
    <3>2. CASE process_client_request(fd, buf)
      <4>1. CASE terminate
        BY <2>1, <2>3, <4>1 DEF terminate
      <4>2. ASSUME NEW m \in Lengths, pc' = pc,
              clients' = [clients EXCEPT ![fd] =
                 [state |-> "SENDING", read_buffer |-> buf,
                  write_buffer |-> m, bytes_written |-> 0]]
            PROVE  ProcessTypes'
        BY <2>1, <2>3, <3>1, <4>2, AnswersAssumption DEF Client, State
      <4>3. QED
        BY <3>2, <4>1, <4>2 DEF process_client_request
    <3>3. CASE clients' = [clients EXCEPT ![fd].read_buffer = buf] /\ UNCHANGED pc
      BY <2>1, <2>3, <3>1, <3>3 DEF Client
    <3>4. QED
      BY <3>2, <3>3, <2>3 DEF receive, buf, RecvData, RecvCount
  <2>4. QED
    BY <1>9, <2>2, <2>3, EntryHasClient DEF handle_client_read
<1>10. ASSUME NEW fd \in Fds, handle_client_write(fd) PROVE ProcessTypes'
  <2>1. /\ clients[fd] \in Client /\ clients[fd].bytes_written \in Nat
        /\ revents' \in [Fds \cup {ServerFd} -> SUBSET Flag]
    BY <1>10, EntryHasClient, EntryToWrite DEF handle_client_write, Visited
  <2>2. CASE remove_client(fd) /\ UNCHANGED <<pc, sock, nonblocking, poll_fds>>
    BY <2>1, <2>2 DEF remove_client
  <2>3. CASE terminate /\ UNCHANGED <<sock, nonblocking, poll_fds>>
    BY <2>1, <2>3 DEF terminate
  <2>4. CASE UNCHANGED <<pc, clients, sock, nonblocking, poll_fds>>
    BY <2>1, <2>4
  <2>5. CASE send_some(fd) /\ UNCHANGED <<sock, nonblocking, poll_fds>>
    BY <2>1, <2>5, <2>2 DEF send_some, written_after, Smaller, Client, remove_client
  <2>6. QED
    BY <1>10, <2>2, <2>3, <2>4, <2>5, EntryHasClient DEF handle_client_write, send_fails
<1>11. ASSUME NEW fd \in Fds, handle_hangup(fd) PROVE ProcessTypes'
  BY <1>11 DEF handle_hangup, remove_client, Visited
<1>12. CASE Peers
  BY <1>12 DEF Peers, procVars, peer_connects, peer_sends, peer_finishes, peer_aborts,
    peer_reads, peer_is_cut
<1>13. CASE UNCHANGED vars
  BY <1>13 DEF vars, procVars
<1>14. QED
  BY <1>1, <1>2, <1>3, <1>4, <1>5, <1>6, <1>7, <1>8, <1>9, <1>10, <1>11, <1>12, <1>13
  DEF Next, Server, Startup, Handlers

-----------------------------------------------------------------------------
(* The steps that leave clients, connections and peers alone.              *)
QuietStep ==
  /\ UNCHANGED <<clients, open, backlog, rcvd, handed, rst>>
  /\ UNCHANGED <<peer, stream, sent, read, answers>>
  /\ polled' = polled \/ polled' = open

LEMMA QuietSteps ==
  ASSUME \/ Startup \/ setup_pollfd \/ poll_reports \/ poll_times_out \/ poll_fails
         \/ accept_stops \/ server_error \/ dispatch_ends \/ UNCHANGED vars
  PROVE  QuietStep
BY DEF QuietStep, Startup, create_socket, bind_and_listen, set_non_blocking,
  setup_pollfd, poll_reports, poll_times_out, poll_fails, accept_stops,
  server_error, dispatch_ends, vars, procVars, kernelVars, peerVars, histVars

LEMMA StepCases ==
  ASSUME [Next]_vars
  PROVE  \/ QuietStep
         \/ accept_one
         \/ \E fd \in Fds : \/ handle_client_read(fd)
                            \/ handle_client_write(fd)
                            \/ handle_hangup(fd)
         \/ Peers
BY QuietSteps DEF Next, Server, Handlers

(* What a connection's part of the response gains when n bytes are sent.   *)
LEMMA SentPieceType ==
  ASSUME NEW w \in Nat, NEW n \in Nat
  PROVE  /\ [k \in 1 .. n |-> w + k] \in Seq(Nat)
         /\ Len([k \in 1 .. n |-> w + k]) = n
BY IsASeq, LenProperties

LEMMA SendOutcome ==
  ASSUME IInv, NEW fd \in Fds, AtEntry(fd), "OUT" \in revents[fd], send_some(fd)
  PROVE  \E n \in Nat \ {0} :
           LET c == open[fd]
               w == clients[fd].bytes_written
           IN  /\ w + n <= clients[fd].write_buffer
               /\ Len(handed[c]) + n - read[c] <= SendCap
               /\ handed' = [handed EXCEPT ![c] = @ \o [k \in 1 .. n |-> w + k]]
               /\ \/ w + n = clients[fd].write_buffer /\ remove_client(fd)
                  \/ /\ w + n < clients[fd].write_buffer
                     /\ clients' = [clients EXCEPT ![fd].bytes_written = w + n]
                     /\ UNCHANGED <<open, rst>>
               /\ UNCHANGED <<pc, backlog>>
<1> DEFINE c == open[fd]
           w == clients[fd].bytes_written
           r == clients[fd].write_buffer - w
           f == SendCap - InFlight(c)
<1>1. c \in Conns /\ w \in Nat /\ clients[fd].write_buffer \in Nat /\ r \in Int
  BY EntryHasClient, EntryToWrite
<1>2. Len(handed[c]) \in Nat /\ read[c] \in Nat /\ f \in Int
  BY <1>1, SizesAssumption DEF IInv, TypeOK, KernelTypes, PeerTypes, InFlight
<1>3. Smaller(r, f) \in Int /\ Smaller(r, f) <= r /\ Smaller(r, f) <= f
  BY <1>1, <1>2 DEF Smaller
<1>4. PICK n \in 1 .. Smaller(r, f) :
        /\ handed' = [handed EXCEPT ![c] = @ \o [k \in 1 .. n |-> w + k]]
        /\ IF w + n >= clients[fd].write_buffer
           THEN remove_client(fd)
           ELSE /\ clients' = [clients EXCEPT ![fd].bytes_written = w + n]
                /\ UNCHANGED <<open, rst>>
  BY DEF send_some, written_after
<1>5. n \in Nat \ {0} /\ w + n <= clients[fd].write_buffer
      /\ Len(handed[c]) + n - read[c] <= SendCap
  <2>1. n \in Nat \ {0} /\ n <= r /\ n <= f
    <3> HIDE DEF r, f
    <3>1. QED
      BY <1>1, <1>2, <1>3
  <2>2. n <= clients[fd].write_buffer - w /\ n <= SendCap - (Len(handed[c]) - read[c])
    BY <2>1 DEF InFlight
  <2> HIDE DEF c, w, r, f
  <2>3. QED
    BY <1>1, <1>2, <2>1, <2>2, SizesAssumption
<1>6. \/ w + n = clients[fd].write_buffer /\ remove_client(fd)
      \/ /\ w + n < clients[fd].write_buffer
         /\ clients' = [clients EXCEPT ![fd].bytes_written = w + n]
         /\ UNCHANGED <<open, rst>>
  BY <1>1, <1>4, <1>5
<1>7. UNCHANGED <<pc, backlog>>
  BY DEF send_some
<1>8. QED
  BY <1>4, <1>5, <1>6, <1>7

LEMMA StepKernelTypes == IInv /\ [Next]_vars => KernelTypes'
<1> SUFFICES ASSUME IInv, [Next]_vars PROVE KernelTypes'
  OBVIOUS
<1> USE DEF IInv, TypeOK, KernelTypes
<1>1. CASE QuietStep
  BY <1>1 DEF QuietStep
<1>2. CASE accept_one
  <2>1. Head(backlog) \in Conns /\ Tail(backlog) \in Seq(Conns)
    BY <1>2 DEF accept_one
  <2>2. QED
    BY <1>2, <2>1 DEF accept_one, FreeFds
<1>3. ASSUME NEW fd \in Fds, handle_client_read(fd) PROVE KernelTypes'
  <2>1. clients[fd] # NoClient /\ open[fd] \in Conns
    BY <1>3, EntryHasClient DEF handle_client_read
  <2>2. CASE receive_nothing(fd) /\ UNCHANGED handed
    BY <2>1, <2>2 DEF receive_nothing, remove_client
  <2>3. CASE receive(fd) /\ UNCHANGED handed
    <3>1. rcvd' \in [Conns -> Nat]
      BY <2>1, <2>3, RecvTypes DEF receive, RecvCount
    <3>2. CASE terminate
      BY <2>3, <3>1, <3>2 DEF terminate
    <3>3. CASE UNCHANGED <<open, backlog, rst>>
      BY <2>3, <3>1, <3>3
    <3>4. QED
      BY <2>3, <3>2, <3>3 DEF receive, process_client_request
  <2>4. QED
    BY <1>3, <2>1, <2>2, <2>3 DEF handle_client_read
<1>4. ASSUME NEW fd \in Fds, handle_client_write(fd) PROVE KernelTypes'
  <2>1. /\ clients[fd] # NoClient /\ open[fd] \in Conns
        /\ clients[fd].bytes_written \in Nat
    BY <1>4, EntryHasClient, EntryToWrite DEF handle_client_write
  <2>2. CASE remove_client(fd) /\ UNCHANGED <<rcvd, backlog, handed>>
    BY <2>1, <2>2 DEF remove_client
  <2>3. CASE terminate /\ UNCHANGED <<rcvd, handed>>
    BY <2>1, <2>3 DEF terminate
  <2>4. CASE UNCHANGED <<open, backlog, rst, rcvd, handed>>
    BY <2>1, <2>4
  <2>5. CASE send_some(fd) /\ UNCHANGED rcvd
    <3>1. PICK n \in Nat : handed' = [handed EXCEPT ![open[fd]] =
                              @ \o [k \in 1 .. n |-> clients[fd].bytes_written + k]]
      BY <1>4, <2>1, <2>5, SendOutcome DEF handle_client_write
    <3>2. handed' \in [Conns -> Seq(Nat)]
      BY <2>1, <3>1, SentPieceType, ConcatProperties
    <3>3. QED
      BY <2>1, <2>5, <3>2 DEF send_some, remove_client
  <2>6. QED
    BY <1>4, <2>1, <2>2, <2>3, <2>4, <2>5 DEF handle_client_write, send_fails
<1>5. ASSUME NEW fd \in Fds, handle_hangup(fd) PROVE KernelTypes'
  BY <1>5 DEF handle_hangup, remove_client
<1>6. ASSUME NEW c \in Conns, peer_connects(c) PROVE KernelTypes'
  BY <1>6, AppendProperties DEF peer_connects
<1>7. ASSUME NEW c \in Conns, peer_sends(c) PROVE KernelTypes'
  BY <1>7 DEF peer_sends
<1>8. ASSUME NEW c \in Conns,
             \/ peer_finishes(c) \/ peer_aborts(c) \/ peer_reads(c) \/ peer_is_cut(c)
      PROVE  KernelTypes'
  BY <1>8 DEF peer_finishes, peer_aborts, peer_reads, peer_is_cut, kernelVars
<1>9. QED
  BY StepCases, <1>1, <1>2, <1>3, <1>4, <1>5, <1>6, <1>7, <1>8 DEF Peers

LEMMA StepPeerTypes == IInv /\ [Next]_vars => PeerTypes'
<1> SUFFICES ASSUME IInv, [Next]_vars PROVE PeerTypes'
  OBVIOUS
<1> USE DEF IInv, TypeOK, PeerTypes
<1>1. CASE UNCHANGED peerVars
  BY <1>1 DEF peerVars
<1>2. ASSUME NEW c \in Conns, peer_connects(c) PROVE PeerTypes'
  BY <1>2 DEF peer_connects
<1>3. ASSUME NEW c \in Conns, peer_sends(c) PROVE PeerTypes'
  BY <1>3 DEF peer_sends
<1>4. ASSUME NEW c \in Conns,
             \/ peer_finishes(c) \/ peer_aborts(c) \/ peer_reads(c) \/ peer_is_cut(c)
      PROVE  PeerTypes'
  BY <1>4 DEF peer_finishes, peer_aborts, peer_reads, peer_is_cut
<1>5. QED
  BY StepCases, <1>1, <1>2, <1>3, <1>4 DEF Peers, QuietStep, accept_one,
    handle_client_read, handle_client_write, handle_hangup, peerVars

LEMMA StepHistoryTypes == IInv /\ [Next]_vars => HistoryTypes'
<1> SUFFICES ASSUME IInv, [Next]_vars PROVE HistoryTypes'
  OBVIOUS
<1> USE DEF IInv, TypeOK, HistoryTypes
<1>1. CASE QuietStep
  BY <1>1 DEF QuietStep, KernelTypes
<1>2. ASSUME NEW fd \in Fds, handle_client_read(fd) PROVE HistoryTypes'
  <2>1. CASE UNCHANGED answers
    BY <1>2, <2>1 DEF handle_client_read
  <2>2. ASSUME NEW n \in Lengths, answers' = [answers EXCEPT ![open[fd]] = Append(@, n)]
        PROVE  HistoryTypes'
    BY <1>2, <2>2, AppendProperties DEF handle_client_read
  <2>3. QED
    BY <1>2, <2>1, <2>2 DEF handle_client_read, receive, receive_nothing,
      process_client_request
<1>3. CASE UNCHANGED histVars
  BY <1>3 DEF histVars
<1>4. QED
  BY StepCases, <1>1, <1>2, <1>3 DEF accept_one, handle_client_write, handle_hangup,
    Peers, peer_connects, peer_sends, peer_finishes, peer_aborts, peer_reads,
    peer_is_cut, histVars

LEMMA StepCountersBounded == IInv /\ [Next]_vars => CountersBounded'
<1> SUFFICES ASSUME IInv, [Next]_vars PROVE CountersBounded'
  OBVIOUS
<1> USE DEF CountersBounded, InFlight
<1>1. \A c \in Conns :
        /\ rcvd[c] \in Nat /\ sent[c] \in Nat /\ read[c] \in Nat
        /\ Len(handed[c]) \in Nat /\ Len(stream[c]) \in Nat
        /\ rcvd[c] <= sent[c] /\ sent[c] <= Len(stream[c])
        /\ read[c] <= Len(handed[c]) /\ Len(handed[c]) - read[c] <= SendCap
  BY StreamsAssumption DEF IInv, TypeOK, KernelTypes, PeerTypes
<1>2. CASE UNCHANGED <<rcvd, handed, sent, read, stream>>
  BY <1>1, <1>2
<1>3. ASSUME NEW fd \in Fds, handle_client_read(fd) PROVE CountersBounded'
  <2>1. CASE UNCHANGED rcvd
    BY <1>1, <1>3, <2>1 DEF handle_client_read, peerVars
  <2>2. CASE receive(fd)
    <3>1. rcvd[open[fd]] + RecvCount(fd) \in Nat
          /\ rcvd[open[fd]] + RecvCount(fd) <= sent[open[fd]]
      BY <1>1, <1>3, <2>2, EntryHasClient, RecvTypes
      DEF handle_client_read, receive, IInv
    <3>2. rcvd' = [rcvd EXCEPT ![open[fd]] = @ + RecvCount(fd)]
          /\ UNCHANGED <<handed, sent, read, stream>>
      BY <1>3, <2>2 DEF handle_client_read, receive, RecvCount, peerVars
    <3>3. QED
      BY <1>1, <3>1, <3>2 DEF IInv, TypeOK, KernelTypes
  <2>3. QED
    BY <1>3, <2>1, <2>2 DEF handle_client_read, receive_nothing
<1>4. ASSUME NEW fd \in Fds, handle_client_write(fd) PROVE CountersBounded'
  <2>1. CASE UNCHANGED handed
    BY <1>1, <1>4, <2>1 DEF handle_client_write, peerVars
  <2>2. CASE send_some(fd)
    <3> DEFINE c == open[fd]
               w == clients[fd].bytes_written
    <3>1. PICK n \in Nat \ {0} :
            /\ Len(handed[c]) + n - read[c] <= SendCap
            /\ handed' = [handed EXCEPT ![c] = @ \o [k \in 1 .. n |-> w + k]]
      BY <1>4, <2>2, SendOutcome DEF handle_client_write
    <3>2. c \in Conns /\ w \in Nat /\ handed \in [Conns -> Seq(Nat)]
      BY <1>4, EntryHasClient, EntryToWrite
      DEF handle_client_write, IInv, TypeOK, KernelTypes
    <3>3. Len(handed'[c]) = Len(handed[c]) + n
      BY <3>1, <3>2, SentPieceType, ConcatProperties
    <3>4. \A d \in Conns : d # c => handed'[d] = handed[d]
      BY <3>1, <3>2
    <3>5. UNCHANGED <<rcvd, sent, read, stream>>
      BY <1>4 DEF handle_client_write, peerVars
    <3> HIDE DEF c
    <3>6. QED
      BY <1>1, <3>1, <3>2, <3>3, <3>4, <3>5
  <2>3. QED
    BY <1>4, <2>1, <2>2 DEF handle_client_write, send_fails
<1>5. ASSUME NEW c \in Conns, peer_connects(c) PROVE CountersBounded'
  <2>1. sent[c] = 0 /\ rcvd[c] = 0
    BY <1>5, <1>1 DEF peer_connects, IInv, NothingBeforeAccept
  <2>2. PICK s \in Streams : stream' = [stream EXCEPT ![c] = s]
    BY <1>5 DEF peer_connects
  <2>3. stream \in [Conns -> Streams \cup {<<>>}] /\ Len(s) \in Nat
    BY StreamsAssumption DEF IInv, TypeOK, PeerTypes
  <2>4. QED
    BY <1>1, <1>5, <2>1, <2>2, <2>3 DEF peer_connects
<1>6. ASSUME NEW c \in Conns, peer_sends(c) PROVE CountersBounded'
  BY <1>1, <1>6 DEF peer_sends, IInv, TypeOK, PeerTypes
<1>7. ASSUME NEW c \in Conns, peer_reads(c) PROVE CountersBounded'
  <2>1. read[c] + 1 <= Len(handed[c])
    BY <1>1, <1>7 DEF peer_reads
  <2>2. read' = [read EXCEPT ![c] = @ + 1] /\ read \in [Conns -> Nat]
        /\ UNCHANGED <<rcvd, handed, sent, stream>>
    BY <1>7 DEF peer_reads, kernelVars, IInv, TypeOK, PeerTypes
  <2>3. QED
    BY <1>1, <2>1, <2>2, SizesAssumption
<1>8. ASSUME NEW c \in Conns, peer_finishes(c) \/ peer_aborts(c) \/ peer_is_cut(c)
      PROVE  CountersBounded'
  BY <1>2, <1>8 DEF peer_finishes, peer_aborts, peer_is_cut, kernelVars
<1>9. QED
  BY StepCases, <1>2, <1>3, <1>4, <1>5, <1>6, <1>7, <1>8 DEF Peers, QuietStep,
    accept_one, handle_hangup, peerVars

LEMMA StepTypeOK == IInv /\ [Next]_vars => TypeOK'
BY StepProcessTypes, StepKernelTypes, StepPeerTypes, StepHistoryTypes,
  StepCountersBounded DEF TypeOK

-----------------------------------------------------------------------------
(* Descriptors and the accept queue.                                       *)

LEMMA AcceptedLeavesQueue ==
  ASSUME backlog \in Seq(Conns), backlog # <<>>, backlog' = Tail(backlog),
         \A j, k \in 1 .. Len(backlog) : backlog[j] = backlog[k] => j = k
  PROVE  /\ Head(backlog) \in Conns /\ Queued(Head(backlog))
         /\ \A d \in Conns : Queued(d)' => Queued(d) /\ d # Head(backlog)
         /\ \A j, k \in 1 .. Len(backlog') : backlog'[j] = backlog'[k] => j = k
<1>1. /\ Len(backlog) \in Nat \ {0} /\ Len(backlog') = Len(backlog) - 1
      /\ Head(backlog) = backlog[1] /\ Head(backlog) \in Conns
      /\ \A k \in 1 .. Len(backlog') : backlog'[k] = backlog[k + 1]
  BY HeadTailProperties
<1>2. QED
  BY <1>1 DEF Queued

LEMMA ConnectedJoinsQueue ==
  ASSUME NEW c \in Conns, ~Queued(c), backlog \in Seq(Conns),
         backlog' = Append(backlog, c),
         \A j, k \in 1 .. Len(backlog) : backlog[j] = backlog[k] => j = k
  PROVE  /\ \A d \in Conns : Queued(d)' => Queued(d) \/ d = c
         /\ \A j, k \in 1 .. Len(backlog') : backlog'[j] = backlog'[k] => j = k
<1>1. /\ Len(backlog) \in Nat /\ Len(backlog') = Len(backlog) + 1
      /\ backlog'[Len(backlog) + 1] = c
      /\ \A k \in 1 .. Len(backlog) : backlog'[k] = backlog[k]
  BY AppendProperties
<1>2. QED
  BY <1>1 DEF Queued

LEMMA RemoveKeepsDescriptors ==
  ASSUME IInv, NEW fd \in Fds, remove_client(fd), UNCHANGED <<backlog, peer>>
  PROVE  DescriptorsMatchClients'
<1>1. \A g \in Fds : /\ clients'[g] = IF g = fd THEN NoClient ELSE clients[g]
                     /\ open'[g] = IF g = fd THEN NoConn ELSE open[g]
  BY DEF IInv, TypeOK, ProcessTypes, KernelTypes, remove_client
<1>2. \A c \in Conns : (Queued(c)' <=> Queued(c)) /\ (Held(c)' => Held(c))
  BY <1>1, ConnsAssumption DEF Queued, Held
<1>3. DescriptorsMatchClients
  BY DEF IInv
<1>4. QED
  BY <1>1, <1>2, <1>3 DEF DescriptorsMatchClients

LEMMA TerminateKeepsDescriptors ==
  ASSUME terminate PROVE DescriptorsMatchClients'
<1>1. /\ \A fd \in Fds : clients'[fd] = NoClient /\ open'[fd] = NoConn
      /\ backlog' = <<>>
  BY DEF terminate
<1>2. \A k \in 1 .. Len(backlog') : FALSE
  BY <1>1
<1>3. \A c \in Conns : ~Queued(c)' /\ ~Held(c)'
  BY <1>1, <1>2, ConnsAssumption DEF Queued, Held
<1>4. QED
  BY <1>1, <1>2, <1>3 DEF DescriptorsMatchClients

LEMMA UpdateKeepsDescriptors ==
  ASSUME IInv, NEW fd \in Fds, clients[fd] # NoClient, NEW r \in Client,
         clients' = [clients EXCEPT ![fd] = r], UNCHANGED <<open, backlog, peer>>
  PROVE  DescriptorsMatchClients'
BY SentinelsAssumption DEF IInv, TypeOK, ProcessTypes, DescriptorsMatchClients, Queued, Held

LEMMA AnsweringIsClient ==
  ASSUME NEW r \in Client, NEW buf \in Seq(Unit), NEW n \in Nat
  PROVE  /\ [state |-> "SENDING", read_buffer |-> buf,
             write_buffer |-> n, bytes_written |-> 0] \in Client
         /\ [r EXCEPT !.read_buffer = buf] \in Client
         /\ [r EXCEPT !.bytes_written = n] \in Client
BY DEF Client, State

LEMMA StepDescriptorsMatchClients == IInv /\ [Next]_vars => DescriptorsMatchClients'
<1> SUFFICES ASSUME IInv, [Next]_vars PROVE DescriptorsMatchClients'
  OBVIOUS
<1>1. CASE QuietStep
  BY <1>1 DEF IInv, QuietStep, DescriptorsMatchClients, Queued, Held
<1>2. CASE accept_one
  <2>1. PICK fd \in FreeFds : /\ open' = [open EXCEPT ![fd] = Head(backlog)]
                             /\ clients' = [clients EXCEPT ![fd] = c_client]
    BY <1>2 DEF accept_one, add_client
  <2>2. /\ Head(backlog) \in Conns /\ Queued(Head(backlog))
        /\ \A d \in Conns : Queued(d)' => Queued(d) /\ d # Head(backlog)
        /\ \A j, k \in 1 .. Len(backlog') : backlog'[j] = backlog'[k] => j = k
    BY <1>2, AcceptedLeavesQueue
    DEF accept_one, IInv, TypeOK, KernelTypes, DescriptorsMatchClients
  <2>3. \A g \in Fds : /\ clients'[g] = IF g = fd THEN c_client ELSE clients[g]
                       /\ open'[g] = IF g = fd THEN Head(backlog) ELSE open[g]
    BY <2>1 DEF FreeFds, IInv, TypeOK, ProcessTypes, KernelTypes
  <2>4. c_client # NoClient
    <3>1. c_client \in Client
      BY DEF c_client, Client, State
    <3>2. QED
      BY <3>1, SentinelsAssumption
  <2>5. DescriptorsMatchClients /\ UNCHANGED peer
    BY <1>2 DEF IInv, accept_one, peerVars
  <2>6. \A g \in Fds : open[g] # Head(backlog)
    BY <2>2, <2>5 DEF DescriptorsMatchClients, Held
  <2>7. \A d \in Conns : Held(d)' => Held(d) \/ d = Head(backlog)
    BY <2>3 DEF Held
  <2>8. /\ \A g \in Fds : clients'[g] = NoClient <=> open'[g] = NoConn
        /\ \A f, g \in Fds : open'[f] = open'[g] /\ open'[f] # NoConn => f = g
    BY <2>2, <2>3, <2>4, <2>5, <2>6, ConnsAssumption DEF DescriptorsMatchClients
  <2>9. \A d \in Conns : /\ Queued(d)' => ~Held(d)'
                         /\ peer'[d] = "idle" => ~Queued(d)' /\ ~Held(d)'
    BY <2>2, <2>5, <2>7 DEF DescriptorsMatchClients
  <2>10. QED
    BY <2>2, <2>8, <2>9 DEF DescriptorsMatchClients
<1>3. ASSUME NEW fd \in Fds, handle_client_read(fd) PROVE DescriptorsMatchClients'
  <2>1. /\ clients[fd] \in Client /\ clients[fd] # NoClient /\ open[fd] \in Conns
        /\ UNCHANGED peer
    BY <1>3, EntryHasClient DEF handle_client_read, peerVars
  <2>2. CASE receive_nothing(fd)
    BY <2>1, <2>2, RemoveKeepsDescriptors DEF receive_nothing
  <2>3. CASE receive(fd)
    <3> DEFINE buf == append_to_read_buffer(fd, RecvData(fd))
    <3>1. buf \in Seq(Unit)
      BY <2>1, <2>3, RecvTypes, BufferType DEF receive, IInv
    <3> HIDE DEF buf
    <3>2. CASE terminate
      BY <3>2, TerminateKeepsDescriptors
    <3>3. CASE /\ UNCHANGED <<open, backlog>>
               /\ \E r \in Client : clients' = [clients EXCEPT ![fd] = r]
      BY <2>1, <3>3, UpdateKeepsDescriptors
    <3>4. CASE process_client_request(fd, buf)
      BY <3>1, <3>2, <3>3, <3>4, <2>1, AnsweringIsClient, AnswersAssumption
      DEF process_client_request
    <3>5. CASE /\ clients' = [clients EXCEPT ![fd].read_buffer = buf]
               /\ UNCHANGED <<open, backlog>>
      BY <3>1, <3>3, <3>5, <2>1, AnsweringIsClient
    <3>6. QED
      BY <2>3, <3>4, <3>5 DEF receive, buf, RecvData, RecvCount
  <2>4. QED
    BY <1>3, <2>1, <2>2, <2>3 DEF handle_client_read
<1>4. ASSUME NEW fd \in Fds, handle_client_write(fd) PROVE DescriptorsMatchClients'
  <2>1. /\ clients[fd] \in Client /\ clients[fd] # NoClient
        /\ clients[fd].bytes_written \in Nat /\ UNCHANGED peer
    BY <1>4, EntryHasClient, EntryToWrite DEF handle_client_write, peerVars
  <2>2. CASE remove_client(fd) /\ UNCHANGED backlog
    BY <2>1, <2>2, RemoveKeepsDescriptors
  <2>3. CASE terminate
    BY <2>3, TerminateKeepsDescriptors
  <2>4. CASE UNCHANGED <<clients, open, backlog>>
    BY <2>1, <2>4 DEF IInv, DescriptorsMatchClients, Queued, Held
  <2>5. CASE send_some(fd)
    <3>1. PICK n \in Nat \ {0} :
            /\ UNCHANGED backlog
            /\ \/ remove_client(fd)
               \/ /\ UNCHANGED open
                  /\ clients' = [clients EXCEPT
                                   ![fd].bytes_written = clients[fd].bytes_written + n]
      BY <1>4, <2>5, SendOutcome DEF handle_client_write
    <3>2. [clients[fd] EXCEPT !.bytes_written = clients[fd].bytes_written + n] \in Client
      BY <2>1 DEF Client
    <3>3. QED
      BY <2>1, <2>2, <3>1, <3>2, UpdateKeepsDescriptors
  <2>6. QED
    BY <1>4, <2>1, <2>2, <2>3, <2>4, <2>5 DEF handle_client_write, send_fails
<1>5. ASSUME NEW fd \in Fds, handle_hangup(fd) PROVE DescriptorsMatchClients'
  BY <1>5, RemoveKeepsDescriptors DEF handle_hangup, peerVars
<1>6. ASSUME NEW c \in Conns, peer_connects(c) PROVE DescriptorsMatchClients'
  <2>1. DescriptorsMatchClients /\ ~Queued(c) /\ ~Held(c)
    BY <1>6 DEF peer_connects, IInv, DescriptorsMatchClients
  <2>2. /\ \A d \in Conns : Queued(d)' => Queued(d) \/ d = c
        /\ \A j, k \in 1 .. Len(backlog') : backlog'[j] = backlog'[k] => j = k
    BY <1>6, <2>1, ConnectedJoinsQueue
    DEF peer_connects, IInv, TypeOK, KernelTypes, DescriptorsMatchClients
  <2>3. UNCHANGED <<clients, open>> /\ \A d \in Conns : Held(d)' <=> Held(d)
    BY <1>6 DEF peer_connects, procVars, Held
  <2>4. \A d \in Conns : peer'[d] = IF d = c THEN "up" ELSE peer[d]
    BY <1>6 DEF peer_connects, IInv, TypeOK, PeerTypes
  <2>5. QED
    BY <2>1, <2>2, <2>3, <2>4 DEF DescriptorsMatchClients
<1>7. ASSUME NEW c \in Conns,
             \/ peer_sends(c) \/ peer_finishes(c) \/ peer_aborts(c)
             \/ peer_reads(c) \/ peer_is_cut(c)
      PROVE  DescriptorsMatchClients'
  <2>1. UNCHANGED <<clients, open, backlog>>
    BY <1>7 DEF peer_sends, peer_finishes, peer_aborts, peer_reads, peer_is_cut,
      procVars, kernelVars
  <2>2. \A d \in Conns : peer'[d] = "idle" => peer[d] = "idle"
    BY <1>7 DEF peer_sends, peer_finishes, peer_aborts, peer_reads, peer_is_cut,
      IInv, TypeOK, PeerTypes, Connected
  <2>3. QED
    BY <2>1, <2>2 DEF IInv, DescriptorsMatchClients, Queued, Held
<1>8. QED
  BY StepCases, <1>1, <1>2, <1>3, <1>4, <1>5, <1>6, <1>7 DEF Peers

-----------------------------------------------------------------------------
(* The poll set and the reported events.                                   *)

LEMMA StepEntriesMatchState == IInv /\ [Next]_vars => EntriesMatchState'
<1> SUFFICES ASSUME IInv, [Next]_vars, pc' = "poll"
             PROVE  \A fd \in Fds : poll_fds'[fd] = Entry(fd)'
  BY DEF EntriesMatchState
<1>1. CASE setup_pollfd
  BY <1>1 DEF setup_pollfd, Entry
<1>2. CASE UNCHANGED <<pc, clients, poll_fds>>
  BY <1>2 DEF IInv, EntriesMatchState, Entry
<1>3. CASE Peers
  BY <1>2, <1>3 DEF Peers, peer_connects, peer_sends, peer_finishes, peer_aborts,
    peer_reads, peer_is_cut, procVars
<1>4. CASE Handlers
  BY <1>4 DEF Handlers, accept_one, accept_stops, server_error, handle_client_read,
    handle_client_write, handle_hangup, dispatch_ends, AtServerEntry, AtEntry, receive,
    receive_nothing, process_client_request, terminate, send_some, send_fails
<1>5. QED
  BY <1>1, <1>2, <1>3, <1>4 DEF Next, Server, Startup, create_socket, bind_and_listen,
    set_non_blocking, poll_reports, poll_times_out, poll_fails, vars, procVars

(* Events of entries still to be visited survive a step that changes the   *)
(* client of another descriptor only.                                      *)
LEMMA OtherEventsStay ==
  ASSUME IInv, pc = "dispatch", NEW fd \in Fds, revents' = [revents EXCEPT ![fd] = {}],
         UNCHANGED polled,
         \A g \in Fds \ {fd} : clients'[g] = clients[g] /\ open'[g] = open[g]
  PROVE  EventsMatchState'
BY DEF IInv, TypeOK, ProcessTypes, EventsMatchState

LEMMA StepEventsMatchState == IInv /\ [Next]_vars => EventsMatchState'
<1> SUFFICES ASSUME IInv, [Next]_vars, pc' = "dispatch" PROVE EventsMatchState'
  BY DEF EventsMatchState
<1>1. CASE poll_reports
  <2>1. /\ \A fd \in Fds : poll_fds[fd] = Entry(fd)
        /\ \A fd \in Fds : \E alt \in SUBSET Fds : revents'[fd] = ClientReady(fd, alt)
        /\ polled' = open /\ UNCHANGED <<clients, open>>
    <3>1. \A fd \in Fds : fd # ServerFd
      BY FdsAssumption
    <3>2. QED
      BY <1>1, <3>1 DEF poll_reports, IInv, EntriesMatchState, kernelVars
  <2>2. ASSUME NEW fd \in Fds, revents'[fd] # {}
        PROVE  /\ clients[fd] # NoClient /\ poll_fds[fd] = Events(clients[fd].state)
               /\ open[fd] # NoConn /\ open[fd] \in Conns
    BY <2>1, <2>2 DEF ClientReady, Entry, IInv, DescriptorsMatchClients, TypeOK, KernelTypes
  <2>3. ASSUME NEW fd \in Fds, revents'[fd] # {}
        PROVE  revents'[fd] \subseteq Events(clients[fd].state) \cup {"ERR", "HUP"}
    BY <2>1, <2>2, <2>3 DEF ClientReady, Events
  <2>4. ASSUME NEW fd \in Fds, clients[fd] # NoClient, clients[fd].state = "SENDING"
        PROVE  clients[fd].bytes_written # Unset
    <3>1. Len(handed[open[fd]]) = clients[fd].bytes_written /\ open[fd] \in Conns
      BY <2>4 DEF IInv, ResponseInOrder, ClientInOrder, DescriptorsMatchClients, TypeOK, KernelTypes
    <3>2. QED
      BY <3>1, SentinelsAssumption DEF IInv, TypeOK, KernelTypes
  <2>5. QED
    BY <2>1, <2>2, <2>3, <2>4 DEF EventsMatchState, Events
<1>2. CASE accept_one
  BY <1>2 DEF accept_one, add_client, FreeFds, AtServerEntry, histVars, IInv, TypeOK,
    ProcessTypes, KernelTypes, EventsMatchState, DescriptorsMatchClients
<1>3. CASE accept_stops \/ server_error
  BY <1>3, FdsAssumption DEF accept_stops, server_error, Visited, AtServerEntry, histVars,
    kernelVars, IInv, TypeOK, ProcessTypes, EventsMatchState
<1>4. ASSUME NEW fd \in Fds,
             handle_client_read(fd) \/ handle_client_write(fd) \/ handle_hangup(fd)
      PROVE  EventsMatchState'
  <2>1. /\ pc = "dispatch" /\ revents' = [revents EXCEPT ![fd] = {}] /\ UNCHANGED polled
    BY <1>4 DEF handle_client_read, handle_client_write, handle_hangup, AtEntry, Visited,
      histVars
  <2>2. \A g \in Fds \ {fd} : clients'[g] = clients[g] /\ open'[g] = open[g]
    <3>1. clients \in [Fds -> Client \cup {NoClient}] /\ open \in [Fds -> Conns \cup {NoConn}]
      BY DEF IInv, TypeOK, ProcessTypes, KernelTypes
    <3>2. CASE handle_client_read(fd)
      BY <3>1, <3>2 DEF handle_client_read, receive, receive_nothing,
        process_client_request, remove_client, terminate
    <3>3. CASE handle_client_write(fd)
      BY <3>1, <3>3 DEF handle_client_write, send_some, send_fails, remove_client, terminate
    <3>4. CASE handle_hangup(fd)
      BY <3>1, <3>4 DEF handle_hangup, remove_client
    <3>5. QED
      BY <1>4, <3>2, <3>3, <3>4
  <2>3. QED
    BY <2>1, <2>2, OtherEventsStay
<1>5. CASE Peers \/ UNCHANGED vars
  <2>1. UNCHANGED <<pc, clients, revents, open, polled>>
    BY <1>5 DEF Peers, peer_connects, peer_sends, peer_finishes, peer_aborts,
      peer_reads, peer_is_cut, procVars, kernelVars, histVars, vars
  <2>2. QED
    BY <2>1 DEF IInv, EventsMatchState
<1>6. QED
  BY <1>1, <1>2, <1>3, <1>4, <1>5 DEF Next, Server, Startup, Handlers, create_socket,
    bind_and_listen, set_non_blocking, setup_pollfd, poll_times_out, poll_fails,
    dispatch_ends

-----------------------------------------------------------------------------
(* The response.                                                           *)

(* A step on the client of one descriptor leaves the other connections'    *)
(* responses alone, for no two descriptors name the same connection.       *)
LEMMA OtherResponsesStay ==
  ASSUME IInv, NEW fd \in Fds, clients[fd] # NoClient, NEW c \in Conns, c = open[fd],
         \A g \in Fds \ {fd} : clients'[g] = clients[g] /\ open'[g] = open[g],
         \A d \in Conns \ {c} : answers'[d] = answers[d] /\ handed'[d] = handed[d],
         ConnInOrder(c)',
         clients'[fd] # NoClient => ClientInOrder(fd)'
  PROVE  ResponseInOrder'
<1>1. ASSUME NEW g \in Fds \ {fd}, clients'[g] # NoClient PROVE ClientInOrder(g)'
  <2>1. open[g] \in Conns /\ open[g] # c
    BY <1>1 DEF IInv, DescriptorsMatchClients, TypeOK, KernelTypes
  <2>2. ClientInOrder(g)
    BY <1>1 DEF IInv, ResponseInOrder
  <2>3. QED
    BY <1>1, <2>1, <2>2 DEF ClientInOrder
<1>2. ASSUME NEW g \in Fds, clients'[g] # NoClient PROVE ClientInOrder(g)'
  BY <1>1, <1>2
<1>3. ASSUME NEW d \in Conns \ {c} PROVE ConnInOrder(d)'
  BY <1>3 DEF IInv, ResponseInOrder, ConnInOrder
<1>4. ASSUME NEW d \in Conns PROVE ConnInOrder(d)'
  BY <1>3
<1>5. QED
  BY <1>2, <1>4 DEF ResponseInOrder

LEMMA SameResponse ==
  ASSUME IInv, UNCHANGED <<answers, handed>>, NEW c \in Conns
  PROVE  ConnInOrder(c)'
BY DEF IInv, ResponseInOrder, ConnInOrder

LEMMA RemoveKeepsResponse ==
  ASSUME IInv, NEW fd \in Fds, clients[fd] # NoClient, remove_client(fd),
         UNCHANGED <<answers, handed>>
  PROVE  ResponseInOrder'
<1>1. /\ \A g \in Fds \ {fd} : clients'[g] = clients[g] /\ open'[g] = open[g]
      /\ clients'[fd] = NoClient
  BY DEF IInv, TypeOK, ProcessTypes, KernelTypes, remove_client
<1>2. PICK c \in Conns : c = open[fd]
  BY DEF IInv, DescriptorsMatchClients, TypeOK, KernelTypes
<1>3. QED
  BY <1>1, <1>2, SameResponse, OtherResponsesStay

LEMMA TerminateKeepsResponse ==
  ASSUME IInv, terminate, UNCHANGED <<answers, handed>>
  PROVE  ResponseInOrder'
<1>1. \A fd \in Fds : clients'[fd] = NoClient
  BY DEF terminate
<1>2. QED
  BY <1>1, SameResponse DEF ResponseInOrder

LEMMA UpdateKeepsResponse ==
  ASSUME IInv, NEW fd \in Fds, clients[fd] # NoClient, NEW r \in Client,
         clients' = [clients EXCEPT ![fd] = r], UNCHANGED <<open, answers, handed>>,
         ClientInOrder(fd)'
  PROVE  ResponseInOrder'
<1>1. \A g \in Fds \ {fd} : clients'[g] = clients[g] /\ open'[g] = open[g]
  BY DEF IInv, TypeOK, ProcessTypes
<1>2. PICK c \in Conns : c = open[fd]
  BY DEF IInv, DescriptorsMatchClients, TypeOK, KernelTypes
<1>3. QED
  BY <1>1, <1>2, SameResponse, OtherResponsesStay

LEMMA ReadKeepsResponse ==
  ASSUME IInv, NEW fd \in Fds, handle_client_read(fd)
  PROVE  ResponseInOrder'
<1> DEFINE buf == append_to_read_buffer(fd, RecvData(fd))
<1>0. PICK c \in Conns : c = open[fd]
  BY EntryHasClient DEF handle_client_read
<1>1. /\ clients[fd] \in Client /\ clients[fd] # NoClient /\ open[fd] \in Conns
      /\ clients[fd].state = "READING" /\ answers[c] = <<>> /\ handed[c] = <<>>
      /\ UNCHANGED handed
  BY <1>0, EntryHasClient, EntryToRead
  DEF handle_client_read, IInv, ResponseInOrder, ConnInOrder
<1>2. CASE receive_nothing(fd)
  BY <1>1, <1>2, RemoveKeepsResponse DEF receive_nothing
<1>3. CASE receive(fd)
  <2>1. buf \in Seq(Unit)
    BY <1>1, <1>3, RecvTypes, BufferType DEF receive, IInv
  <2> HIDE DEF buf
  <2>2. CASE terminate /\ UNCHANGED answers
    BY <1>1, <2>2, TerminateKeepsResponse
  <2>3. CASE /\ clients' = [clients EXCEPT ![fd].read_buffer = buf]
             /\ UNCHANGED <<open, answers>>
    <3>1. clients'[fd] = [clients[fd] EXCEPT !.read_buffer = buf]
      BY <2>3 DEF IInv, TypeOK, ProcessTypes
    <3>2. clients'[fd].state = "READING"
      BY <1>1, <3>1 DEF Client
    <3>3. ClientInOrder(fd)'
      BY <1>0, <1>1, <2>3, <3>2 DEF ClientInOrder
    <3>4. QED
      BY <1>1, <2>1, <2>3, <3>3, AnsweringIsClient, UpdateKeepsResponse
  <2>4. ASSUME NEW n \in Lengths, UNCHANGED open,
               clients' = [clients EXCEPT ![fd] =
                  [state |-> "SENDING", read_buffer |-> buf,
                   write_buffer |-> n, bytes_written |-> 0]],
               answers' = [answers EXCEPT ![c] = Append(@, n)]
        PROVE  ResponseInOrder'
    <3>1. n \in Nat \ {0}
      BY AnswersAssumption
    <3>2. answers'[c] = <<n>> /\ \A d \in Conns \ {c} : answers'[d] = answers[d]
      BY <1>1, <2>4 DEF IInv, TypeOK, HistoryTypes
    <3>3. \A g \in Fds \ {fd} : clients'[g] = clients[g] /\ open'[g] = open[g]
      BY <2>4 DEF IInv, TypeOK, ProcessTypes
    <3>4. ConnInOrder(c)'
      <4>1. Len(answers'[c]) = 1 /\ handed'[c] = <<>>
        BY <1>1, <3>2
      <4>2. QED
        BY <4>1 DEF ConnInOrder
    <3>5. clients'[fd] = [state |-> "SENDING", read_buffer |-> buf,
                          write_buffer |-> n, bytes_written |-> 0]
      BY <2>4 DEF IInv, TypeOK, ProcessTypes
    <3>6. ClientInOrder(fd)'
      BY <1>0, <1>1, <2>4, <3>1, <3>2, <3>5 DEF ClientInOrder
    <3>7. QED
      BY <1>0, <1>1, <3>2, <3>3, <3>4, <3>6, OtherResponsesStay
  <2>5. QED
    BY <1>0, <1>3, <2>2, <2>3, <2>4
    DEF receive, process_client_request, buf, RecvData, RecvCount
<1>4. QED
  BY <1>1, <1>2, <1>3 DEF handle_client_read

LEMMA SendKeepsResponse ==
  ASSUME IInv, NEW fd \in Fds, handle_client_write(fd), send_some(fd)
  PROVE  ResponseInOrder'
<1> DEFINE w == clients[fd].bytes_written
           b == clients[fd].write_buffer
<1>0. PICK c \in Conns : c = open[fd]
  BY EntryHasClient DEF handle_client_write
<1>1. /\ clients[fd] \in Client /\ clients[fd] # NoClient
      /\ clients[fd].state = "SENDING" /\ answers[c] = <<b>>
      /\ w \in Nat /\ b \in Nat /\ Len(handed[c]) = w /\ UNCHANGED answers
  BY <1>0, EntryHasClient, EntryToWrite DEF handle_client_write, histVars
<1>2. handed \in [Conns -> Seq(Nat)] /\ ConnInOrder(c)
  BY <1>1 DEF IInv, TypeOK, KernelTypes, ResponseInOrder
<1>3. PICK n \in Nat \ {0} :
        /\ w + n <= b
        /\ handed' = [handed EXCEPT ![c] = @ \o [k \in 1 .. n |-> w + k]]
        /\ \/ w + n = b /\ remove_client(fd)
           \/ /\ w + n < b
              /\ clients' = [clients EXCEPT ![fd].bytes_written = w + n]
              /\ UNCHANGED open
  BY <1>0, SendOutcome DEF handle_client_write
<1> HIDE DEF w, b
<1>4. /\ handed'[c] = handed[c] \o [k \in 1 .. n |-> w + k]
      /\ \A d \in Conns \ {c} : handed'[d] = handed[d]
  BY <1>1, <1>2, <1>3
<1>5. Len(handed'[c]) = w + n /\ \A k \in 1 .. w + n : handed'[c][k] = k
  <2>1. handed[c] \in Seq(Nat) /\ \A k \in 1 .. w : handed[c][k] = k
    BY <1>1, <1>2 DEF ConnInOrder
  <2>2. \A k \in 1 .. w + n : handed'[c][k] =
           IF k <= w THEN handed[c][k] ELSE [j \in 1 .. n |-> w + j][k - w]
    BY <1>1, <1>3, <1>4, <2>1, SentPieceType, ConcatProperties
  <2>3. QED
    BY <1>1, <1>3, <1>4, <2>1, <2>2, SentPieceType, ConcatProperties
<1>6. ConnInOrder(c)'
  <2>1. answers'[c] = <<b>>
    BY <1>1
  <2>2. Len(answers'[c]) = 1 /\ answers'[c][1] = b
    BY <2>1
  <2>3. answers'[c] # <<>>
    BY <2>2
  <2>4. Len(handed'[c]) <= b
    BY <1>3, <1>5
  <2>5. \A k \in 1 .. Len(handed'[c]) : handed'[c][k] = k
    BY <1>5
  <2>6. QED
    BY <2>2, <2>3, <2>4, <2>5 DEF ConnInOrder
<1>7. \A g \in Fds \ {fd} : clients'[g] = clients[g] /\ open'[g] = open[g]
  BY <1>3 DEF remove_client, IInv, TypeOK, ProcessTypes, KernelTypes
<1>8. clients'[fd] # NoClient => ClientInOrder(fd)'
  <2>1. CASE remove_client(fd)
    BY <2>1 DEF remove_client, IInv, TypeOK, ProcessTypes
  <2>2. CASE /\ w + n < b /\ UNCHANGED open
             /\ clients' = [clients EXCEPT ![fd].bytes_written = w + n]
    <3>1. clients'[fd] = [clients[fd] EXCEPT !.bytes_written = w + n]
      BY <2>2 DEF IInv, TypeOK, ProcessTypes
    <3>2. /\ clients'[fd].state = "SENDING" /\ clients'[fd].write_buffer = b
          /\ clients'[fd].bytes_written = w + n
      BY <1>1, <3>1 DEF Client, b
    <3>3. QED
      BY <1>0, <1>1, <1>5, <2>2, <3>2 DEF ClientInOrder
  <2>3. QED
    BY <1>3, <2>1, <2>2
<1>9. QED
  BY <1>0, <1>1, <1>4, <1>6, <1>7, <1>8, OtherResponsesStay

LEMMA StepResponseInOrder == IInv /\ [Next]_vars => ResponseInOrder'
<1> SUFFICES ASSUME IInv, [Next]_vars PROVE ResponseInOrder'
  OBVIOUS
<1>1. CASE UNCHANGED <<clients, open, handed, answers>>
  BY <1>1 DEF IInv, ResponseInOrder, ConnInOrder, ClientInOrder
<1>2. CASE accept_one
  <2>1. PICK fd \in FreeFds : /\ open' = [open EXCEPT ![fd] = Head(backlog)]
                             /\ clients' = [clients EXCEPT ![fd] = c_client]
    BY <1>2 DEF accept_one, add_client
  <2>2. /\ \A g \in Fds \ {fd} : clients'[g] = clients[g] /\ open'[g] = open[g]
        /\ clients'[fd] = c_client /\ open'[fd] = Head(backlog)
    BY <2>1 DEF FreeFds, IInv, TypeOK, ProcessTypes, KernelTypes
  <2>3. UNCHANGED <<answers, handed>>
    BY <1>2 DEF accept_one, histVars
  <2>4. answers[Head(backlog)] = <<>>
    BY <1>2, AcceptedLeavesQueue DEF accept_one, IInv, TypeOK, KernelTypes,
      DescriptorsMatchClients, NothingBeforeAccept
  <2>5. ClientInOrder(fd)'
    BY <2>2, <2>3, <2>4 DEF ClientInOrder, c_client
  <2>6. \A g \in Fds \ {fd} : clients'[g] # NoClient => ClientInOrder(g)'
    BY <2>2, <2>3 DEF IInv, ResponseInOrder, ClientInOrder
  <2>7. QED
    BY <2>3, <2>5, <2>6, SameResponse DEF ResponseInOrder
<1>3. ASSUME NEW fd \in Fds, handle_client_read(fd) PROVE ResponseInOrder'
  BY <1>3, ReadKeepsResponse
<1>4. ASSUME NEW fd \in Fds, handle_client_write(fd) PROVE ResponseInOrder'
  <2>1. clients[fd] # NoClient /\ UNCHANGED answers
    BY <1>4, EntryHasClient DEF handle_client_write, histVars
  <2>2. CASE remove_client(fd) /\ UNCHANGED handed
    BY <2>1, <2>2, RemoveKeepsResponse
  <2>3. CASE terminate /\ UNCHANGED handed
    BY <2>1, <2>3, TerminateKeepsResponse
  <2>4. CASE UNCHANGED <<clients, open, handed>>
    BY <1>1, <2>1, <2>4
  <2>5. CASE send_some(fd)
    BY <1>4, <2>5, SendKeepsResponse
  <2>6. QED
    BY <1>4, <2>1, <2>2, <2>3, <2>4, <2>5 DEF handle_client_write, send_fails
<1>5. ASSUME NEW fd \in Fds, handle_hangup(fd) PROVE ResponseInOrder'
  BY <1>5, EntryHasClient, RemoveKeepsResponse DEF handle_hangup, histVars
<1>6. CASE QuietStep \/ Peers
  BY <1>1, <1>6 DEF QuietStep, Peers, peer_connects, peer_sends, peer_finishes,
    peer_aborts, peer_reads, peer_is_cut, procVars, kernelVars, histVars
<1>7. QED
  BY StepCases, <1>2, <1>3, <1>4, <1>5, <1>6

(* A connection on its way to accept() is not touched by the handlers of   *)
(* the connections that are held.                                          *)
LEMMA OthersNotTouched ==
  ASSUME IInv, UNCHANGED <<peer, sent, read>>,
         \A d \in Conns : Queued(d)' => Queued(d),
         \A d \in Conns : ~Held(d) =>
           rcvd'[d] = rcvd[d] /\ handed'[d] = handed[d] /\ answers'[d] = answers[d]
  PROVE  NothingBeforeAccept'
<1>1. \A d \in Conns : peer[d] = "idle" \/ Queued(d) => ~Held(d)
  BY DEF IInv, DescriptorsMatchClients
<1>2. QED
  BY <1>1 DEF IInv, NothingBeforeAccept

LEMMA StepNothingBeforeAccept == IInv /\ [Next]_vars => NothingBeforeAccept'
<1> SUFFICES ASSUME IInv, [Next]_vars PROVE NothingBeforeAccept'
  OBVIOUS
<1>1. CASE QuietStep
  BY <1>1 DEF QuietStep, IInv, NothingBeforeAccept, Queued
<1>2. CASE accept_one
  <2>1. \A d \in Conns : Queued(d)' => Queued(d)
    BY <1>2, AcceptedLeavesQueue
    DEF accept_one, IInv, TypeOK, KernelTypes, DescriptorsMatchClients
  <2>2. QED
    BY <1>2, <2>1, OthersNotTouched DEF accept_one, histVars, peerVars
<1>3. ASSUME NEW fd \in Fds,
             handle_client_read(fd) \/ handle_client_write(fd) \/ handle_hangup(fd)
      PROVE  NothingBeforeAccept'
  <2>1. open[fd] \in Conns /\ Held(open[fd])
    BY <1>3, EntryHasClient DEF handle_client_read, handle_client_write, handle_hangup, Held
  <2>2. UNCHANGED <<peer, sent, read>>
    BY <1>3 DEF handle_client_read, handle_client_write, handle_hangup, peerVars
  <2>3. backlog' = backlog \/ backlog' = <<>>
    BY <1>3 DEF handle_client_read, handle_client_write, handle_hangup, receive,
      receive_nothing, process_client_request, terminate, send_some, send_fails
  <2>4. \A d \in Conns : Queued(d)' => Queued(d)
    <3>1. backlog' = <<>> => \A k \in 1 .. Len(backlog') : FALSE
      OBVIOUS
    <3>2. QED
      BY <2>3, <3>1 DEF Queued
  <2>5. \A d \in Conns \ {open[fd]} :
           rcvd'[d] = rcvd[d] /\ handed'[d] = handed[d] /\ answers'[d] = answers[d]
    <3>1. /\ rcvd \in [Conns -> Nat] /\ handed \in [Conns -> Seq(Nat)]
          /\ answers \in [Conns -> Seq(Lengths)]
      BY DEF IInv, TypeOK, KernelTypes, HistoryTypes
    <3>2. CASE handle_client_read(fd)
      BY <3>1, <3>2 DEF handle_client_read, receive, receive_nothing, process_client_request
    <3>3. CASE handle_client_write(fd)
      BY <3>1, <3>3 DEF handle_client_write, send_some, send_fails, histVars
    <3>4. CASE handle_hangup(fd)
      BY <3>4 DEF handle_hangup, histVars
    <3>5. QED
      BY <1>3, <3>2, <3>3, <3>4
  <2>6. QED
    BY <2>1, <2>2, <2>4, <2>5, OthersNotTouched
<1>4. ASSUME NEW c \in Conns, peer_connects(c) PROVE NothingBeforeAccept'
  <2>1. \A d \in Conns : Queued(d)' => Queued(d) \/ d = c
    BY <1>4, ConnectedJoinsQueue
    DEF peer_connects, IInv, TypeOK, KernelTypes, DescriptorsMatchClients
  <2>2. \A d \in Conns : peer'[d] = IF d = c THEN "up" ELSE peer[d]
    BY <1>4 DEF peer_connects, IInv, TypeOK, PeerTypes
  <2>3. peer[c] = "idle" /\ UNCHANGED <<rcvd, handed, answers, sent, read>>
    BY <1>4 DEF peer_connects, histVars
  <2>4. QED
    BY <2>1, <2>2, <2>3 DEF IInv, NothingBeforeAccept
<1>5. ASSUME NEW c \in Conns,
             \/ peer_sends(c) \/ peer_finishes(c) \/ peer_aborts(c)
             \/ peer_reads(c) \/ peer_is_cut(c)
      PROVE  NothingBeforeAccept'
  <2>1. UNCHANGED <<backlog, rcvd, handed, answers>>
    BY <1>5 DEF peer_sends, peer_finishes, peer_aborts, peer_reads, peer_is_cut,
      kernelVars, histVars
  <2>2. peer[c] # "idle"
    BY <1>5 DEF peer_sends, peer_finishes, peer_aborts, peer_reads, peer_is_cut, Connected
  <2>3. \A d \in Conns : peer'[d] = "idle" => peer[d] = "idle"
    BY <1>5, <2>2 DEF peer_sends, peer_finishes, peer_aborts, peer_reads, peer_is_cut,
      IInv, TypeOK, PeerTypes, Connected
  <2>4. \A d \in Conns : peer'[d] = "idle" => sent'[d] = sent[d] /\ read'[d] = read[d]
    <3>1. \A d \in Conns \ {c} : sent'[d] = sent[d] /\ read'[d] = read[d]
      BY <1>5 DEF peer_sends, peer_finishes, peer_aborts, peer_reads, peer_is_cut,
        IInv, TypeOK, PeerTypes
    <3>2. QED
      BY <2>2, <2>3, <3>1
  <2>5. QED
    BY <2>1, <2>3, <2>4 DEF IInv, NothingBeforeAccept, Queued
<1>6. QED
  BY StepCases, <1>1, <1>2, <1>3, <1>4, <1>5 DEF Peers

-----------------------------------------------------------------------------
(* IInv holds in every reachable state.                                    *)
LEMMA StepIInv == IInv /\ [Next]_vars => IInv'
BY StepTypeOK, StepDescriptorsMatchClients, StepEntriesMatchState, StepEventsMatchState,
  StepResponseInOrder, StepNothingBeforeAccept DEF IInv

THEOREM Inductive == Spec => []IInv
BY InitIInv, StepIInv, PTL DEF Spec

(* The variables of the loop, of the kernel and of the peers keep their    *)
(* types, and no counter passes what it counts.                            *)
THEOREM TypeCorrect == Spec => []TypeOK
<1>1. IInv => TypeOK
  BY DEF IInv
<1>2. QED
  BY <1>1, Inductive, PTL

(* _clients and the open descriptors agree at every moment, so that none   *)
(* leaks and none is used once closed.                                     *)
THEOREM DescriptorsCorrect == Spec => []DescriptorsMatchClients
<1>1. IInv => DescriptorsMatchClients
  BY DEF IInv
<1>2. QED
  BY <1>1, Inductive, PTL

(* The dispatch loop never handles a stale event.                          *)
THEOREM NoStaleEvent == Spec => []EventsMatchState
<1>1. IInv => EventsMatchState
  BY DEF IInv
<1>2. QED
  BY <1>1, Inductive, PTL

(* Every connection gets at most one response, each byte of it once and in *)
(* order.                                                                  *)
THEOREM ResponseCorrect == Spec => []ResponseInOrder
<1>1. IInv => ResponseInOrder
  BY DEF IInv
<1>2. QED
  BY <1>1, Inductive, PTL
=============================================================================
