------------------------------ MODULE EventLoop ------------------------------
(***************************************************************************)
(* The server proper: main() of srcs/main.cpp, the poll loop of            *)
(* srcs/polls/polls.cpp and the client table of srcs/clients/.             *)
(*                                                                         *)
(* One thread runs setup_pollfd() and handle_poll_events() for ever.  Its  *)
(* actors are the kernel (descriptors, accept queue, socket buffers) and   *)
(* the peers, whose steps interleave with every step of the loop.  Data is *)
(* abstracted to what the loop tells apart: a request is a sequence of     *)
(* units in which two adjacent CRLF units are the blank line that ends the *)
(* head, a response is its length, and a byte of it is its position.       *)
(***************************************************************************)
EXTENDS Integers, Sequences, FiniteSets

CONSTANTS
  Conns,      \* TCP connections that peers may open, each at most once
  Fds,        \* descriptors the process has left for them (its fd limit)
  ServerFd,   \* _socket_fd
  Streams,    \* what a peer may send over one connection
  Answers,    \* lengths process_client_request may give a response, or Throws
  Throws,     \* ... the outcome of parsing or loading a file that throws
  RecvMax,    \* sizeof(buffer) - 1 in handle_client_read
  SendCap,    \* capacity of a socket's send buffer
  Aborters,   \* connections whose peer may reset them
  FairPeers,  \* connections whose peer keeps sending and reading
  Spurious,   \* may poll() report readiness that is gone when it is used?
  NoConn, NoClient, Unset

Unit     == {"text", "CRLF", "NUL"}
Flag     == {"IN", "OUT", "ERR", "HUP", "NVAL"}
State    == {"READING", "PROCESSING", "SENDING", "DISCONNECTED"}
NotPolled == {"absent"}  \* no entry of _poll_fds
Lengths  == Answers \ {Throws}

(* A client of _clients: what class c_client keeps and the loop uses.      *)
Client == [state : State, read_buffer : Seq(Unit),
           write_buffer : Nat, bytes_written : Nat \cup {Unset}]

ASSUME ConnsAssumption == 
  /\ NoConn \notin Conns
  /\ Aborters \subseteq Conns /\ FairPeers \subseteq Conns
ASSUME FdsAssumption ==
  /\ Fds \subseteq Nat
  /\ ServerFd \in Nat \ Fds
ASSUME StreamsAssumption == Streams \subseteq Seq(Unit)
ASSUME AnswersAssumption == Lengths \subseteq Nat \ {0}
ASSUME SizesAssumption == RecvMax \in Nat \ {0} /\ SendCap \in Nat \ {0}
ASSUME SpuriousAssumption == Spurious \in BOOLEAN
ASSUME SentinelsAssumption ==
  /\ Unset \notin Nat
  /\ NoClient \notin Client

VARIABLES
  \* the process
  pc,           \* where main() is: create, bind, nonblock, setup, poll, dispatch, dead
  sock,         \* the listening socket: none, closed, unbound, listening
  nonblocking,  \* is O_NONBLOCK set on it?
  clients,      \* _clients
  poll_fds,     \* _poll_fds: the events asked of each client descriptor
  revents,      \* what poll() reported for the entries not visited yet
  \* the kernel
  open,         \* the connection a descriptor names
  backlog,      \* the queue accept() serves
  rcvd,         \* units of a connection's stream that recv() returned
  handed,       \* the response bytes send() took, in order
  rst,          \* the connections whose server end sent a reset
  \* the peers
  peer,         \* idle, up, fin (sends no more, still reads), reset (by itself)
                \* or cut (it met a reset from the server)
  stream,       \* what the peer means to send
  sent,         \* how much of it it sent
  read,         \* how many response bytes it read
  \* history, for the properties only
  polled,       \* the connection each descriptor named when poll() returned
  answers       \* the responses computed for a connection

procVars   == <<pc, sock, nonblocking, clients, poll_fds, revents>>
kernelVars == <<open, backlog, rcvd, handed, rst>>
peerVars   == <<peer, stream, sent, read>>
histVars   == <<polled, answers>>
vars       == <<procVars, kernelVars, peerVars, histVars>>

-----------------------------------------------------------------------------
(* Data.                                                                   *)

(* get_read_buffer().find("\r\n\r\n") != npos.                             *)
HeadComplete(s) == \E k \in 1 .. Len(s) - 1 : s[k] = "CRLF" /\ s[k + 1] = "CRLF"

(* append_to_read_buffer(buffer): the char array becomes a std::string,    *)
(* which ends at its first NUL.                                            *)
strlen(s)  == Cardinality({k \in 1 .. Len(s) : \A j \in 1 .. k : s[j] # "NUL"})
CString(s) == SubSeq(s, 1, strlen(s))

Smaller(a, b) == IF a <= b THEN a ELSE b

(* Mutant: the constructor forgets _state(READING).                        *)
c_client_no_state == [state |-> Unset, read_buffer |-> <<>>,
                      write_buffer |-> 0, bytes_written |-> Unset]

(* The c_client constructor: _bytes_written is left uninitialised.         *)
c_client == [state |-> "READING", read_buffer |-> <<>>,
             write_buffer |-> 0, bytes_written |-> Unset]

Queued(c)   == \E k \in 1 .. Len(backlog) : backlog[k] = c
Held(c)     == \E fd \in Fds : open[fd] = c
Unread(c)   == rcvd[c] < sent[c]
InFlight(c) == Len(handed[c]) - read[c]
FreeFds     == {fd \in Fds : open[fd] = NoConn}

-----------------------------------------------------------------------------
(* The client table.                                                       *)

(* add_client on the descriptor accept() returned.                         *)
add_client(fd) == clients' = [clients EXCEPT ![fd] = c_client]

(* Mutant: erase without close(fd).                                        *)
remove_client_no_close(fd) ==
  clients' = [clients EXCEPT ![fd] = NoClient] /\ UNCHANGED <<open, rst>>

(* remove_client: close(fd), then erase.  Closing a socket that still      *)
(* holds unread input makes the kernel send a reset in place of a FIN.     *)
remove_client(fd) ==
  /\ open' = [open EXCEPT ![fd] = NoConn]
  /\ clients' = [clients EXCEPT ![fd] = NoClient]
  /\ rst' = rst \cup {c \in Conns : c = open[fd] /\ Unread(c)}

(* The process ends: an exception that main() does not catch, or SIGPIPE.  *)
(* The kernel closes its sockets, and resets what waits in the queue.      *)
terminate ==
  /\ pc' = "dead"
  /\ clients' = [fd \in Fds |-> NoClient]
  /\ open' = [fd \in Fds |-> NoConn]
  /\ backlog' = <<>>
  /\ rst' = rst \cup {c \in Conns : Queued(c) \/ (Held(c) /\ rcvd'[c] < sent[c])}

-----------------------------------------------------------------------------
(* Start-up: main() calls the three in turn and looks at no result.        *)

create_socket ==
  /\ pc = "create"
  /\ \E s \in {"none", "closed", "unbound"} : sock' = s
  /\ pc' = "bind"
  /\ UNCHANGED <<nonblocking, clients, poll_fds, revents>>
  /\ UNCHANGED <<kernelVars, peerVars, histVars>>

bind_and_listen ==
  /\ pc = "bind"
  /\ sock' \in IF sock = "unbound" THEN {"listening", "unbound"} ELSE {sock}
  /\ pc' = "nonblock"
  /\ UNCHANGED <<nonblocking, clients, poll_fds, revents>>
  /\ UNCHANGED <<kernelVars, peerVars, histVars>>

(* Either fcntl() may fail, which is logged and no more.                   *)
set_non_blocking ==
  /\ pc = "nonblock"
  /\ nonblocking' \in IF sock \in {"unbound", "listening"} THEN BOOLEAN ELSE {FALSE}
  /\ pc' = "setup"
  /\ UNCHANGED <<sock, clients, poll_fds, revents>>
  /\ UNCHANGED <<kernelVars, peerVars, histVars>>

-----------------------------------------------------------------------------
(* One turn of the loop: setup_pollfd, then poll().                        *)

(* Mutant: a client being answered is still read from.                     *)
Events_always_IN(state) == IF state = "SENDING" THEN {"IN", "OUT"} ELSE {"IN"}

(* Mutant: the 0 that a comment of setup_pollfd considers for a client     *)
(* being answered ("POLLOUT ou 0? a tester").                              *)
Events_never_OUT(state) == IF state = "READING" THEN {"IN"} ELSE {}

(* The events setup_pollfd asks for.                                       *)
Events(state) ==
  {e \in {"IN", "OUT"} : \/ e = "IN"  /\ state = "READING"
                         \/ e = "OUT" /\ state = "SENDING"}

(* The entry setup_pollfd makes for a descriptor: none without a client.   *)
Entry(fd) ==
  IF clients[fd] = NoClient \/ clients[fd].state = "DISCONNECTED"
  THEN NotPolled
  ELSE Events(clients[fd].state)

(* Mutant: the vector is not emptied first.                                *)
setup_pollfd_no_clear ==
  /\ pc = "setup"
  /\ poll_fds' = [fd \in Fds |->
        IF Entry(fd) = NotPolled THEN poll_fds[fd] ELSE Entry(fd)]
  /\ pc' = "poll"
  /\ UNCHANGED <<sock, nonblocking, clients, revents>>
  /\ UNCHANGED <<kernelVars, peerVars, histVars>>

(* The vector is emptied and rebuilt from _clients.                        *)
setup_pollfd ==
  /\ pc = "setup"
  /\ poll_fds' = [fd \in Fds |-> Entry(fd)]
  /\ pc' = "poll"
  /\ UNCHANGED <<sock, nonblocking, clients, revents>>
  /\ UNCHANGED <<kernelVars, peerVars, histVars>>

(* What poll() finds: for the listening socket ...                         *)
ServerReady ==
  {e \in Flag : \/ e = "IN"   /\ sock = "listening" /\ backlog # <<>>
                \/ e = "HUP"  /\ sock = "unbound"
                \/ e = "NVAL" /\ sock = "closed"}

(* ... and for a client.  A reset connection reports ERR and HUP, alone or *)
(* (fd in alt) with what was asked; a spurious report (fd in alt) claims   *)
(* readiness that recv() or send() will not find.                          *)
ClientReady(fd, alt) ==
  LET c     == open[fd]
      asked == poll_fds[fd]
      ready == {e \in asked :
                  \/ e = "IN" /\ (Unread(c) \/ peer[c] = "fin")
                  \/ e = "OUT" /\ InFlight(c) < SendCap}
  IN  IF asked = NotPolled THEN {}
      ELSE IF c = NoConn THEN {"NVAL"}
      ELSE IF peer[c] = "reset" THEN {"ERR", "HUP"} \cup (IF fd \in alt THEN asked ELSE {})
      ELSE IF fd \in alt /\ Spurious THEN asked
      ELSE ready

poll_reports ==
  /\ pc = "poll"
  /\ \E alt \in SUBSET Fds :
       revents' = [fd \in Fds \cup {ServerFd} |->
                     IF fd = ServerFd THEN ServerReady
                     ELSE ClientReady(fd, alt)]
  /\ \E fd \in Fds \cup {ServerFd} : revents'[fd] # {}
  /\ polled' = open
  /\ pc' = "dispatch"
  /\ UNCHANGED <<sock, nonblocking, clients, poll_fds, answers>>
  /\ UNCHANGED <<kernelVars, peerVars>>

(* The one-second timeout, when nothing is ready.                          *)
poll_times_out ==
  /\ pc = "poll"
  /\ ServerReady = {}
  /\ \A fd \in Fds : ClientReady(fd, {}) = {}
  /\ pc' = "setup"
  /\ UNCHANGED <<sock, nonblocking, clients, poll_fds, revents>>
  /\ UNCHANGED <<kernelVars, peerVars, histVars>>

(* poll() returns -1: logged, and the loop starts over.                    *)
poll_fails ==
  /\ pc = "poll"
  /\ pc' = "setup"
  /\ UNCHANGED <<sock, nonblocking, clients, poll_fds, revents>>
  /\ UNCHANGED <<kernelVars, peerVars, histVars>>

-----------------------------------------------------------------------------
(* The dispatch loop visits the server's entry first and then the clients' *)
(* in the order of the map, which is that of their descriptors.            *)

AtServerEntry == pc = "dispatch" /\ revents[ServerFd] # {}

AtEntry(fd) ==
  /\ pc = "dispatch"
  /\ revents[ServerFd] = {}
  /\ revents[fd] # {}
  /\ \A g \in Fds : g < fd => revents[g] = {}

Visited(fd) == revents' = [revents EXCEPT ![fd] = {}]

dispatch_ends ==
  /\ pc = "dispatch"
  /\ \A fd \in Fds \cup {ServerFd} : revents[fd] = {}
  /\ pc' = "setup"
  /\ UNCHANGED <<sock, nonblocking, clients, poll_fds, revents>>
  /\ UNCHANGED <<kernelVars, peerVars, histVars>>

(* handle_new_connection: one turn of its accept loop.  The kernel gives   *)
(* the lowest free descriptor.                                             *)
accept_one ==
  /\ AtServerEntry /\ "IN" \in revents[ServerFd]
  /\ backlog # <<>>
  /\ \E fd \in FreeFds :
       /\ \A g \in FreeFds : fd <= g
       /\ open' = [open EXCEPT ![fd] = Head(backlog)]
       /\ add_client(fd)
  /\ backlog' = Tail(backlog)
  /\ UNCHANGED <<pc, sock, nonblocking, poll_fds, revents>>
  /\ UNCHANGED <<rcvd, handed, rst, peerVars, histVars>>

(* accept() < 0: EAGAIN, on a socket that does not block, or EMFILE.  On a *)
(* socket that blocks the call returns with the next connection only: this *)
(* action is not enabled, accept_one will be (see Blocked).                *)
accept_stops ==
  /\ AtServerEntry /\ "IN" \in revents[ServerFd]
  /\ FreeFds = {} \/ (backlog = <<>> /\ nonblocking)
  /\ Visited(ServerFd)
  /\ UNCHANGED <<pc, sock, nonblocking, clients, poll_fds>>
  /\ UNCHANGED <<kernelVars, peerVars, histVars>>

(* POLLERR, POLLHUP or POLLNVAL on the server's entry: only logged.        *)
server_error ==
  /\ AtServerEntry /\ "IN" \notin revents[ServerFd]
  /\ Visited(ServerFd)
  /\ UNCHANGED <<pc, sock, nonblocking, clients, poll_fds>>
  /\ UNCHANGED <<kernelVars, peerVars, histVars>>

-----------------------------------------------------------------------------
(* handle_client_read.                                                     *)

(* process_client_request: parse the buffer, build the response, turn to   *)
(* sending it.  buf is the read buffer after append_to_read_buffer.        *)
process_client_request(fd, buf) ==
  \/ \E n \in Lengths :
       /\ clients' = [clients EXCEPT ![fd] =
            [state |-> "SENDING", read_buffer |-> buf,
             write_buffer |-> n, bytes_written |-> 0]]
       /\ answers' = [answers EXCEPT ![open[fd]] = Append(@, n)]
       /\ UNCHANGED <<pc, open, backlog, rst>>
  \/ Throws \in Answers /\ terminate /\ UNCHANGED answers

(* Mutant: the buffer keeps the last piece received only.                  *)
append_to_read_buffer_assigns(fd, data) == CString(data)

append_to_read_buffer(fd, data) == clients[fd].read_buffer \o CString(data)

(* Mutant: the blank line is looked for in the piece received.             *)
head_received_in_piece(fd, data) == HeadComplete(CString(data))

head_received(fd, data) == HeadComplete(append_to_read_buffer(fd, data))

(* recv() > 0: what has arrived, up to the size of the local buffer.       *)
receive(fd) ==
  LET c    == open[fd]
      n    == Smaller(RecvMax, sent[c] - rcvd[c])
      data == SubSeq(stream[c], rcvd[c] + 1, rcvd[c] + n)
      buf  == append_to_read_buffer(fd, data)
  IN  /\ Unread(c)
      /\ rcvd' = [rcvd EXCEPT ![c] = @ + n]
      /\ IF head_received(fd, data)
         THEN process_client_request(fd, buf)
         ELSE /\ clients' = [clients EXCEPT ![fd].read_buffer = buf]
              /\ UNCHANGED <<pc, open, backlog, rst, answers>>

(* Mutant: recv() < 0, so that end of file is not noticed.                 *)
receive_nothing_but_eof(fd) ==
  /\ ~Unread(open[fd]) \/ peer[open[fd]] = "reset"
  /\ IF peer[open[fd]] = "fin"
     THEN UNCHANGED <<clients, open, rst>>
     ELSE remove_client(fd)
  /\ UNCHANGED <<pc, backlog, rcvd, answers>>

(* recv() <= 0: end of file, a reset, or EAGAIN after a spurious report.   *)
(* All three remove the client.                                            *)
receive_nothing(fd) ==
  /\ ~Unread(open[fd]) \/ peer[open[fd]] = "reset"
  /\ remove_client(fd)
  /\ UNCHANGED <<pc, backlog, rcvd, answers>>

handle_client_read(fd) ==
  /\ AtEntry(fd) /\ "IN" \in revents[fd]
  /\ Visited(fd)
  /\ IF clients[fd] = NoClient
     THEN UNCHANGED <<pc, clients, open, backlog, rst, rcvd, answers>>
     ELSE receive(fd) \/ receive_nothing(fd)
  /\ UNCHANGED <<sock, nonblocking, poll_fds, handed, polled, peerVars>>

-----------------------------------------------------------------------------
(* handle_client_write.                                                    *)

(* Mutant: set_bytes_written(bytes_sent).                                  *)
written_after_last(written, n) == n

(* set_bytes_written(bytes_written + bytes_sent).                          *)
written_after(written, n) == written + n

(* send() > 0: any part of what remains that the socket buffer has room    *)
(* for.  The client goes when its last byte has been taken.                *)
send_some(fd) ==
  LET c         == open[fd]
      written   == clients[fd].bytes_written
      remaining == clients[fd].write_buffer - written
  IN  /\ peer[c] # "reset"
      /\ \E n \in 1 .. Smaller(remaining, SendCap - InFlight(c)) :
           /\ handed' = [handed EXCEPT ![c] = @ \o [k \in 1 .. n |-> written + k]]
           /\ IF written_after(written, n) >= clients[fd].write_buffer
              THEN remove_client(fd)
              ELSE /\ clients' = [clients EXCEPT
                                    ![fd].bytes_written = written_after(written, n)]
                   /\ UNCHANGED <<open, rst>>
      /\ UNCHANGED <<pc, backlog>>

(* Mutant: errno is not looked at.                                         *)
send_fails_on_EAGAIN(fd) ==
  LET c == open[fd] IN
  /\ \/ /\ peer[c] # "reset" /\ InFlight(c) >= SendCap
        /\ remove_client(fd) /\ UNCHANGED <<pc, backlog>>
     \/ peer[c] = "reset" /\ remove_client(fd) /\ UNCHANGED <<pc, backlog>>
     \/ peer[c] = "reset" /\ terminate
  /\ UNCHANGED handed

(* send() <= 0: EAGAIN keeps the client; ECONNRESET removes it; EPIPE      *)
(* raises SIGPIPE, which nothing blocks or ignores.                        *)
send_fails(fd) ==
  LET c == open[fd] IN
  /\ \/ /\ peer[c] # "reset" /\ InFlight(c) >= SendCap
        /\ UNCHANGED <<pc, clients, open, backlog, rst>>
     \/ peer[c] = "reset" /\ remove_client(fd) /\ UNCHANGED <<pc, backlog>>
     \/ peer[c] = "reset" /\ terminate
  /\ UNCHANGED handed

handle_client_write(fd) ==
  /\ AtEntry(fd) /\ "IN" \notin revents[fd] /\ "OUT" \in revents[fd]
  /\ Visited(fd)
  /\ UNCHANGED rcvd
  /\ IF clients[fd] = NoClient
     THEN UNCHANGED <<pc, clients, open, backlog, rst, handed>>
     ELSE IF clients[fd].write_buffer = clients[fd].bytes_written
     THEN remove_client(fd) /\ UNCHANGED <<pc, backlog, handed>>
     ELSE send_some(fd) \/ send_fails(fd)
  /\ UNCHANGED <<sock, nonblocking, poll_fds, histVars, peerVars>>

(* Only POLLERR, POLLHUP or POLLNVAL: remove_client at once.               *)
handle_hangup(fd) ==
  /\ AtEntry(fd) /\ revents[fd] \cap {"IN", "OUT"} = {}
  /\ Visited(fd)
  /\ remove_client(fd)
  /\ UNCHANGED <<pc, sock, nonblocking, poll_fds>>
  /\ UNCHANGED <<backlog, rcvd, handed, histVars, peerVars>>

-----------------------------------------------------------------------------
(* The peers.                                                              *)

Connected(c) == peer[c] \in {"up", "fin"}

peer_connects(c) ==
  /\ peer[c] = "idle" /\ sock = "listening" /\ pc # "dead"
  /\ peer' = [peer EXCEPT ![c] = "up"]
  /\ \E s \in Streams : stream' = [stream EXCEPT ![c] = s]
  /\ backlog' = Append(backlog, c)
  /\ UNCHANGED <<procVars, open, rcvd, handed, rst, sent, read, histVars>>

(* One unit leaves the peer.  A connection the server has closed answers   *)
(* it with a reset.                                                        *)
peer_sends(c) ==
  /\ peer[c] = "up" /\ sent[c] < Len(stream[c])
  /\ sent' = [sent EXCEPT ![c] = @ + 1]
  /\ rst' = IF Queued(c) \/ Held(c) THEN rst ELSE rst \cup {c}
  /\ UNCHANGED <<procVars, open, backlog, rcvd, handed, peer, stream, read, histVars>>

peer_finishes(c) ==
  /\ peer[c] = "up"
  /\ peer' = [peer EXCEPT ![c] = "fin"]
  /\ UNCHANGED <<procVars, kernelVars, stream, sent, read, histVars>>

peer_aborts(c) ==
  /\ c \in Aborters /\ Connected(c)
  /\ peer' = [peer EXCEPT ![c] = "reset"]
  /\ UNCHANGED <<procVars, kernelVars, stream, sent, read, histVars>>

peer_reads(c) ==
  /\ Connected(c) /\ InFlight(c) > 0
  /\ read' = [read EXCEPT ![c] = @ + 1]
  /\ UNCHANGED <<procVars, kernelVars, peer, stream, sent, histVars>>

(* A reset from the server overtakes what the peer has not read.           *)
peer_is_cut(c) ==
  /\ Connected(c) /\ c \in rst
  /\ peer' = [peer EXCEPT ![c] = "cut"]
  /\ UNCHANGED <<procVars, kernelVars, stream, sent, read, histVars>>

-----------------------------------------------------------------------------
Init ==
  /\ pc = "create" /\ sock = "none" /\ nonblocking = FALSE
  /\ clients = [fd \in Fds |-> NoClient]
  /\ poll_fds = [fd \in Fds |-> NotPolled]
  /\ revents = [fd \in Fds \cup {ServerFd} |-> {}]
  /\ open = [fd \in Fds |-> NoConn]
  /\ backlog = <<>>
  /\ rcvd = [c \in Conns |-> 0]
  /\ handed = [c \in Conns |-> <<>>]
  /\ rst = {}
  /\ peer = [c \in Conns |-> "idle"]
  /\ stream = [c \in Conns |-> <<>>]
  /\ sent = [c \in Conns |-> 0]
  /\ read = [c \in Conns |-> 0]
  /\ polled = [fd \in Fds |-> NoConn]
  /\ answers = [c \in Conns |-> <<>>]

Startup == create_socket \/ bind_and_listen \/ set_non_blocking

Handlers ==
  \/ accept_one \/ accept_stops \/ server_error
  \/ \E fd \in Fds : \/ handle_client_read(fd)
                     \/ handle_client_write(fd)
                     \/ handle_hangup(fd)
  \/ dispatch_ends

Server ==
  \/ Startup
  \/ setup_pollfd \/ poll_reports \/ poll_times_out \/ poll_fails
  \/ Handlers

Peers ==
  \E c \in Conns :
    \/ peer_connects(c) \/ peer_sends(c) \/ peer_finishes(c)
    \/ peer_aborts(c) \/ peer_reads(c) \/ peer_is_cut(c)

Next == Server \/ Peers

Spec == Init /\ [][Next]_vars

-----------------------------------------------------------------------------
(* Fairness.  The thread is scheduled, unless it blocks in accept(), and   *)
(* poll() does not fail for ever while something is ready.  A fair peer    *)
(* sends what it means to send, then says so, and reads what it is sent;   *)
(* the others may stall at any point.                                      *)
PeerFairness(c) ==
  WF_vars(peer_sends(c)) /\ WF_vars(peer_finishes(c)) /\ WF_vars(peer_reads(c))

LiveSpec ==
  /\ Spec
  /\ WF_vars(Server) /\ SF_vars(poll_reports)
  /\ \A c \in FairPeers : PeerFairness(c)

-----------------------------------------------------------------------------
(* Properties.                                                             *)

Received(c) == SubSeq(stream[c], 1, rcvd[c])

NoNul(s) == \A k \in 1 .. Len(s) : s[k] # "NUL"

ProcessTypes ==
  /\ pc \in {"create", "bind", "nonblock", "setup", "poll", "dispatch", "dead"}
  /\ sock \in {"none", "closed", "unbound", "listening"}
  /\ nonblocking \in BOOLEAN
  /\ clients \in [Fds -> Client \cup {NoClient}]
  /\ poll_fds \in [Fds -> (SUBSET Flag) \cup {NotPolled}]
  /\ revents \in [Fds \cup {ServerFd} -> SUBSET Flag]

KernelTypes ==
  /\ open \in [Fds -> Conns \cup {NoConn}]
  /\ backlog \in Seq(Conns)
  /\ rcvd \in [Conns -> Nat]
  /\ handed \in [Conns -> Seq(Nat)]
  /\ rst \in SUBSET Conns

PeerTypes ==
  /\ peer \in [Conns -> {"idle", "up", "fin", "reset", "cut"}]
  /\ stream \in [Conns -> Streams \cup {<<>>}]
  /\ sent \in [Conns -> Nat]
  /\ read \in [Conns -> Nat]

HistoryTypes ==
  /\ polled \in [Fds -> Conns \cup {NoConn}]
  /\ answers \in [Conns -> Seq(Lengths)]

CountersBounded ==
  \A c \in Conns :
    /\ rcvd[c] <= sent[c] /\ sent[c] <= Len(stream[c])
    /\ read[c] <= Len(handed[c]) /\ InFlight(c) <= SendCap

(* The variables keep their types, and no counter passes what it counts.   *)
TypeOK ==
  ProcessTypes /\ KernelTypes /\ PeerTypes /\ HistoryTypes /\ CountersBounded

(* No descriptor leaks and none is used after close(): _clients has an     *)
(* entry for exactly the descriptors that name a connection, and no        *)
(* connection is held twice, queued twice, or held and queued.             *)
DescriptorsMatchClients ==
  /\ \A fd \in Fds : clients[fd] = NoClient <=> open[fd] = NoConn
  /\ \A f, g \in Fds : open[f] = open[g] /\ open[f] # NoConn => f = g
  /\ \A c \in Conns : Queued(c) => ~Held(c)
  /\ \A j, k \in 1 .. Len(backlog) : backlog[j] = backlog[k] => j = k
  /\ \A c \in Conns : peer[c] = "idle" => ~Queued(c) /\ ~Held(c)

(* The dispatch loop acts on a snapshot.  Though its own handlers close    *)
(* and open descriptors meanwhile, an event it has still to handle is      *)
(* about a client that exists, on the connection that poll() saw, in the   *)
(* state the event was asked for; so a handler never meets a descriptor    *)
(* that was reused, nor reads the uninitialised _bytes_written.            *)
EventsMatchState ==
  pc = "dispatch" => \A fd \in Fds : revents[fd] # {} =>
    /\ clients[fd] # NoClient
    /\ open[fd] = polled[fd]
    /\ "IN"  \in revents[fd] => clients[fd].state = "READING"
    /\ "OUT" \in revents[fd] => clients[fd].state = "SENDING"
    /\ "OUT" \in revents[fd] => clients[fd].bytes_written # Unset

ConnInOrder(c) ==
  /\ Len(answers[c]) <= 1
  /\ \A k \in 1 .. Len(handed[c]) : handed[c][k] = k
  /\ handed[c] # <<>> => answers[c] # <<>> /\ Len(handed[c]) <= answers[c][1]

ClientInOrder(fd) ==
  \/ /\ clients[fd].state = "READING"
     /\ answers[open[fd]] = <<>>
  \/ /\ clients[fd].state = "SENDING"
     /\ answers[open[fd]] = <<clients[fd].write_buffer>>
     /\ Len(handed[open[fd]]) = clients[fd].bytes_written
     /\ clients[fd].bytes_written < clients[fd].write_buffer

(* A connection gets at most one response, and send() takes its bytes in   *)
(* order, none twice and none skipped, however it splits them:             *)
(* _bytes_written is where the response stands.                            *)
ResponseInOrder ==
  /\ \A c \in Conns : ConnInOrder(c)
  /\ \A fd \in Fds : clients[fd] # NoClient => ClientInOrder(fd)

(* What recv() returned is what the read buffer holds: "j'ajoute les       *)
(* donnees recues au buffer du client" (polls.cpp:145), in order and       *)
(* whole, over any split of the stream, as long as it holds no NUL: what   *)
(* follows one in a piece is dropped (polls.cpp:147), and nothing is said. *)
ReadBufferHoldsReceived ==
  \A fd \in Fds :
    clients[fd] # NoClient /\ NoNul(Received(open[fd]))
      => clients[fd].read_buffer = Received(open[fd])

(* A request without NUL is answered when the blank line that ends its     *)
(* head has been received, wherever the stream was split, and not before   *)
(* (with a NUL it may be too early: two line ends that a NUL keeps apart   *)
(* can come together when it is dropped).                                  *)
AnsweredAtHead ==
  /\ \A c \in Conns :
       answers[c] # <<>> /\ NoNul(Received(c)) => HeadComplete(Received(c))
  /\ \A fd \in Fds :
       clients[fd] # NoClient /\ NoNul(Received(open[fd])) =>
         (clients[fd].state = "READING" => ~HeadComplete(Received(open[fd])))

(* While the process lives, a client is removed only once its whole        *)
(* response was handed to the kernel, or because its peer reset the        *)
(* connection, or when it sent all it would send and the request is not    *)
(* complete (or, should poll() report readiness that is gone, on EAGAIN).  *)
NoPrematureClose ==
  [][\A fd \in Fds :
       clients[fd] # NoClient /\ clients'[fd] = NoClient /\ pc' # "dead" =>
         LET c == open[fd] IN
         \/ peer[c] = "reset"
         \/ /\ clients[fd].state = "SENDING"
            /\ Len(handed'[c]) = clients[fd].write_buffer
         \/ /\ clients[fd].state = "READING" /\ ~Unread(c)
            /\ peer[c] = "fin" \/ Spurious]_vars

(* The loop implements ConnectionService.                                  *)
ClientOf(c) == clients[CHOOSE fd \in Fds : open[fd] = c]

PhaseOf(c) ==
  IF peer[c] = "idle" \/ Queued(c) THEN "waiting"
  ELSE IF ~Held(c) THEN "closed"
  ELSE IF ClientOf(c).state = "READING" THEN "reading" ELSE "answering"

Promise == INSTANCE ConnectionService WITH
  phase     <- [c \in Conns |-> PhaseOf(c)],
  total     <- [c \in Conns |-> IF answers[c] = <<>> THEN 0 ELSE answers[c][1]],
  delivered <- [c \in Conns |-> Len(handed[c])]

(* Every connection waits, is read, is answered by one response handed     *)
(* over front to back, and is closed, whatever the other connections do.   *)
ImplementsService == Promise!Spec

(* The accept loop ends on an error of accept() only (polls.cpp:112-121):  *)
(* with the listening socket left blocking, which set_non_blocking only    *)
(* logs, and a descriptor free, it waits for a connection while the        *)
(* clients it has wait for it.                                             *)
Blocked ==
  /\ AtServerEntry /\ "IN" \in revents[ServerFd]
  /\ backlog = <<>> /\ FreeFds # {} /\ ~nonblocking

BlocksForGood == <>[]Blocked

(* A fair peer that has sent a complete head, and nothing after it, reads  *)
(* the whole of its response, unless the server is left blocked in         *)
(* accept(), on a socket that fcntl() failed for.                          *)
Answered ==
  BlocksForGood \/ \A c \in FairPeers :
    HeadComplete(SubSeq(stream[c], 1, sent[c]))
      ~> answers[c] # <<>> /\ read[c] = answers[c][1]

(* A connection whose peer has nothing more to send is not kept: its       *)
(* descriptor is closed in the end, by a complete response or without one, *)
(* unless the server is left blocked in accept().                          *)
Released ==
  BlocksForGood \/ \A c \in FairPeers : peer[c] = "fin" ~> ~Queued(c) /\ ~Held(c)

(* What the handlers' error paths promise ("Error: send() on client",      *)
(* polls.cpp:175-181): a peer that goes away costs the server that client  *)
(* only, and the loop of main() goes on.                                   *)
ServerKeepsRunning == pc # "dead"

(* "Reponse envoye au client" (polls.cpp:188, and 174): once nothing is    *)
(* left to send the client may go, for its peer gets the whole response.   *)
HandedIsRead ==
  \A c \in Conns :
    peer[c] = "cut" /\ answers[c] # <<>> /\ Len(handed[c]) = answers[c][1]
      => read[c] = Len(handed[c])

=============================================================================
