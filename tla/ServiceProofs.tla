---------------------------- MODULE ServiceProofs ----------------------------
(***************************************************************************)
(* What the server does for a connection as a whole, proved from the       *)
(* invariant of EventLoopProofs: its bytes, its answer, its end, and that  *)
(* the loop implements ConnectionService.                                  *)
(***************************************************************************)
EXTENDS EventLoopProofs

Buffers == ReadBufferHoldsReceived /\ AnsweredAtHead

-----------------------------------------------------------------------------
(* Data.                                                                   *)

(* A piece without NUL is the C string that it makes.                      *)
LEMMA CStringOfPiece ==
  ASSUME NEW s \in Seq(Unit), NoNul(s)
  PROVE  CString(s) = s
<1> DEFINE L == Len(s)
<1>1. L \in Nat /\ Cardinality(1 .. L) = L
  <2>1. L \in Nat
    BY LenProperties
  <2> HIDE DEF L
  <2>2. Cardinality(1 .. L) = IF 1 > L THEN 0 ELSE L - 1 + 1
    BY <2>1, FS_Interval
  <2>3. QED
    BY <2>1, <2>2
<1>2. {k \in 1 .. L : \A j \in 1 .. k : s[j] # "NUL"} = 1 .. L
  <2>1. ASSUME NEW k \in 1 .. L, NEW j \in 1 .. k PROVE s[j] # "NUL"
    <3>1. j \in 1 .. L
      <4> HIDE DEF L
      <4>1. QED
        BY <1>1
    <3>2. QED
      BY <3>1 DEF NoNul
  <2>2. QED
    BY <2>1
<1>3. strlen(s) = L
  BY <1>1, <1>2 DEF strlen
<1>4. SubSeq(s, 1, L) = s
  BY SubSeqFull
<1>5. QED
  BY <1>3, <1>4 DEF CString

(* What recv() has returned, and the piece after it: neither has a NUL if  *)
(* the two together have none.                                             *)
LEMMA ReceivedExtends ==
  ASSUME NEW s \in Seq(Unit), NEW m \in Nat, NEW n \in Nat, m + n <= Len(s),
         NoNul(SubSeq(s, 1, m + n))
  PROVE  /\ SubSeq(s, 1, m) \o SubSeq(s, m + 1, m + n) = SubSeq(s, 1, m + n)
         /\ SubSeq(s, m + 1, m + n) \in Seq(Unit)
         /\ NoNul(SubSeq(s, 1, m)) /\ NoNul(SubSeq(s, m + 1, m + n))
<1> DEFINE L == Len(s)
<1> DEFINE a == SubSeq(s, 1, m)
<1> DEFINE b == SubSeq(s, m + 1, m + n)
<1> DEFINE c == SubSeq(s, 1, m + n)
<1>1. L \in Nat /\ m + n <= L
  BY LenProperties
<1> HIDE DEF L
<1>2. /\ \A k \in 1 .. m : k \in 1 .. L
      /\ \A k \in m + 1 .. m + n : k \in 1 .. L
      /\ \A k \in 1 .. m + n : k \in 1 .. L
  BY <1>1
<1>3. /\ \A k \in 1 .. m : s[k] \in Unit
      /\ \A k \in m + 1 .. m + n : s[k] \in Unit
      /\ \A k \in 1 .. m + n : s[k] \in Unit
  BY <1>2, ElementOfSeq DEF L
<1>4. /\ a \in Seq(Unit) /\ Len(a) = (IF 1 <= m THEN m - 1 + 1 ELSE 0)
      /\ \A i \in 1 .. m - 1 + 1 : a[i] = s[1 + i - 1]
  BY <1>3, SubSeqProperties
<1>5. /\ b \in Seq(Unit) /\ Len(b) = (IF m + 1 <= m + n THEN m + n - (m + 1) + 1 ELSE 0)
      /\ \A i \in 1 .. m + n - (m + 1) + 1 : b[i] = s[m + 1 + i - 1]
  BY <1>3, SubSeqProperties
<1>6. /\ c \in Seq(Unit) /\ Len(c) = (IF 1 <= m + n THEN m + n - 1 + 1 ELSE 0)
      /\ \A i \in 1 .. m + n - 1 + 1 : c[i] = s[1 + i - 1]
  BY <1>3, SubSeqProperties
<1> HIDE DEF a, b, c
<1>7. /\ Len(a) = m /\ \A i \in 1 .. m : a[i] = s[i]
      /\ Len(b) = n /\ Len(c) = m + n /\ \A i \in 1 .. m + n : c[i] = s[i]
  BY <1>4, <1>5, <1>6
<1>8. \A i \in 1 .. n : b[i] = s[m + i]
  <2>1. \A i \in 1 .. n : i \in 1 .. m + n - (m + 1) + 1 /\ m + 1 + i - 1 = m + i
    OBVIOUS
  <2>2. QED
    BY <1>5, <2>1
<1>9. a \o b = c
  <2>1. a \o b \in Seq(Unit) /\ Len(a \o b) = m + n
    BY <1>4, <1>5, <1>7, ConcatProperties
  <2>2. ASSUME NEW k \in 1 .. m + n PROVE (a \o b)[k] = c[k]
    <3>1. (a \o b)[k] = IF k <= m THEN a[k] ELSE b[k - m]
      BY <1>4, <1>5, <1>7, ConcatProperties
    <3>2. CASE k <= m
      <4>1. k \in 1 .. m
        BY <3>2
      <4>2. QED
        BY <1>7, <3>1, <3>2, <4>1
    <3>3. CASE ~(k <= m)
      <4> DEFINE i == k - m
      <4>1. i \in 1 .. n /\ m + i = k
        BY <3>3
      <4> HIDE DEF i
      <4>2. b[i] = s[k] /\ c[k] = s[k]
        BY <1>7, <1>8, <4>1
      <4>3. QED
        BY <3>1, <3>3, <4>2 DEF i
    <3>4. QED
      BY <3>2, <3>3
  <2>3. QED
    BY <1>6, <1>7, <2>1, <2>2, SeqEqual
<1>10. \A k \in 1 .. m + n : s[k] # "NUL"
  <2>1. NoNul(c) /\ Len(c) = m + n
    BY <1>7 DEF c
  <2>2. QED
    BY <1>7, <2>1 DEF NoNul
<1>11. NoNul(b)
  <2>1. ASSUME NEW i \in 1 .. n PROVE b[i] # "NUL"
    <3> DEFINE k == m + i
    <3>1. k \in 1 .. m + n
      OBVIOUS
    <3> HIDE DEF k
    <3>2. s[k] # "NUL"
      BY <1>10, <3>1
    <3>3. QED
      BY <1>8, <3>2 DEF k
  <2>2. QED
    BY <1>7, <2>1 DEF NoNul
<1>12. NoNul(a)
  <2>1. ASSUME NEW i \in 1 .. m PROVE a[i] # "NUL"
    <3>1. i \in 1 .. m + n
      OBVIOUS
    <3>2. QED
      BY <1>7, <1>10, <3>1
  <2>2. QED
    BY <1>7, <2>1 DEF NoNul
<1>13. QED
  BY <1>5, <1>9, <1>11, <1>12 DEF a, b, c

-----------------------------------------------------------------------------
(* The read buffer and the answer.                                         *)

(* A step that receives nothing and adds no client.                        *)
LEMMA NothingReceived ==
  ASSUME IInv, Buffers, UNCHANGED <<stream, rcvd, answers>>,
         \A fd \in Fds : clients'[fd] # NoClient =>
           /\ clients[fd] # NoClient /\ open'[fd] = open[fd]
           /\ clients'[fd].read_buffer = clients[fd].read_buffer
           /\ clients'[fd].state = clients[fd].state
  PROVE  Buffers'
<1>1. \A c : Received(c)' = Received(c)
  BY DEF Received
<1>2. ReadBufferHoldsReceived'
  BY <1>1 DEF Buffers, ReadBufferHoldsReceived, Received
<1>3. AnsweredAtHead'
  BY <1>1 DEF Buffers, AnsweredAtHead, Received
<1>4. QED
  BY <1>2, <1>3 DEF Buffers

LEMMA RemoveKeepsBuffers ==
  ASSUME IInv, Buffers, NEW fd \in Fds, remove_client(fd), UNCHANGED <<stream, rcvd, answers>>
  PROVE  Buffers'
<1>1. \A g \in Fds : /\ g = fd => clients'[g] = NoClient
                     /\ g # fd => clients'[g] = clients[g] /\ open'[g] = open[g]
  BY DEF remove_client, IInv, TypeOK, ProcessTypes, KernelTypes
<1>2. QED
  BY <1>1, NothingReceived

(* With the process nothing is left to be said of its buffers.             *)
LEMMA TerminateKeepsBuffers ==
  ASSUME Buffers, terminate, UNCHANGED <<stream, answers>>,
         \A c \in Conns : answers[c] # <<>> => rcvd'[c] = rcvd[c]
  PROVE  Buffers'
<1>1. \A fd \in Fds : clients'[fd] = NoClient
  BY DEF terminate
<1>2. \A c \in Conns : answers'[c] # <<>> => Received(c)' = Received(c)
  BY DEF Received
<1>3. QED
  BY <1>1, <1>2 DEF Buffers, ReadBufferHoldsReceived, AnsweredAtHead

(* Of the other connections a receive changes nothing.                     *)
LEMMA ReceiveKeepsOthers ==
  ASSUME IInv, Buffers, NEW fd \in Fds, clients[fd] # NoClient, NEW c \in Conns, c = open[fd],
         UNCHANGED <<stream, open>>,
         \A g \in Fds \ {fd} : clients'[g] = clients[g],
         \A d \in Conns \ {c} : rcvd'[d] = rcvd[d] /\ answers'[d] = answers[d],
         NoNul(Received(c)') =>
           /\ clients'[fd].read_buffer = Received(c)'
           /\ answers'[c] # <<>> => HeadComplete(Received(c)')
           /\ clients'[fd].state = "READING" => ~HeadComplete(Received(c)')
  PROVE  Buffers'
<1>1. \A d \in Conns \ {c} : Received(d)' = Received(d)
  BY DEF Received
<1>2. \A g \in Fds \ {fd} : clients[g] # NoClient => open[g] \in Conns \ {c}
  BY DEF IInv, DescriptorsMatchClients, TypeOK, KernelTypes
<1>3. ASSUME NEW g \in Fds, clients'[g] # NoClient, NoNul(Received(open[g])')
      PROVE  /\ clients'[g].read_buffer = Received(open[g])'
             /\ clients'[g].state = "READING" => ~HeadComplete(Received(open[g])')
  <2>1. CASE g = fd
    BY <1>3, <2>1 DEF Received
  <2>2. CASE g # fd
    <3>1. clients'[g] = clients[g] /\ open[g] \in Conns \ {c}
      BY <1>2, <1>3, <2>2
    <3>2. Received(open[g])' = Received(open[g])
      BY <3>1 DEF Received
    <3>3. QED
      BY <1>3, <3>1, <3>2 DEF Buffers, ReadBufferHoldsReceived, AnsweredAtHead
  <2>3. QED
    BY <2>1, <2>2
<1>4. ASSUME NEW d \in Conns, answers'[d] # <<>>, NoNul(Received(d)')
      PROVE  HeadComplete(Received(d)')
  <2>1. CASE d = c
    BY <1>4, <2>1
  <2>2. CASE d # c
    BY <1>1, <1>4, <2>2 DEF Buffers, AnsweredAtHead
  <2>3. QED
    BY <2>1, <2>2
<1>5. QED
  BY <1>3, <1>4 DEF Buffers, ReadBufferHoldsReceived, AnsweredAtHead, Received

(* recv() and append_to_read_buffer keep the buffer and what was received  *)
(* together, and the test for the blank line sees all of it.               *)
LEMMA ReceiveKeepsBuffers ==
  ASSUME IInv, Buffers, NEW fd \in Fds, handle_client_read(fd), receive(fd)
  PROVE  Buffers'
<1> DEFINE n == RecvCount(fd)
           data == RecvData(fd)
           buf == append_to_read_buffer(fd, data)
<1>0. PICK c \in Conns : c = open[fd]
  BY EntryHasClient DEF handle_client_read
<1>1. /\ clients[fd] \in Client /\ clients[fd] # NoClient /\ c = open[fd]
      /\ clients[fd].state = "READING" /\ answers[c] = <<>> /\ UNCHANGED stream
  BY <1>0, EntryHasClient, EntryToRead DEF handle_client_read, peerVars
<1>2. /\ n \in Nat \ {0} /\ rcvd[c] + n <= sent[c] /\ data \in Seq(Unit)
  BY <1>0, <1>1, RecvTypes DEF IInv, receive
<1>3. /\ stream[c] \in Seq(Unit)
      /\ rcvd[c] \in Nat /\ sent[c] <= Len(stream[c]) /\ sent[c] \in Nat
  <2>1. stream[c] \in Streams \cup {<<>>}
    BY <1>1 DEF IInv, TypeOK, PeerTypes
  <2>2. <<>> \in Seq(Unit)
    BY EmptySeq
  <2>3. QED
    BY <1>1, <2>1, <2>2, StreamsAssumption
    DEF IInv, TypeOK, KernelTypes, PeerTypes, CountersBounded
<1>4. rcvd[c] + n <= Len(stream[c])
  <2> DEFINE L == Len(stream[c])
  <2>1. L \in Nat /\ sent[c] <= L
    BY <1>3, LenProperties
  <2> HIDE DEF L, n
  <2>2. rcvd[c] + n <= L
    BY <1>2, <1>3, <2>1
  <2>3. QED
    BY <2>2 DEF L
<1>5. data = SubSeq(stream[c], rcvd[c] + 1, rcvd[c] + n)
  BY <1>0 DEF RecvData
<1>6. ASSUME NoNul(SubSeq(stream[c], 1, rcvd[c] + n))
      PROVE  buf = SubSeq(stream[c], 1, rcvd[c] + n)
  <2>0. NoNul(SubSeq(stream[c], 1, rcvd[c])) =>
          clients[fd].read_buffer = SubSeq(stream[c], 1, rcvd[c])
    BY <1>1 DEF Buffers, ReadBufferHoldsReceived, Received
  <2> HIDE DEF n, data
  <2>2. n \in Nat
    BY <1>2
  <2>3. /\ SubSeq(stream[c], 1, rcvd[c]) \o data = SubSeq(stream[c], 1, rcvd[c] + n)
        /\ NoNul(SubSeq(stream[c], 1, rcvd[c])) /\ NoNul(data)
    BY <1>3, <1>4, <1>5, <1>6, <2>2, ReceivedExtends
  <2>1. clients[fd].read_buffer = SubSeq(stream[c], 1, rcvd[c])
    BY <2>0, <2>3
  <2>4. CString(data) = data
    BY <1>2, <2>3, CStringOfPiece
  <2>5. QED
    BY <2>1, <2>3, <2>4 DEF append_to_read_buffer
<1>7. /\ rcvd' = [rcvd EXCEPT ![c] = @ + n]
      /\ IF HeadComplete(buf)
         THEN process_client_request(fd, buf)
         ELSE /\ clients' = [clients EXCEPT ![fd].read_buffer = buf]
              /\ UNCHANGED <<pc, open, backlog, rst, answers>>
  BY <1>0 DEF receive, head_received, RecvData, RecvCount
<1>8. /\ rcvd'[c] = rcvd[c] + n
      /\ \A d \in Conns \ {c} : rcvd'[d] = rcvd[d]
  BY <1>1, <1>7 DEF IInv, TypeOK, KernelTypes
<1>9. NoNul(Received(c)') => Received(c)' = buf
  BY <1>1, <1>6, <1>8 DEF Received
<1>10. clients \in [Fds -> Client \cup {NoClient}] /\ answers \in [Conns -> Seq(Lengths)]
  BY DEF IInv, TypeOK, ProcessTypes, HistoryTypes
<1> HIDE DEF buf, n, data
<1>11. CASE terminate /\ UNCHANGED answers
  <2>1. \A d \in Conns : answers[d] # <<>> => rcvd'[d] = rcvd[d]
    BY <1>1, <1>8
  <2>2. QED
    BY <1>1, <1>11, <2>1, TerminateKeepsBuffers
<1>12. CASE /\ ~HeadComplete(buf)
            /\ clients' = [clients EXCEPT ![fd].read_buffer = buf]
            /\ UNCHANGED <<open, answers>>
  <2>1. clients'[fd] = [clients[fd] EXCEPT !.read_buffer = buf]
    BY <1>10, <1>12
  <2>2. clients'[fd].read_buffer = buf
    BY <1>1, <2>1 DEF Client
  <2>3. \A g \in Fds \ {fd} : clients'[g] = clients[g]
    BY <1>10, <1>12
  <2>4. answers'[c] = <<>>
    BY <1>1, <1>12
  <2>5. QED
    BY <1>1, <1>8, <1>9, <1>12, <2>2, <2>3, <2>4, ReceiveKeepsOthers
<1>13. ASSUME NEW m \in Lengths, HeadComplete(buf), UNCHANGED open,
              clients' = [clients EXCEPT ![fd] =
                 [state |-> "SENDING", read_buffer |-> buf,
                  write_buffer |-> m, bytes_written |-> 0]],
              answers' = [answers EXCEPT ![c] = Append(@, m)]
       PROVE  Buffers'
  <2>1. clients'[fd].read_buffer = buf /\ clients'[fd].state = "SENDING"
    BY <1>10, <1>13
  <2>2. \A g \in Fds \ {fd} : clients'[g] = clients[g]
    BY <1>10, <1>13
  <2>3. \A d \in Conns \ {c} : answers'[d] = answers[d]
    BY <1>10, <1>13
  <2>4. QED
    BY <1>1, <1>8, <1>9, <1>13, <2>1, <2>2, <2>3, ReceiveKeepsOthers
<1>14. QED
  BY <1>0, <1>7, <1>11, <1>12, <1>13 DEF process_client_request

(* accept() begins with nothing received.                                  *)
LEMMA AcceptKeepsBuffers ==
  ASSUME IInv, Buffers, accept_one
  PROVE  Buffers'
<1>1. PICK fd \in FreeFds : /\ open' = [open EXCEPT ![fd] = Head(backlog)]
                           /\ clients' = [clients EXCEPT ![fd] = c_client]
  BY DEF accept_one, add_client
<1>2. /\ \A g \in Fds \ {fd} : clients'[g] = clients[g] /\ open'[g] = open[g]
      /\ clients'[fd] = c_client /\ open'[fd] = Head(backlog)
  BY <1>1 DEF FreeFds, IInv, TypeOK, ProcessTypes, KernelTypes
<1>3. UNCHANGED <<stream, rcvd, answers>>
  BY DEF accept_one, histVars, peerVars
<1>4. Head(backlog) \in Conns /\ rcvd[Head(backlog)] = 0
  BY AcceptedLeavesQueue DEF accept_one, IInv, TypeOK, KernelTypes,
    DescriptorsMatchClients, NothingBeforeAccept
<1>5. \A c : Received(c)' = Received(c)
  BY <1>3 DEF Received
<1>6. Received(Head(backlog)) = <<>> /\ ~HeadComplete(<<>>)
  <2>1. Received(Head(backlog)) = <<>>
    BY <1>4, SubSeqEmpty DEF Received
  <2>2. Len(<<>>) = 0
    OBVIOUS
  <2>3. QED
    BY <2>1, <2>2 DEF HeadComplete
<1>7. ASSUME NEW g \in Fds, clients'[g] # NoClient, NoNul(Received(open'[g]))
      PROVE  /\ clients'[g].read_buffer = Received(open'[g])
             /\ clients'[g].state = "READING" => ~HeadComplete(Received(open'[g]))
  <2>1. CASE g = fd
    BY <1>2, <1>6, <2>1 DEF c_client
  <2>2. CASE g # fd
    BY <1>2, <1>7, <2>2 DEF Buffers, ReadBufferHoldsReceived, AnsweredAtHead
  <2>3. QED
    BY <2>1, <2>2
<1>8. \A c \in Conns :
        answers'[c] # <<>> /\ NoNul(Received(c)') => HeadComplete(Received(c)')
  BY <1>3, <1>5 DEF Buffers, AnsweredAtHead
<1>9. QED
  BY <1>3, <1>7, <1>8 DEF Buffers, ReadBufferHoldsReceived, AnsweredAtHead, Received

LEMMA StepBuffers == IInv /\ Buffers /\ [Next]_vars => Buffers'
<1> SUFFICES ASSUME IInv, Buffers, [Next]_vars PROVE Buffers'
  OBVIOUS
<1>1. CASE QuietStep
  BY <1>1, NothingReceived DEF QuietStep
<1>2. CASE accept_one
  BY <1>2, AcceptKeepsBuffers
<1>3. ASSUME NEW fd \in Fds, handle_client_read(fd) PROVE Buffers'
  <2>1. CASE receive(fd)
    BY <1>3, <2>1, ReceiveKeepsBuffers
  <2>2. CASE receive_nothing(fd)
    BY <1>3, <2>2, RemoveKeepsBuffers DEF handle_client_read, receive_nothing, peerVars
  <2>3. QED
    BY <1>3, <2>1, <2>2, EntryHasClient DEF handle_client_read
<1>4. ASSUME NEW fd \in Fds, handle_client_write(fd) PROVE Buffers'
  <2>1. /\ clients[fd] # NoClient /\ clients[fd] \in Client
        /\ UNCHANGED <<stream, rcvd, answers>>
    BY <1>4, EntryHasClient DEF handle_client_write, histVars, peerVars
  <2>2. CASE remove_client(fd)
    BY <2>1, <2>2, RemoveKeepsBuffers
  <2>3. CASE terminate
    BY <2>1, <2>3, TerminateKeepsBuffers
  <2>4. CASE UNCHANGED <<clients, open>>
    BY <2>1, <2>4, NothingReceived
  <2>5. ASSUME NEW w, UNCHANGED open, clients' = [clients EXCEPT ![fd].bytes_written = w]
        PROVE  Buffers'
    <3>1. /\ \A g \in Fds \ {fd} : clients'[g] = clients[g]
          /\ clients'[fd] = [clients[fd] EXCEPT !.bytes_written = w]
      BY <2>5 DEF IInv, TypeOK, ProcessTypes
    <3>2. /\ clients'[fd].read_buffer = clients[fd].read_buffer
          /\ clients'[fd].state = clients[fd].state
      BY <2>1, <3>1 DEF Client
    <3>3. QED
      BY <2>1, <2>5, <3>1, <3>2, NothingReceived
  <2>6. CASE send_some(fd)
    BY <1>4, <2>2, <2>5, <2>6, SendOutcome DEF handle_client_write
  <2>7. QED
    BY <1>4, <2>1, <2>2, <2>3, <2>4, <2>6 DEF handle_client_write, send_fails
<1>5. ASSUME NEW fd \in Fds, handle_hangup(fd) PROVE Buffers'
  BY <1>5, RemoveKeepsBuffers DEF handle_hangup, histVars, peerVars
<1>6. ASSUME NEW c \in Conns, peer_connects(c) PROVE Buffers'
  <2>1. /\ UNCHANGED <<clients, open, rcvd, answers>>
        /\ \A d \in Conns \ {c} : stream'[d] = stream[d]
    BY <1>6 DEF peer_connects, procVars, histVars, IInv, TypeOK, PeerTypes
  <2>2. /\ answers[c] = <<>>
        /\ \A fd \in Fds : clients[fd] # NoClient => open[fd] \in Conns \ {c}
    <3>1. peer[c] = "idle"
      BY <1>6 DEF peer_connects
    <3>2. ~Held(c) /\ answers[c] = <<>>
      BY <3>1 DEF IInv, DescriptorsMatchClients, NothingBeforeAccept
    <3>3. QED
      BY <3>2 DEF Held, IInv, DescriptorsMatchClients, TypeOK, KernelTypes
  <2>3. \A d \in Conns \ {c} : Received(d)' = Received(d)
    BY <2>1 DEF Received
  <2>4. AnsweredAtHead'
    <3>1. \A d \in Conns :
            answers'[d] # <<>> /\ NoNul(Received(d)') => HeadComplete(Received(d)')
      BY <2>1, <2>2, <2>3 DEF Buffers, AnsweredAtHead
    <3>2. \A fd \in Fds : clients'[fd] # NoClient /\ NoNul(Received(open[fd])') =>
            (clients'[fd].state = "READING" => ~HeadComplete(Received(open[fd])'))
      BY <2>1, <2>2, <2>3 DEF Buffers, AnsweredAtHead
    <3>3. QED
      BY <2>1, <3>1, <3>2 DEF AnsweredAtHead, Received
  <2>5. ReadBufferHoldsReceived'
    <3>1. \A fd \in Fds : clients'[fd] # NoClient /\ NoNul(Received(open[fd])') =>
            clients'[fd].read_buffer = Received(open[fd])'
      BY <2>1, <2>2, <2>3 DEF Buffers, ReadBufferHoldsReceived
    <3>2. QED
      BY <2>1, <3>1 DEF ReadBufferHoldsReceived, Received
  <2>6. QED
    BY <2>4, <2>5 DEF Buffers
<1>7. ASSUME NEW c \in Conns,
             \/ peer_sends(c) \/ peer_finishes(c) \/ peer_aborts(c)
             \/ peer_reads(c) \/ peer_is_cut(c)
      PROVE  Buffers'
  <2>1. UNCHANGED <<clients, open, rcvd, stream, answers>>
    BY <1>7 DEF peer_sends, peer_finishes, peer_aborts, peer_reads, peer_is_cut,
      procVars, kernelVars, histVars
  <2>2. QED
    BY <2>1, NothingReceived
<1>8. QED
  BY StepCases, <1>1, <1>2, <1>3, <1>4, <1>5, <1>6, <1>7 DEF Peers

LEMMA InitBuffers == Init => Buffers
BY DEF Init, Buffers, ReadBufferHoldsReceived, AnsweredAtHead

LEMMA BuffersHold == Spec => []Buffers
<1>1. Init => Buffers
  BY InitBuffers
<1>2. IInv /\ Buffers /\ [Next]_vars => Buffers'
  BY StepBuffers
<1>3. QED
  BY <1>1, <1>2, Inductive, PTL DEF Spec

(* The read buffer holds what recv() returned, in order and whole, over    *)
(* any split of the stream, as long as that has no NUL (polls.cpp:145).    *)
THEOREM BufferCorrect == Spec => []ReadBufferHoldsReceived
<1>1. Buffers => ReadBufferHoldsReceived
  BY DEF Buffers
<1>2. QED
  BY <1>1, BuffersHold, PTL

(* A request without NUL is answered when the blank line has been          *)
(* received, wherever the stream was split, and not before                 *)
(* (polls.cpp:148).                                                        *)
THEOREM AnswerAtHeadCorrect == Spec => []AnsweredAtHead
<1>1. Buffers => AnsweredAtHead
  BY DEF Buffers
<1>2. QED
  BY <1>1, BuffersHold, PTL

-----------------------------------------------------------------------------
(* The end of a connection.                                                *)

(* The server resets no connection that it has not closed.                 *)
NotResetBefore ==
  \A c \in Conns : peer[c] = "idle" \/ Queued(c) \/ Held(c) => c \notin rst

(* What poll() reported for an entry still to be visited is still so: what *)
(* arrived is still there, and a peer that finished or was reset stays so. *)
ReportsTrue ==
  pc = "dispatch" => \A fd \in Fds : revents[fd] # {} =>
    /\ "IN" \in revents[fd] =>
         Unread(open[fd]) \/ peer[open[fd]] \in {"fin", "reset"} \/ Spurious
    /\ revents[fd] \cap {"IN", "OUT"} = {} => peer[open[fd]] = "reset"

Endings == NotResetBefore /\ ReportsTrue

(* A handler removes its client, ends the process, or keeps the client.    *)
LEMMA HandlerCases ==
  ASSUME IInv, NEW fd \in Fds,
         handle_client_read(fd) \/ handle_client_write(fd) \/ handle_hangup(fd)
  PROVE  /\ UNCHANGED <<peer, stream, sent, read>>
         /\ revents' = [revents EXCEPT ![fd] = {}]
         /\ clients[fd] # NoClient /\ open[fd] \in Conns
         /\ \A d \in Conns : d # open[fd] => rcvd'[d] = rcvd[d]
         /\ \/ remove_client(fd) /\ UNCHANGED <<pc, backlog>>
            \/ terminate
            \/ UNCHANGED <<pc, open, backlog, rst>>
<1>1. AtEntry(fd) /\ clients[fd] # NoClient /\ open[fd] \in Conns
  BY EntryHasClient DEF handle_client_read, handle_client_write, handle_hangup
<1>2. UNCHANGED <<peer, stream, sent, read>> /\ revents' = [revents EXCEPT ![fd] = {}]
  BY DEF handle_client_read, handle_client_write, handle_hangup, Visited, peerVars
<1>3. \A d \in Conns : d # open[fd] => rcvd'[d] = rcvd[d]
  BY <1>1 DEF handle_client_read, handle_client_write, handle_hangup, receive,
    receive_nothing, IInv, TypeOK, KernelTypes
<1>4. CASE handle_client_read(fd)
  BY <1>1, <1>2, <1>3, <1>4 DEF handle_client_read, receive, receive_nothing,
    process_client_request
<1>5. CASE handle_client_write(fd)
  <2>1. CASE send_some(fd)
    BY <1>1, <1>2, <1>3, <1>5, <2>1, SendOutcome DEF handle_client_write
  <2>2. QED
    BY <1>1, <1>2, <1>3, <1>5, <2>1 DEF handle_client_write, send_fails
<1>6. CASE handle_hangup(fd)
  BY <1>1, <1>2, <1>3, <1>6 DEF handle_hangup
<1>7. QED
  BY <1>4, <1>5, <1>6

LEMMA StepNotResetBefore == IInv /\ Endings /\ [Next]_vars => NotResetBefore'
<1> SUFFICES ASSUME IInv, NotResetBefore, [Next]_vars PROVE NotResetBefore'
  BY DEF Endings
<1> USE DEF NotResetBefore
<1>1. CASE UNCHANGED <<open, backlog, rst, peer>>
  BY <1>1 DEF Queued, Held
<1>2. CASE accept_one
  <2>1. /\ UNCHANGED <<peer, rst>> /\ Queued(Head(backlog))
        /\ \A d \in Conns : Queued(d)' => Queued(d)
    BY <1>2, AcceptedLeavesQueue
    DEF accept_one, IInv, TypeOK, KernelTypes, DescriptorsMatchClients, peerVars
  <2>2. \A d \in Conns : Held(d)' => Held(d) \/ d = Head(backlog)
    BY <1>2 DEF accept_one, Held, FreeFds, IInv, TypeOK, KernelTypes
  <2>3. QED
    BY <2>1, <2>2
<1>3. ASSUME NEW fd \in Fds,
             handle_client_read(fd) \/ handle_client_write(fd) \/ handle_hangup(fd)
      PROVE  NotResetBefore'
  <2>1. UNCHANGED peer /\ open[fd] \in Conns
    BY <1>3, HandlerCases
  <2>2. CASE remove_client(fd) /\ UNCHANGED backlog
    <3>1. \A d \in Conns : Held(d)' => Held(d) /\ d # open[fd]
      BY <2>1, <2>2, ConnsAssumption
      DEF remove_client, Held, IInv, TypeOK, KernelTypes, DescriptorsMatchClients
    <3>2. ~Queued(open[fd]) /\ peer[open[fd]] # "idle"
      BY <2>1 DEF Held, IInv, DescriptorsMatchClients
    <3>3. \A d \in Conns : d \in rst' => d \in rst \/ d = open[fd]
      BY <2>2 DEF remove_client
    <3>4. \A d \in Conns : Queued(d)' <=> Queued(d)
      BY <2>2 DEF Queued
    <3>5. QED
      BY <2>1, <3>1, <3>2, <3>3, <3>4
  <2>3. CASE terminate
    <3>1. \A d \in Conns : ~Held(d)' /\ ~Queued(d)'
      <4>1. Len(backlog') = 0 /\ \A g \in Fds : open'[g] = NoConn
        BY <2>3 DEF terminate
      <4>2. QED
        BY <4>1, ConnsAssumption DEF Held, Queued
    <3>2. \A d \in Conns : d \in rst' => d \in rst \/ Queued(d) \/ Held(d)
      BY <2>3 DEF terminate
    <3>3. QED
      BY <2>1, <3>1, <3>2 DEF IInv, DescriptorsMatchClients
  <2>4. QED
    BY <1>1, <1>3, <2>1, <2>2, <2>3, HandlerCases
<1>4. ASSUME NEW c \in Conns, peer_connects(c) PROVE NotResetBefore'
  <2>1. /\ UNCHANGED <<open, rst>> /\ peer[c] = "idle"
        /\ \A d \in Conns \ {c} : peer'[d] = peer[d]
    BY <1>4 DEF peer_connects, procVars, IInv, TypeOK, PeerTypes
  <2>2. \A d \in Conns : Queued(d)' => Queued(d) \/ d = c
    BY <1>4, <2>1, ConnectedJoinsQueue
    DEF peer_connects, IInv, TypeOK, KernelTypes, DescriptorsMatchClients
  <2>3. QED
    BY <2>1, <2>2 DEF Held
<1>5. ASSUME NEW c \in Conns, peer_sends(c) PROVE NotResetBefore'
  BY <1>5 DEF peer_sends, procVars, Queued, Held
<1>6. ASSUME NEW c \in Conns,
             peer_finishes(c) \/ peer_aborts(c) \/ peer_reads(c) \/ peer_is_cut(c)
      PROVE  NotResetBefore'
  BY <1>6 DEF peer_finishes, peer_aborts, peer_reads, peer_is_cut, procVars, kernelVars,
    Connected, Queued, Held, IInv, TypeOK, PeerTypes
<1>7. CASE QuietStep
  BY <1>1, <1>7 DEF QuietStep
<1>8. QED
  BY StepCases, <1>2, <1>3, <1>4, <1>5, <1>6, <1>7 DEF Peers

(* poll() reports what is so when it is called.                            *)
LEMMA PollReportsTrue ==
  ASSUME IInv, poll_reports
  PROVE  ReportsTrue'
<1> SUFFICES ASSUME NEW fd \in Fds, revents'[fd] # {}
             PROVE  /\ "IN" \in revents'[fd] =>
                         Unread(open[fd]) \/ peer[open[fd]] \in {"fin", "reset"} \/ Spurious
                    /\ revents'[fd] \cap {"IN", "OUT"} = {} => peer[open[fd]] = "reset"
  BY DEF ReportsTrue, poll_reports, kernelVars, peerVars, Unread
<1>1. PICK alt \in SUBSET Fds :
        revents' = [g \in Fds \cup {ServerFd} |->
                      IF g = ServerFd THEN ServerReady ELSE ClientReady(g, alt)]
  BY DEF poll_reports
<1>2. revents'[fd] = ClientReady(fd, alt)
  BY <1>1, FdsAssumption
<1>3. poll_fds[fd] = Entry(fd)
  BY DEF IInv, EntriesMatchState, poll_reports
<1>4. poll_fds[fd] # NotPolled
  BY <1>2 DEF ClientReady
<1>5. poll_fds[fd] \subseteq {"IN", "OUT"} /\ open[fd] # NoConn
  BY <1>3, <1>4 DEF Entry, Events, IInv, DescriptorsMatchClients
<1>6. QED
  BY <1>2, <1>4, <1>5 DEF ClientReady

LEMMA StepReportsTrue == IInv /\ Endings /\ [Next]_vars => ReportsTrue'
<1> SUFFICES ASSUME IInv, NotResetBefore, ReportsTrue, [Next]_vars PROVE ReportsTrue'
  BY DEF Endings
<1>1. CASE poll_reports
  BY <1>1, PollReportsTrue
<1>2. CASE pc' # "dispatch"
  BY <1>2 DEF ReportsTrue
<1>3. ASSUME pc = "dispatch",
             \A fd \in Fds : revents'[fd] # {} =>
               /\ revents'[fd] = revents[fd] /\ open'[fd] = open[fd]
               /\ Unread(open[fd]) => Unread(open[fd])'
               /\ peer[open[fd]] \in {"fin", "reset"} => peer'[open[fd]] \in {"fin", "reset"}
               /\ peer[open[fd]] = "reset" => peer'[open[fd]] = "reset"
      PROVE  ReportsTrue'
  BY <1>3 DEF ReportsTrue, Unread
<1>4. \A fd \in Fds : pc = "dispatch" /\ revents[fd] # {} =>
        clients[fd] # NoClient /\ open[fd] \in Conns
  BY DEF IInv, EventsMatchState, DescriptorsMatchClients, TypeOK, KernelTypes
<1>5. CASE accept_one
  <2>1. pc = "dispatch" /\ UNCHANGED <<revents, rcvd, peer, sent>>
    BY <1>5 DEF accept_one, AtServerEntry, peerVars
  <2>2. \A fd \in Fds : revents[fd] # {} => open'[fd] = open[fd]
    BY <1>4, <1>5, <2>1 DEF accept_one, FreeFds, IInv, DescriptorsMatchClients, TypeOK,
      KernelTypes
  <2>3. QED
    BY <1>3, <2>1, <2>2 DEF Unread
<1>6. ASSUME NEW fd \in Fds,
             handle_client_read(fd) \/ handle_client_write(fd) \/ handle_hangup(fd),
             pc' = "dispatch"
      PROVE  ReportsTrue'
  <2>1. /\ UNCHANGED <<peer, sent>> /\ pc = "dispatch"
        /\ \A g \in Fds : revents'[g] # {} => g # fd /\ revents'[g] = revents[g]
    BY <1>6, HandlerCases DEF handle_client_read, handle_client_write, handle_hangup, AtEntry,
      IInv, TypeOK, ProcessTypes
  <2>2. \A g \in Fds : g # fd => open'[g] = open[g]
    BY <1>6, HandlerCases DEF remove_client, terminate, IInv, TypeOK, KernelTypes
  <2>3. \A g \in Fds : revents[g] # {} /\ g # fd => rcvd'[open[g]] = rcvd[open[g]]
    BY <1>4, <1>6, <2>1, HandlerCases DEF IInv, DescriptorsMatchClients
  <2>4. QED
    BY <1>3, <2>1, <2>2, <2>3 DEF Unread
<1>7. CASE accept_stops \/ server_error
  BY <1>3, <1>7 DEF accept_stops, server_error, AtServerEntry, Visited, Unread, kernelVars,
    peerVars, IInv, TypeOK, ProcessTypes
<1>8. CASE UNCHANGED vars
  BY <1>8 DEF ReportsTrue, Unread, vars, procVars, kernelVars, peerVars
<1>9. ASSUME NEW c \in Conns, pc' = "dispatch",
             \/ peer_connects(c) \/ peer_sends(c) \/ peer_finishes(c)
             \/ peer_aborts(c) \/ peer_reads(c) \/ peer_is_cut(c)
      PROVE  ReportsTrue'
  <2>1. UNCHANGED <<pc, revents, open, rcvd>>
    BY <1>9 DEF peer_connects, peer_sends, peer_finishes, peer_aborts, peer_reads,
      peer_is_cut, procVars, kernelVars
  <2>2. \A d \in Conns : sent[d] <= sent'[d] /\ sent'[d] \in Nat
    BY <1>9 DEF peer_connects, peer_sends, peer_finishes, peer_aborts, peer_reads,
      peer_is_cut, IInv, TypeOK, PeerTypes
  <2>3. \A d \in Conns : Unread(d) => Unread(d)'
    BY <2>1, <2>2 DEF Unread, IInv, TypeOK, KernelTypes, PeerTypes
  <2>4. \A d \in Conns : Held(d) =>
          /\ peer[d] \in {"fin", "reset"} => peer'[d] \in {"fin", "reset"}
          /\ peer[d] = "reset" => peer'[d] = "reset"
    BY <1>9 DEF peer_connects, peer_sends, peer_finishes, peer_aborts, peer_reads,
      peer_is_cut, Connected, NotResetBefore, IInv, TypeOK, PeerTypes
  <2>5. QED
    BY <1>3, <1>4, <1>9, <2>1, <2>3, <2>4 DEF Held
<1>10. CASE setup_pollfd \/ poll_times_out \/ poll_fails \/ dispatch_ends \/ Startup
  BY <1>2, <1>10 DEF setup_pollfd, poll_times_out, poll_fails, dispatch_ends, Startup,
    create_socket, bind_and_listen, set_non_blocking
<1>11. QED
  BY <1>1, <1>2, <1>5, <1>6, <1>7, <1>8, <1>9, <1>10 DEF Next, Server, Handlers, Peers

(* A handler removes its client for one of the reasons there are.          *)
LEMMA RemovalJustified ==
  ASSUME IInv, Endings, NEW fd \in Fds, remove_client(fd),
         handle_client_read(fd) \/ handle_client_write(fd) \/ handle_hangup(fd)
  PROVE  \/ pc' = "dead"
         \/ peer[open[fd]] = "reset"
         \/ /\ clients[fd].state = "SENDING"
            /\ Len(handed'[open[fd]]) = clients[fd].write_buffer
         \/ /\ clients[fd].state = "READING" /\ ~Unread(open[fd])
            /\ peer[open[fd]] = "fin" \/ Spurious
<1>1. AtEntry(fd) /\ clients[fd] # NoClient /\ open[fd] \in Conns
  BY EntryHasClient DEF handle_client_read, handle_client_write, handle_hangup
<1>2. CASE handle_hangup(fd)
  BY <1>1, <1>2 DEF handle_hangup, Endings, ReportsTrue, AtEntry
<1>3. CASE handle_client_read(fd)
  <2>1. clients[fd].state = "READING" /\ "IN" \in revents[fd]
    BY <1>1, <1>3, EntryToRead DEF handle_client_read
  <2>2. CASE receive_nothing(fd)
    BY <1>1, <2>1, <2>2 DEF receive_nothing, Endings, ReportsTrue, AtEntry
  <2>3. CASE receive(fd)
    <3>1. CASE UNCHANGED open
      BY <1>1, <3>1, ConnsAssumption DEF remove_client, IInv, TypeOK, KernelTypes
    <3>2. QED
      BY <2>3, <3>1 DEF receive, process_client_request, terminate
  <2>4. QED
    BY <1>1, <1>3, <2>2, <2>3 DEF handle_client_read
<1>4. CASE handle_client_write(fd)
  <2>1. /\ "OUT" \in revents[fd] /\ clients[fd].state = "SENDING"
        /\ clients[fd].bytes_written < clients[fd].write_buffer
        /\ clients[fd].bytes_written \in Nat /\ clients[fd].write_buffer \in Nat
        /\ Len(handed[open[fd]]) = clients[fd].bytes_written
    BY <1>1, <1>4, EntryToWrite DEF handle_client_write
  <2>2. CASE send_some(fd)
    <3> DEFINE w == clients[fd].bytes_written
    <3>1. PICK n \in Nat \ {0} :
            /\ handed' = [handed EXCEPT ![open[fd]] = @ \o [k \in 1 .. n |-> w + k]]
            /\ w + n = clients[fd].write_buffer \/ UNCHANGED open
      BY <1>1, <2>1, <2>2, SendOutcome
    <3>2. w + n = clients[fd].write_buffer
      BY <1>1, <3>1, ConnsAssumption DEF remove_client, IInv, TypeOK, KernelTypes
    <3>3. handed[open[fd]] \in Seq(Nat) /\ [k \in 1 .. n |-> w + k] \in Seq(Nat)
          /\ Len([k \in 1 .. n |-> w + k]) = n
      BY <1>1, <2>1, SentPieceType DEF IInv, TypeOK, KernelTypes
    <3>4. Len(handed'[open[fd]]) = w + n
      <4>1. handed'[open[fd]] = handed[open[fd]] \o [k \in 1 .. n |-> w + k]
        BY <1>1, <3>1 DEF IInv, TypeOK, KernelTypes
      <4>2. QED
        BY <2>1, <3>3, <4>1, ConcatProperties
    <3>5. QED
      BY <2>1, <3>2, <3>4
  <2>3. CASE send_fails(fd)
    BY <1>1, <2>3, ConnsAssumption DEF send_fails, remove_client, terminate, IInv, TypeOK,
      KernelTypes
  <2>4. QED
    BY <1>1, <1>4, <2>1, <2>2, <2>3 DEF handle_client_write
<1>5. QED
  BY <1>2, <1>3, <1>4

(* Nothing but these handlers takes a client away.                         *)
LEMMA RemovedByHandler ==
  ASSUME IInv, IInv', [Next]_vars, pc' # "dead",
         NEW g \in Fds, clients[g] # NoClient, clients'[g] = NoClient
  PROVE  /\ remove_client(g)
         /\ handle_client_read(g) \/ handle_client_write(g) \/ handle_hangup(g)
<1>1. open[g] # NoConn /\ open'[g] = NoConn
  BY DEF IInv, DescriptorsMatchClients
<1>2. CASE UNCHANGED open
  BY <1>1, <1>2
<1>3. CASE accept_one
  BY <1>1, <1>3 DEF accept_one, FreeFds, IInv, TypeOK, KernelTypes
<1>4. CASE Peers
  BY <1>2, <1>4 DEF Peers, peer_connects, peer_sends, peer_finishes, peer_aborts,
    peer_reads, peer_is_cut, kernelVars
<1>5. ASSUME NEW fd \in Fds,
             handle_client_read(fd) \/ handle_client_write(fd) \/ handle_hangup(fd)
      PROVE  remove_client(fd) /\ fd = g
  <2>1. remove_client(fd)
    BY <1>1, <1>5, HandlerCases DEF terminate
  <2>2. QED
    BY <1>1, <2>1 DEF remove_client, IInv, TypeOK, KernelTypes
<1>6. QED
  BY StepCases, <1>2, <1>3, <1>4, <1>5 DEF QuietStep

LEMMA EndingsHold == Spec => [](IInv /\ Endings)
<1>1. Init => IInv /\ Endings
  <2>1. Init => Endings
    BY DEF Init, Endings, NotResetBefore, ReportsTrue
  <2>2. QED
    BY <2>1, InitIInv
<1>2. IInv /\ Endings /\ [Next]_vars => (IInv /\ Endings)'
  BY StepIInv, StepNotResetBefore, StepReportsTrue DEF Endings
<1>3. QED
  BY <1>1, <1>2, PTL DEF Spec

(* A living process removes a client only once its whole response has been *)
(* handed over, its peer reset the connection, or no request can come any  *)
(* more (polls.cpp:94-99, 136-144, 165-190).                               *)
THEOREM CloseCorrect == Spec => NoPrematureClose
<1>1. ASSUME IInv, Endings, IInv', [Next]_vars
      PROVE  \A fd \in Fds :
               clients[fd] # NoClient /\ clients'[fd] = NoClient /\ pc' # "dead" =>
                 LET c == open[fd] IN
                 \/ peer[c] = "reset"
                 \/ /\ clients[fd].state = "SENDING"
                    /\ Len(handed'[c]) = clients[fd].write_buffer
                 \/ /\ clients[fd].state = "READING" /\ ~Unread(c)
                    /\ peer[c] = "fin" \/ Spurious
  BY <1>1, RemovedByHandler, RemovalJustified
<1>2. QED
  BY <1>1, EndingsHold, PTL DEF Spec, NoPrematureClose

-----------------------------------------------------------------------------
(* The loop implements ConnectionService: what the phase of a connection   *)
(* is, and which action of the abstract specification each step is.        *)

Waiting(c) == peer[c] = "idle" \/ Queued(c)

LEMMA WaitingPhase ==
  ASSUME NEW c \in Conns, Waiting(c)
  PROVE  PhaseOf(c) = "waiting"
BY DEF PhaseOf, Waiting

LEMMA ClosedPhase ==
  ASSUME NEW c \in Conns, ~Waiting(c), ~Held(c)
  PROVE  PhaseOf(c) = "closed"
BY DEF PhaseOf, Waiting

LEMMA HeldPhase ==
  ASSUME DescriptorsMatchClients, NEW c \in Conns, NEW fd \in Fds, open[fd] = c
  PROVE  /\ ~Waiting(c)
         /\ PhaseOf(c) = IF clients[fd].state = "READING" THEN "reading" ELSE "answering"
<1>1. Held(c) /\ c # NoConn
  BY ConnsAssumption DEF Held
<1>2. ~Waiting(c)
  BY <1>1 DEF Waiting, DescriptorsMatchClients
<1>3. (CHOOSE f \in Fds : open[f] = c) = fd
  BY <1>1 DEF DescriptorsMatchClients
<1>4. QED
  BY <1>1, <1>2, <1>3 DEF PhaseOf, Waiting, ClientOf

(* The same of the state that a step leads to.                             *)
LEMMA NextWaitingPhase ==
  ASSUME NEW c \in Conns, Waiting(c)'
  PROVE  PhaseOf(c)' = "waiting"
BY DEF PhaseOf, Waiting

LEMMA NextClosedPhase ==
  ASSUME NEW c \in Conns, ~Waiting(c)', ~Held(c)'
  PROVE  PhaseOf(c)' = "closed"
BY DEF PhaseOf, Waiting

LEMMA NextHeldPhase ==
  ASSUME DescriptorsMatchClients', NEW c \in Conns, NEW fd \in Fds, open'[fd] = c
  PROVE  /\ ~Waiting(c)'
         /\ PhaseOf(c)' = IF clients'[fd].state = "READING" THEN "reading" ELSE "answering"
<1>1. Held(c)' /\ c # NoConn
  BY ConnsAssumption DEF Held
<1>2. ~Waiting(c)'
  BY <1>1 DEF Waiting, DescriptorsMatchClients
<1>3. (CHOOSE f \in Fds : open'[f] = c) = fd
  BY <1>1 DEF DescriptorsMatchClients
<1>4. QED
  BY <1>1, <1>2, <1>3 DEF PhaseOf, Waiting, ClientOf

(* A connection that a step leaves where it is keeps its phase.            *)
LEMMA SamePhase ==
  ASSUME DescriptorsMatchClients, DescriptorsMatchClients', NEW c \in Conns,
         Waiting(c)' <=> Waiting(c),
         \A fd \in Fds : open'[fd] = c <=> open[fd] = c,
         \A fd \in Fds : open[fd] = c => clients'[fd].state = clients[fd].state
  PROVE  PhaseOf(c)' = PhaseOf(c)
<1>1. Held(c)' <=> Held(c)
  BY DEF Held
<1>2. CASE Waiting(c)
  BY <1>2, WaitingPhase, NextWaitingPhase
<1>3. CASE ~Waiting(c) /\ ~Held(c)
  BY <1>1, <1>3, ClosedPhase, NextClosedPhase
<1>4. ASSUME NEW fd \in Fds, open[fd] = c PROVE PhaseOf(c)' = PhaseOf(c)
  BY <1>4, HeldPhase, NextHeldPhase
<1>5. QED
  BY <1>2, <1>3, <1>4 DEF Held

LEMMA InitImplements == Init => Promise!Init
<1> SUFFICES ASSUME Init PROVE Promise!Init
  OBVIOUS
<1>1. \A c \in Conns : PhaseOf(c) = "waiting"
  BY WaitingPhase DEF Init, Waiting
<1>2. \A c \in Conns : answers[c] = <<>> /\ Len(handed[c]) = 0
  BY DEF Init
<1>3. QED
  BY <1>1, <1>2 DEF Promise!Init

(* A step on the client of one descriptor leaves the other connections in  *)
(* their phase.                                                            *)
LEMMA OtherPhasesStay ==
  ASSUME DescriptorsMatchClients, DescriptorsMatchClients', NEW fd \in Fds,
         open[fd] \in Conns, UNCHANGED <<peer, backlog>>,
         \A g \in Fds \ {fd} : clients'[g] = clients[g] /\ open'[g] = open[g],
         open'[fd] \in {open[fd], NoConn},
         NEW d \in Conns, d # open[fd]
  PROVE  PhaseOf(d)' = PhaseOf(d)
<1>1. Waiting(d)' <=> Waiting(d)
  BY DEF Waiting, Queued
<1>2. \A g \in Fds : open'[g] = d <=> open[g] = d
  BY ConnsAssumption
<1>3. \A g \in Fds : open[g] = d => clients'[g].state = clients[g].state
  OBVIOUS
<1>4. QED
  BY <1>1, <1>2, <1>3, SamePhase

(* The phase of one connection changes.                                    *)
LEMMA OnePhase ==
  ASSUME NEW c \in Conns, NEW p, PhaseOf(c)' = p,
         \A d \in Conns : d # c => PhaseOf(d)' = PhaseOf(d)
  PROVE  [d \in Conns |-> PhaseOf(d)'] = [[d \in Conns |-> PhaseOf(d)] EXCEPT ![c] = p]
OBVIOUS

LEMMA RemoveHangsUp ==
  ASSUME IInv, DescriptorsMatchClients', NEW fd \in Fds, open[fd] \in Conns,
         clients[fd] # NoClient, remove_client(fd),
         UNCHANGED <<peer, backlog, answers, handed>>
  PROVE  \E c \in Conns : Promise!HangUp(c)
<1>0. PICK c \in Conns : c = open[fd]
  OBVIOUS
<1>1. /\ \A g \in Fds \ {fd} : clients'[g] = clients[g] /\ open'[g] = open[g]
      /\ open'[fd] = NoConn
  BY DEF remove_client, IInv, TypeOK, ProcessTypes, KernelTypes
<1>2. DescriptorsMatchClients
  BY DEF IInv
<1>3. ~Waiting(c) /\ PhaseOf(c) \in {"reading", "answering"}
  BY <1>0, <1>2, HeldPhase
<1>4. PhaseOf(c)' = "closed"
  <2>1. ~Waiting(c)'
    BY <1>3 DEF Waiting, Queued
  <2>2. ~Held(c)'
    BY <1>0, <1>1, <1>2, ConnsAssumption DEF Held, DescriptorsMatchClients
  <2>3. QED
    BY <2>1, <2>2, NextClosedPhase
<1>5. \A d \in Conns : d # c => PhaseOf(d)' = PhaseOf(d)
  BY <1>0, <1>1, <1>2, OtherPhasesStay
<1>6. [d \in Conns |-> PhaseOf(d)'] = [[d \in Conns |-> PhaseOf(d)] EXCEPT ![c] = "closed"]
  BY <1>4, <1>5, OnePhase
<1>7. Promise!HangUp(c)
  BY <1>0, <1>3, <1>6 DEF Promise!HangUp
<1>8. QED
  BY <1>7

LEMMA TerminateCrashes ==
  ASSUME IInv, terminate, UNCHANGED <<peer, answers, handed>>
  PROVE  Promise!Crash
<1> DEFINE Old == [d \in Conns |-> PhaseOf(d)]
           refused == {d \in Conns : Old[d] = "waiting" /\ peer[d] # "idle"}
<1>1. \A d \in Conns : ~Held(d)' /\ ~Queued(d)'
  <2>1. Len(backlog') = 0 /\ \A g \in Fds : open'[g] = NoConn
    BY DEF terminate
  <2>2. QED
    BY <2>1, ConnsAssumption DEF Held, Queued
<1>2. \A d \in Conns : PhaseOf(d)' = IF peer[d] = "idle" THEN "waiting" ELSE "closed"
  BY <1>1, NextWaitingPhase, NextClosedPhase DEF Waiting
<1>3. \A d \in Conns : peer[d] = "idle" => PhaseOf(d) = "waiting"
  BY WaitingPhase DEF Waiting
<1>4. [d \in Conns |-> PhaseOf(d)'] =
        [d \in Conns |-> IF Old[d] # "waiting" \/ d \in refused THEN "closed" ELSE "waiting"]
  BY <1>2, <1>3
<1>5. refused \in SUBSET {d \in Conns : Old[d] = "waiting"}
  OBVIOUS
<1>6. QED
  BY <1>4, <1>5 DEF Promise!Crash

LEMMA AcceptAccepts ==
  ASSUME IInv, DescriptorsMatchClients', accept_one
  PROVE  \E c \in Conns : Promise!Accept(c)
<1>1. PICK fd \in FreeFds : /\ open' = [open EXCEPT ![fd] = Head(backlog)]
                           /\ clients' = [clients EXCEPT ![fd] = c_client]
  BY DEF accept_one, add_client
<1>2. /\ \A g \in Fds \ {fd} : clients'[g] = clients[g] /\ open'[g] = open[g]
      /\ clients'[fd] = c_client /\ open'[fd] = Head(backlog) /\ open[fd] = NoConn
      /\ fd \in Fds
  BY <1>1 DEF FreeFds, IInv, TypeOK, ProcessTypes, KernelTypes
<1>3. /\ backlog \in Seq(Conns) /\ backlog # <<>> /\ backlog' = Tail(backlog)
      /\ UNCHANGED <<peer, answers, handed>> /\ DescriptorsMatchClients
  BY DEF accept_one, histVars, peerVars, IInv, TypeOK, KernelTypes
<1>4. Head(backlog) \in Conns /\ Queued(Head(backlog))
  BY <1>3, AcceptedLeavesQueue DEF DescriptorsMatchClients
<1>5. PICK c \in Conns : c = Head(backlog)
  BY <1>4
<1>6. PhaseOf(c) = "waiting"
  BY <1>4, <1>5, WaitingPhase DEF Waiting
<1>7. PhaseOf(c)' = "reading"
  BY <1>2, <1>5, NextHeldPhase DEF c_client
<1>8. ASSUME NEW d \in Conns, d # c PROVE PhaseOf(d)' = PhaseOf(d)
  <2>1. Queued(d)' <=> Queued(d)
    <3>1. /\ Len(backlog) \in Nat \ {0} /\ Len(backlog') = Len(backlog) - 1
          /\ Head(backlog) = backlog[1]
          /\ \A k \in 1 .. Len(backlog') : backlog'[k] = backlog[k + 1]
      BY <1>3, HeadTailProperties
    <3>2. ASSUME NEW k \in 1 .. Len(backlog), backlog[k] = d PROVE Queued(d)'
      <4>1. k - 1 \in 1 .. Len(backlog')
        BY <1>5, <1>8, <3>1, <3>2
      <4>2. backlog'[k - 1] = d
        BY <3>1, <3>2, <4>1
      <4>3. QED
        BY <4>1, <4>2 DEF Queued
    <3>3. QED
      BY <1>3, <3>2, AcceptedLeavesQueue DEF Queued, DescriptorsMatchClients
  <2>2. Waiting(d)' <=> Waiting(d)
    BY <1>3, <2>1 DEF Waiting
  <2>3. \A g \in Fds : open'[g] = d <=> open[g] = d
    BY <1>2, <1>5, <1>8, ConnsAssumption
  <2>4. \A g \in Fds : open[g] = d => clients'[g].state = clients[g].state
    BY <1>2, ConnsAssumption
  <2>5. QED
    BY <1>3, <2>2, <2>3, <2>4, SamePhase
<1>9. [d \in Conns |-> PhaseOf(d)'] = [[d \in Conns |-> PhaseOf(d)] EXCEPT ![c] = "reading"]
  BY <1>7, <1>8, OnePhase
<1>10. Promise!Accept(c)
  BY <1>3, <1>5, <1>6, <1>9 DEF Promise!Accept
<1>11. QED
  BY <1>10

(* process_client_request fixes the response.                              *)
LEMMA ProcessAnswers ==
  ASSUME IInv, DescriptorsMatchClients', NEW fd \in Fds, open[fd] \in Conns,
         clients[fd].state = "READING",
         NEW buf, NEW n \in Lengths, UNCHANGED <<open, backlog, peer, handed>>,
         clients' = [clients EXCEPT ![fd] =
            [state |-> "SENDING", read_buffer |-> buf,
             write_buffer |-> n, bytes_written |-> 0]],
         answers[open[fd]] = <<>>,
         answers' = [answers EXCEPT ![open[fd]] = Append(@, n)]
  PROVE  \E c \in Conns : Promise!Answer(c)
<1>0. PICK c \in Conns : c = open[fd]
  OBVIOUS
<1>1. \A g \in Fds \ {fd} : clients'[g] = clients[g] /\ open'[g] = open[g]
  BY DEF IInv, TypeOK, ProcessTypes
<1>2. clients'[fd].state = "SENDING" /\ open'[fd] = open[fd]
  BY DEF IInv, TypeOK, ProcessTypes
<1>3. DescriptorsMatchClients
  BY DEF IInv
<1>4. PhaseOf(c) = "reading"
  BY <1>0, <1>3, HeldPhase
<1>5. PhaseOf(c)' = "answering"
  BY <1>0, <1>2, NextHeldPhase
<1>6. \A d \in Conns : d # c => PhaseOf(d)' = PhaseOf(d)
  BY <1>0, <1>1, <1>2, <1>3, OtherPhasesStay
<1>7. [d \in Conns |-> PhaseOf(d)'] = [[d \in Conns |-> PhaseOf(d)] EXCEPT ![c] = "answering"]
  BY <1>5, <1>6, OnePhase
<1>8. answers'[c] = <<n>> /\ \A d \in Conns \ {c} : answers'[d] = answers[d]
  BY <1>0 DEF IInv, TypeOK, HistoryTypes
<1>9. answers'[c] # <<>> /\ answers'[c][1] = n
  BY <1>8
<1>10. [d \in Conns |-> IF answers'[d] = <<>> THEN 0 ELSE answers'[d][1]] =
         [[d \in Conns |-> IF answers[d] = <<>> THEN 0 ELSE answers[d][1]] EXCEPT ![c] = n]
  <2> DEFINE total(a) == IF a = <<>> THEN 0 ELSE a[1]
  <2>1. total(answers'[c]) = n
    BY <1>9
  <2>2. \A d \in Conns \ {c} : total(answers'[d]) = total(answers[d])
    BY <1>8
  <2> HIDE DEF total
  <2>3. [d \in Conns |-> total(answers'[d])] =
          [[d \in Conns |-> total(answers[d])] EXCEPT ![c] = n]
    BY <2>1, <2>2
  <2>4. QED
    BY <2>3 DEF total
<1>11. Promise!Answer(c)
  BY <1>0, <1>4, <1>7, <1>10 DEF Promise!Answer
<1>12. QED
  BY <1>11

(* A step that changes no state of a client, and neither adds nor removes  *)
(* one, is not seen.                                                       *)
LEMMA SameStates ==
  ASSUME DescriptorsMatchClients, DescriptorsMatchClients',
         UNCHANGED <<open, backlog, answers, handed>>,
         \A c \in Conns : peer'[c] = "idle" <=> peer[c] = "idle",
         \A fd \in Fds : clients[fd] # NoClient => clients'[fd].state = clients[fd].state
  PROVE  UNCHANGED Promise!svars
<1>1. ASSUME NEW c \in Conns PROVE PhaseOf(c)' = PhaseOf(c)
  <2>1. Waiting(c)' <=> Waiting(c)
    BY DEF Waiting, Queued
  <2>2. \A fd \in Fds : open[fd] = c => clients'[fd].state = clients[fd].state
    BY ConnsAssumption DEF DescriptorsMatchClients
  <2>3. QED
    BY <2>1, <2>2, SamePhase
<1>2. [c \in Conns |-> PhaseOf(c)'] = [c \in Conns |-> PhaseOf(c)]
  BY <1>1
<1>3. QED
  BY <1>2 DEF Promise!svars

(* send() hands over some more, and the last of it closes the connection.  *)
LEMMA SendDelivers ==
  ASSUME IInv, DescriptorsMatchClients', NEW fd \in Fds, handle_client_write(fd),
         send_some(fd)
  PROVE  \E c \in Conns : Promise!Deliver(c)
<1> DEFINE w == clients[fd].bytes_written
           m == clients[fd].write_buffer
<1>0. PICK c \in Conns : c = open[fd]
  BY EntryHasClient DEF handle_client_write
<1>1. /\ clients[fd] \in Client /\ clients[fd] # NoClient
      /\ clients[fd].state = "SENDING" /\ answers[c] = <<m>>
      /\ w \in Nat /\ m \in Nat /\ Len(handed[c]) = w
      /\ UNCHANGED <<answers, peer>>
  BY <1>0, EntryHasClient, EntryToWrite DEF handle_client_write, histVars, peerVars
<1>2. PICK n \in Nat \ {0} :
        /\ w + n <= m
        /\ handed' = [handed EXCEPT ![c] = @ \o [k \in 1 .. n |-> w + k]]
        /\ \/ w + n = m /\ remove_client(fd)
           \/ /\ w + n < m
              /\ clients' = [clients EXCEPT ![fd].bytes_written = w + n]
              /\ UNCHANGED <<open, rst>>
        /\ UNCHANGED <<pc, backlog>>
  BY <1>0, SendOutcome DEF handle_client_write
<1>3. /\ Len(handed'[c]) = w + n
      /\ \A d \in Conns \ {c} : handed'[d] = handed[d]
  <2>1. /\ handed'[c] = handed[c] \o [k \in 1 .. n |-> w + k]
        /\ \A d \in Conns \ {c} : handed'[d] = handed[d]
    BY <1>2 DEF IInv, TypeOK, KernelTypes
  <2>2. /\ handed[c] \in Seq(Nat) /\ [k \in 1 .. n |-> w + k] \in Seq(Nat)
        /\ Len([k \in 1 .. n |-> w + k]) = n
    BY <1>1, SentPieceType DEF IInv, TypeOK, KernelTypes
  <2>3. QED
    BY <1>1, <2>1, <2>2, ConcatProperties
<1>4. DescriptorsMatchClients
  BY DEF IInv
<1>5. PhaseOf(c) = "answering"
  BY <1>0, <1>1, <1>4, HeldPhase
<1>6. /\ \A g \in Fds \ {fd} : clients'[g] = clients[g] /\ open'[g] = open[g]
      /\ open'[fd] \in {open[fd], NoConn}
  BY <1>2 DEF remove_client, IInv, TypeOK, ProcessTypes, KernelTypes
<1>7. \A d \in Conns : d # c => PhaseOf(d)' = PhaseOf(d)
  BY <1>0, <1>1, <1>2, <1>4, <1>6, OtherPhasesStay
<1>8. PhaseOf(c)' = IF w + n = m THEN "closed" ELSE "answering"
  <2>1. CASE w + n = m
    <3>1. remove_client(fd)
      BY <1>1, <1>2, <2>1
    <3>2. ~Waiting(c)
      BY <1>0, <1>4, HeldPhase
    <3>3. ~Waiting(c)'
      BY <1>1, <1>2, <3>2 DEF Waiting, Queued
    <3>4. open'[fd] = NoConn
      BY <3>1 DEF remove_client, IInv, TypeOK, KernelTypes
    <3>5. ~Held(c)'
      BY <1>0, <1>4, <1>6, <3>4, ConnsAssumption DEF Held, DescriptorsMatchClients
    <3>6. QED
      BY <2>1, <3>3, <3>5, NextClosedPhase
  <2>2. CASE w + n < m
    <3>1. clients' = [clients EXCEPT ![fd].bytes_written = w + n] /\ UNCHANGED open
      BY <1>1, <1>2, <2>2
    <3>2. clients'[fd] = [clients[fd] EXCEPT !.bytes_written = w + n]
      BY <3>1 DEF IInv, TypeOK, ProcessTypes
    <3>3. clients'[fd].state = "SENDING"
      BY <1>1, <3>2 DEF Client
    <3>4. PhaseOf(c)' = "answering"
      BY <1>0, <3>1, <3>3, NextHeldPhase
    <3>5. QED
      BY <1>1, <2>2, <3>4
  <2>3. QED
    BY <1>1, <1>2, <2>1, <2>2
<1>9. [d \in Conns |-> PhaseOf(d)'] =
        [[d \in Conns |-> PhaseOf(d)] EXCEPT ![c] = IF w + n = m THEN "closed" ELSE @]
  BY <1>5, <1>7, <1>8
<1>10. [d \in Conns |-> Len(handed'[d])] = [[d \in Conns |-> Len(handed[d])] EXCEPT ![c] = w + n]
  BY <1>3
<1>11. answers[c] # <<>> /\ answers[c][1] = m
  BY <1>1
<1>12. w + n \in (Len(handed[c]) + 1) .. m
  BY <1>1, <1>2
<1> HIDE DEF w, m
<1>13. Promise!Deliver(c)
  BY <1>0, <1>1, <1>5, <1>9, <1>10, <1>11, <1>12 DEF Promise!Deliver
<1>14. QED
  BY <1>13

LEMMA ReadImplements ==
  ASSUME IInv, DescriptorsMatchClients', NEW fd \in Fds, handle_client_read(fd)
  PROVE  Promise!Next \/ UNCHANGED Promise!svars
<1> DEFINE buf == append_to_read_buffer(fd, RecvData(fd))
<1>1. /\ clients[fd] # NoClient /\ open[fd] \in Conns /\ clients[fd].state = "READING"
      /\ answers[open[fd]] = <<>> /\ UNCHANGED <<handed, peer>>
  BY EntryHasClient, EntryToRead DEF handle_client_read, peerVars
<1>2. CASE receive_nothing(fd)
  BY <1>1, <1>2, RemoveHangsUp DEF receive_nothing, Promise!Next
<1>3. CASE receive(fd)
  <2>1. CASE process_client_request(fd, buf)
    <3>1. CASE terminate /\ UNCHANGED answers
      BY <1>1, <3>1, TerminateCrashes DEF Promise!Next
    <3>2. ASSUME NEW n \in Lengths, UNCHANGED <<open, backlog>>,
                 clients' = [clients EXCEPT ![fd] =
                    [state |-> "SENDING", read_buffer |-> buf,
                     write_buffer |-> n, bytes_written |-> 0]],
                 answers' = [answers EXCEPT ![open[fd]] = Append(@, n)]
          PROVE  Promise!Next
      <4> HIDE DEF buf
      <4>1. QED
        BY <1>1, <3>2, ProcessAnswers DEF Promise!Next
    <3> HIDE DEF buf
    <3>3. QED
      BY <2>1, <3>1, <3>2 DEF process_client_request
  <2>2. CASE /\ clients' = [clients EXCEPT ![fd].read_buffer = buf]
             /\ UNCHANGED <<open, backlog, answers>>
    <3> HIDE DEF buf
    <3>1. /\ clients'[fd] = [clients[fd] EXCEPT !.read_buffer = buf]
          /\ \A g \in Fds \ {fd} : clients'[g] = clients[g]
      BY <2>2 DEF IInv, TypeOK, ProcessTypes
    <3>2. clients'[fd].state = clients[fd].state
      BY <1>1, <3>1 DEF Client, IInv, TypeOK, ProcessTypes
    <3>3. QED
      BY <1>1, <2>2, <3>1, <3>2, SameStates DEF IInv
  <2>3. QED
    BY <1>3, <2>1, <2>2 DEF receive, RecvData, RecvCount
<1>4. QED
  BY <1>1, <1>2, <1>3 DEF handle_client_read

LEMMA WriteImplements ==
  ASSUME IInv, DescriptorsMatchClients', NEW fd \in Fds, handle_client_write(fd)
  PROVE  Promise!Next \/ UNCHANGED Promise!svars
<1>1. clients[fd] # NoClient /\ open[fd] \in Conns /\ UNCHANGED <<answers, peer>>
  BY EntryHasClient DEF handle_client_write, peerVars, histVars
<1>2. CASE remove_client(fd) /\ UNCHANGED <<backlog, handed>>
  BY <1>1, <1>2, RemoveHangsUp DEF Promise!Next
<1>3. CASE terminate /\ UNCHANGED handed
  BY <1>1, <1>3, TerminateCrashes DEF Promise!Next
<1>4. CASE UNCHANGED <<clients, open, backlog, handed>>
  BY <1>1, <1>4, SameStates DEF IInv
<1>5. CASE send_some(fd)
  BY <1>1, <1>5, SendDelivers DEF Promise!Next
<1>6. QED
  BY <1>1, <1>2, <1>3, <1>4, <1>5 DEF handle_client_write, send_fails

LEMMA StepImplements ==
  ASSUME IInv, IInv', [Next]_vars
  PROVE  Promise!Next \/ UNCHANGED Promise!svars
<1>1. DescriptorsMatchClients /\ DescriptorsMatchClients'
  BY DEF IInv
<1>2. CASE QuietStep
  BY <1>1, <1>2, SameStates DEF QuietStep
<1>3. CASE accept_one
  BY <1>1, <1>3, AcceptAccepts DEF Promise!Next
<1>4. ASSUME NEW fd \in Fds, handle_client_read(fd)
      PROVE  Promise!Next \/ UNCHANGED Promise!svars
  BY <1>1, <1>4, ReadImplements
<1>5. ASSUME NEW fd \in Fds, handle_client_write(fd)
      PROVE  Promise!Next \/ UNCHANGED Promise!svars
  BY <1>1, <1>5, WriteImplements
<1>6. ASSUME NEW fd \in Fds, handle_hangup(fd) PROVE Promise!Next
  BY <1>1, <1>6, EntryHasClient, RemoveHangsUp
  DEF handle_hangup, histVars, peerVars, Promise!Next
<1>7. ASSUME NEW c \in Conns, peer_connects(c) PROVE UNCHANGED Promise!svars
  <2>1. /\ UNCHANGED <<clients, open, answers, handed>> /\ peer[c] = "idle"
        /\ backlog' = Append(backlog, c)
        /\ peer'[c] # "idle" /\ \A d \in Conns \ {c} : peer'[d] = peer[d]
    BY <1>7 DEF peer_connects, procVars, histVars, IInv, TypeOK, PeerTypes
  <2>2. /\ Len(backlog) \in Nat /\ Len(backlog') = Len(backlog) + 1
        /\ backlog'[Len(backlog) + 1] = c
        /\ \A k \in 1 .. Len(backlog) : backlog'[k] = backlog[k]
    BY <2>1, AppendProperties DEF IInv, TypeOK, KernelTypes
  <2>3. \A d \in Conns : Waiting(d)' <=> Waiting(d)
    <3>1. Queued(c)'
      BY <2>2 DEF Queued
    <3>2. \A d \in Conns \ {c} : Queued(d)' <=> Queued(d)
      BY <2>2 DEF Queued
    <3>3. QED
      BY <2>1, <3>1, <3>2 DEF Waiting
  <2>4. \A d \in Conns : PhaseOf(d)' = PhaseOf(d)
    BY <1>1, <2>1, <2>3, SamePhase
  <2>5. QED
    BY <2>1, <2>4 DEF Promise!svars
<1>8. ASSUME NEW c \in Conns,
             \/ peer_sends(c) \/ peer_finishes(c) \/ peer_aborts(c)
             \/ peer_reads(c) \/ peer_is_cut(c)
      PROVE  UNCHANGED Promise!svars
  <2>1. UNCHANGED <<clients, open, backlog, answers, handed>>
    BY <1>8 DEF peer_sends, peer_finishes, peer_aborts, peer_reads, peer_is_cut,
      procVars, kernelVars, histVars
  <2>2. \A d \in Conns : peer'[d] = "idle" <=> peer[d] = "idle"
    BY <1>8 DEF peer_sends, peer_finishes, peer_aborts, peer_reads, peer_is_cut,
      Connected, IInv, TypeOK, PeerTypes
  <2>3. QED
    BY <1>1, <2>1, <2>2, SameStates
<1>9. QED
  BY StepCases, <1>2, <1>3, <1>4, <1>5, <1>6, <1>7, <1>8 DEF Peers

(* The loop of polls.cpp implements ConnectionService: every connection    *)
(* waits, is read, is answered by one response handed over front to back,  *)
(* and is closed, whatever the other connections do.                       *)
THEOREM ServiceImplemented == Spec => ImplementsService
<1>1. Init => Promise!Init
  BY InitImplements
<1>2. IInv /\ IInv' /\ [Next]_vars => [Promise!Next]_Promise!svars
  BY StepImplements
<1>3. QED
  BY <1>1, <1>2, Inductive, PTL DEF Spec, ImplementsService, Promise!Spec
=============================================================================
