SPECIFICATION Spec
CONSTANTS
  c1 = c1  c2 = c2  c3 = c3
  Conns = {c1}
  Aborters = {c1}
  FairPeers = {}
  Fds <- OneFd
  ServerFd <- MCServerFd
  Streams <- PlainStreams
  Throws = Throws
  Answers = {2}
  RecvMax = 2
  SendCap = 1
  Spurious = FALSE
  NoConn = NoConn  NoClient = NoClient  Unset = Unset
INVARIANT
  ServerKeepsRunning
