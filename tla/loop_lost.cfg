SPECIFICATION Spec
CONSTANTS
  c1 = c1  c2 = c2  c3 = c3
  Conns = {c1}
  Aborters = {}
  FairPeers = {}
  Fds <- OneFd
  ServerFd <- MCServerFd
  Streams <- BodyStreams
  Throws = Throws
  Answers = {2}
  RecvMax = 2
  SendCap = 2
  Spurious = FALSE
  NoConn = NoConn  NoClient = NoClient  Unset = Unset
INVARIANT
  HandedIsRead
