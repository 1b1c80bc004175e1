SPECIFICATION LiveSpec
CONSTANTS
  c1 = c1  c2 = c2  c3 = c3
  Conns = {c1, c2, c3}
  Aborters = {}
  FairPeers = {c1, c2}
  Fds <- TwoFds
  ServerFd <- MCServerFd
  Streams <- LiveStreams
  Throws = Throws
  Answers = {2}
  RecvMax = 2
  SendCap = 1
  Spurious = FALSE
  NoConn = NoConn  NoClient = NoClient  Unset = Unset
CHECK_DEADLOCK FALSE
PROPERTIES
  Answered
  Released
