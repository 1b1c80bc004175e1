SPECIFICATION Spec
CONSTANTS
  c1 = c1  c2 = c2  c3 = c3
  Conns = {c1, c2}
  Aborters = {c1, c2}
  FairPeers = {}
  Fds <- TwoFds
  ServerFd <- MCServerFd
  Streams <- SafetyStreams
  Throws = Throws
  Answers = {1, 3, Throws}
  RecvMax = 2
  SendCap = 2
  Spurious = TRUE
  NoConn = NoConn  NoClient = NoClient  Unset = Unset
SYMMETRY AnyPeer
CHECK_DEADLOCK FALSE
INVARIANTS
  TypeOK
  DescriptorsMatchClients
  EventsMatchState
  ResponseInOrder
  ReadBufferHoldsReceived
  AnsweredAtHead
PROPERTIES
  NoPrematureClose
  ImplementsService
