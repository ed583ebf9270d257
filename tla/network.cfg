\* Each part in turn.
SPECIFICATION Spec
CONSTANTS
  Instances = {"tcp", "one", "client", "server", "guard", "worker", "tls", "v9net"}
INVARIANTS TypeOK NothingIsLost OpenIsReachable
INVARIANTS BodyIsExact RoutesAreTrue
INVARIANTS GuardIsKept SocketsAreKept
PROPERTIES SynOfOneIsAnswered
\* Every connection is closed, every request over.
CHECK_DEADLOCK FALSE
CONSTANTS
  MaxConn = 2
  MaxPort = 1
  MaxRtx = 1
  MaxSegment = 1
  MaxServer = 0
  MaxWrite = 0
  MaxAgain = 0
  MaxWire = 1
CONSTANTS
  MaxChunk = 4
  MaxPiece = 1
  WriteMark = 1
  StreamMark = 2
  Server = {"s", "t"}
  Port = {1, 2}
  MaxRequest = 1
  MaxRelay = 2
  Addr = {"a", "b"}
  Ws = {"w1", "w2"}
  Fetch = {"f"}
  MaxSessions = 1
  MaxRedirects = 2
  Sock = {"s1", "s2"}
  NoSock = "none"
  MaxSession = 1
  MaxRecord = 1
