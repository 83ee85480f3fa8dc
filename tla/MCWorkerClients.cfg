CONSTANTS
    Conns = {c1, c2}
    NoConn = NoConn
    Listener = Listener
    Threads = {t1}
    WorkerConnections = 2
    KeepAlive = 1
    FirstByteTimeout = 1
    HeaderDeadline = 1
    PickupGrace = 1
    ClientTimeout = 1
    WedgeSeconds = 1
SPECIFICATION FairSpec
PROPERTIES ClientsCannotHold KeepsPolling
