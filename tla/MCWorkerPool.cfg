CONSTANTS
    Conns = {c1, c2, c3}
    NoConn = NoConn
    Listener = Listener
    Threads = {t1, t2}
    WorkerConnections = 3
    KeepAlive = 1
    FirstByteTimeout = 1
    HeaderDeadline = 2
    PickupGrace = 1
    ClientTimeout = 1
    WedgeSeconds = 1
SPECIFICATION Spec
SYMMETRY AnyConnAnyThread
INVARIANTS TypeOK Accounted
PROPERTIES QueuedNotCut RecyclesOnlyStuck
