SPECIFICATION FairSpec
CONSTANTS
    Users = {"mqtt", "tcp_meter", "serial_meter"}
    Threads = {t1, t2}
    Sizes = {1, 3}
    MaxSends = 3
    MaxWire = 8
INVARIANTS
    WireIsFramed
    CompletedIsWritten
    NewConnectionIsClean
PROPERTIES
    QueuedIsSettled
    ImplementsTransport
