SPECIFICATION Spec
CONSTANTS
    keepAliveInterval = 2
    MaxConnects = 2
    MaxMessages = 1
    BoundedLength = 2
INVARIANTS
    DecodedAsSent
    PublishUnderstood
    DeadPeerNoticed
    SilentOnlyWhileReceiving
PROPERTY
    AnsweredPingKeepsSession
