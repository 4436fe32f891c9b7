\* A host with two sockets, one after the other or at once, which may be removed,
\* and a client.
SPECIFICATION Spec
CONSTANTS
    h = h
    c = c
    s1 = s1
    s2 = s2
    s3 = s3
    Hosts = {h}
    Clients = {c}
    Sockets = {s1, s2, s3}
    Owner <- MCOwner
    Ops = {"approve", "unpair", "remove"}
    Removable = {h}
    QueueSize = 2
    NoSocket = NoSocket
    NoOffer = NoOffer
    Open = Open
    Free = Free
    ApiCall = ApiCall
SYMMETRY Symmetry
INVARIANTS
    TypeOK
    HubAgrees
    ToldTruth
PROPERTIES
    NobodyElseDropped
CHECK_DEADLOCK FALSE
