CONSTANTS
    Clients = {c1, c2}
    Ports = {p1}
    Transports = {t1, t2, t3, t4}
    Owner = Owner
    None = None
SPECIFICATION Spec
SYMMETRY Symmetry
INVARIANTS
    TypeOK
    NoOrphanPort
    NoGhostClients
    NoLeakedDevice
    NoLeakedClaim
