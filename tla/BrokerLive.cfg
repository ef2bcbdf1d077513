CONSTANTS
    Clients = {c1, c2}
    Ports = {p1}
    Transports = {t1, t2}
    Owner = Owner
    None = None
SPECIFICATION PanelFairSpec
PROPERTIES
    PortsReleased
    StopReturns
