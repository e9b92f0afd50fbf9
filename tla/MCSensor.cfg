CONSTANTS
    None = None
    Clients = {c1, c2}
    Queries = {q1, q2}
    Careless = {}
    Socket = FALSE
    Long = {}
    MaxAgents = 2
    MaxSends = 3
SPECIFICATION Spec
INVARIANTS TypeOK NoDuplicate Routed InputWaits KnownClients Aligned
SYMMETRY SensorSymmetry
CHECK_DEADLOCK FALSE
