CONSTANTS
    None = None
    Clients = {c1, c2}
    Queries = {q1}
    Careless = {}
    Socket = TRUE
    Long = {}
    MaxAgents = 1
    MaxSends = 3
SPECIFICATION FairSpec
PROPERTIES Answered
CHECK_DEADLOCK FALSE
