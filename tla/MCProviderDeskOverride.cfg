CONSTANTS
    r1 = r1
    r2 = r2
    foreign = foreign
    q1 = q1
    q2 = q2
    d1 = d1
    d2 = d2
    client = client
    None = None
    Scopes = {"name", "phone", "other"}
    Requests = {r1, r2, foreign}
    Ours = {r1, r2}
    QueryOf <- MCQueryOf
    Requested <- MCRequested
    Desks = {d1, d2}
    Client = client
    Calls <- MCCalls
    MaxLoads = 3
    MaxPosts = 2
SPECIFICATION Spec
INVARIANTS
    UnrequestedScopesRejected
CHECK_DEADLOCK FALSE
