SPECIFICATION Spec
CONSTANTS
    None = None
    police = police
    rab = rab
    bgb = bgb
    alice = alice
    bob = bob
    held = held
    other = other
    q1 = q1
    Orgs = {police, rab, bgb}
    Users = {alice, bob}
    OrgOf <- MCOrgOf
    Configured = {rab, bgb}
    Budget = 1
    Tokens = {held, other}
    Held <- MCHeld
    Requests = {q1, q2}
    Retries = {}
    QueryForms <- MCBudgetForms
    RetryForms <- MCRetryForms
INVARIANTS
    BudgetHolds
CHECK_DEADLOCK FALSE
