SPECIFICATION FairSpec
CONSTANTS
    None = None
    police = police
    rab = rab
    bgb = bgb
    alice = alice
    bob = bob
    held = held
    other = other
    q1 = q1
    Orgs = {police, rab, bgb}
    Users = {alice, bob}
    OrgOf <- MCOrgOf
    Configured = {rab, bgb}
    Budget = 1
    Tokens = {held, other}
    Held <- MCHeld
    Requests = {q1}
    Retries = {r1}
    QueryForms <- MCAllForms
    RetryForms <- MCAllRetries
INVARIANTS
    OnlyRecordedQueriesCharged
    TypeOK
    AnswersAreOnLedger
    AttestedOnce
    AttestedTokenIsMapped
    EverySubmissionIsCharged
PROPERTIES
    ImplementsLedger
    EveryPostAnswered
CHECK_DEADLOCK FALSE
