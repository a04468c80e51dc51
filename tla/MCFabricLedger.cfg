SPECIFICATION FairSpec
CONSTANTS
    police = police
    rab = rab
    q = q
    purpose = purpose
    Orgs = {police, rab}
    Purposes = {purpose}
    Scopes = {identity}
    QueryIds = {q}
    RequestIds = {request}
    PayloadHashes = {hash}
    Timestamps = {0}
    TxIds = {t1, t2, t3}
    Submissions <- MCSubmissions
    NoProposal = NoProposal
INVARIANTS
    TypeOK
    AcknowledgedIsReadable
    OneWinnerPerKey
    PeersAgree
PROPERTIES
    ImplementsCalls
    EveryCallReturns
CHECK_DEADLOCK FALSE
