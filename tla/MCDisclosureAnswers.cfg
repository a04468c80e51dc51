SPECIFICATION FairDisclosureSpec
CONSTANTS
    police = police
    rab = rab
    q = q
    purpose = purpose
    a1 = a1
    identity = identity
    contact = contact
    discovery = discovery
    Orgs = {police, rab}
    Purposes = {purpose}
    Scopes = {identity, contact}
    QueryIds = {q}
    RequestIds = {a1}
    PayloadHashes <- MCPayloads
    Timestamps = {0, 1, 2}
    TxIds = {discovery, a1, d1, x1}
    Submissions <- MCSubmissions
    NoProposal = NoProposal
    Configured = {police, rab}
    Fields <- MCAllFields
    Lifetime = 1
    LastInstant = 1
    Decisions = {d1}
    Disclosures = {x1}
    AccessForms <- MCAccessForms
    DecisionForms <- MCAnyDecision
    DisclosureForms <- MCAnyDisclosure
    NoForm = NoForm
    NoRequest = NoRequest
INVARIANTS
    DisclosedAsApproved
PROPERTIES
    EveryHandlerAnswers
CHECK_DEADLOCK FALSE
