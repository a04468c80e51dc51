SPECIFICATION DisclosureSpec
CONSTANTS
    police = police
    rab = rab
    q = q
    purpose = purpose
    a1 = a1
    identity = identity
    contact = contact
    discovery = discovery
    Orgs = {police, rab}
    Purposes = {purpose}
    Scopes = {identity, contact}
    QueryIds = {q}
    RequestIds = {a1}
    PayloadHashes <- MCPayloads
    Timestamps = {0, 1, 2}
    TxIds = {discovery, a1, d1, d2, x1, x2}
    Submissions <- MCSubmissions
    NoProposal = NoProposal
    Configured = {rab}
    Fields <- MCFields
    Lifetime = 1
    LastInstant = 0
    Decisions = {d1, d2}
    Disclosures = {x1, x2}
    AccessForms <- MCAnyAccess
    DecisionForms <- MCDisagreement
    DisclosureForms <- MCByRequest
    NoForm = NoForm
    NoRequest = NoRequest
SYMMETRY MCSymmetry
INVARIANTS
    HandlersTypeOK
    DisclosedOnce
    AcknowledgedDecisionStands
CHECK_DEADLOCK FALSE
