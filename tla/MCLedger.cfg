SPECIFICATION Spec
CONSTANTS
    Orgs = {police, rab}
    Purposes = {investigation}
    Scopes = {identity, contact}
    QueryIds = {q1, q2}
    RequestIds = {r1}
    PayloadHashes = {hash}
    Timestamps = {0, 1}
    TxIds = {tx}
SYMMETRY MCSymmetry
INVARIANTS
    TypeOK
    IdsUnambiguous
    ChainOfCustody
    EveryRecordBacked
    OneWorkflowPerRecord
PROPERTIES
    WriteOnce
    DenialIsFinal
CHECK_DEADLOCK FALSE
