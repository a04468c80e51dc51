------------------------------- MODULE Ledger -------------------------------
(***************************************************************************)
(* The chaincode DefChainContract as a sequential program: each            *)
(* transaction reads and writes the world state in one step.  FabricLedger *)
(* models how a client's call reaches the world state through endorsement, *)
(* ordering and validation, and implements this module.                    *)
(*                                                                         *)
(* A ledger record keeps the transaction input it was built from (the code *)
(* spreads `...input` into the record) and adds recordType, txId and the   *)
(* ledgerTimestamp.  Input fields that no guard of the code reads          *)
(* (opaqueCaseRef, policyVersion, createdByRole, attestationId, reasonCode,*)
(* decisionId, justificationHash, signatures) are left out.  Arrays whose  *)
(* elements the schemas force to be distinct are sets.                     *)
(***************************************************************************)
EXTENDS Integers

CONSTANTS
    Orgs,         \* the MSP identities: organizations
    Purposes,     \* purpose codes
    Scopes,       \* disclosure scopes
    QueryIds,     \* ids a requester may give a query
    RequestIds,   \* ids a requester may give an access request
    PayloadHashes,\* digests of disclosed payloads
    Timestamps,   \* instants, in the code's milliseconds
    TxIds         \* Fabric transaction ids

ASSUME TimestampsAssumption == Timestamps \subseteq Int

VARIABLE state    \* the world state: the set of records, each under Key(r)

-----------------------------------------------------------------------------
(* What the zod schemas of model.ts accept.                                *)

NonEmptySubsets(S) == (SUBSET S) \ {{}}

QueryInput ==
    [queryId : QueryIds, requesterOrg : Orgs, purposeCode : Purposes,
     targetOrganizations : NonEmptySubsets(Orgs)]

MatchInput ==
    [queryId : QueryIds, providerOrg : Orgs, result : {"MATCH", "NO_MATCH"}]

AccessInput ==
    {i \in [requestId : RequestIds, queryId : QueryIds, requesterOrg : Orgs,
            providerOrg : Orgs, requestedScopes : NonEmptySubsets(Scopes),
            purposeCode : Purposes] :
        i.requesterOrg # i.providerOrg}

DecisionInput ==
    {i \in [requestId : RequestIds, providerOrg : Orgs,
            decision : {"APPROVE", "PARTIAL", "DENY"},
            approvedScopes : SUBSET Scopes, expiresAt : Timestamps] :
        i.decision = "DENY" <=> i.approvedScopes = {}}

ReceiptInput ==
    [requestId : RequestIds, providerOrg : Orgs, requesterOrg : Orgs,
     payloadHash : PayloadHashes]

RecordOf(type, Input) ==
    [recordType : {type}, input : Input, txId : TxIds,
     ledgerTimestamp : Timestamps]

QueryRequest          == RecordOf("QueryRequest", QueryInput)
MatchAttestation      == RecordOf("MatchAttestation", MatchInput)
AccessRequest         == RecordOf("AccessRequest", AccessInput)
AuthorizationDecision == RecordOf("AuthorizationDecision", DecisionInput)
DisclosureReceipt     == RecordOf("DisclosureReceipt", ReceiptInput)

LedgerRecord ==
    QueryRequest \cup MatchAttestation \cup AccessRequest
        \cup AuthorizationDecision \cup DisclosureReceipt

-----------------------------------------------------------------------------
(* The key space.  The id schema excludes ":", so KEY is injective.        *)

QueryKey(id)           == <<"QUERY", id>>
MatchKey(id, provider) == <<"MATCH", <<id, provider>>>>
AccessKey(id)          == <<"ACCESS", id>>
DecisionKey(id)        == <<"DECISION", id>>
ReceiptKey(id)         == <<"RECEIPT", id>>

(* Variant: decisions and receipts under ids of their own.                 *)
KeyPerSubmission(r) ==
    CASE r.recordType = "QueryRequest" -> QueryKey(r.input.queryId)
      [] r.recordType = "MatchAttestation" ->
            MatchKey(r.input.queryId, r.input.providerOrg)
      [] r.recordType = "AccessRequest" -> AccessKey(r.input.requestId)
      [] OTHER -> <<r.recordType, <<r.input.requestId, r.ledgerTimestamp>>>>

Key(r) ==
    CASE r.recordType = "QueryRequest" -> QueryKey(r.input.queryId)
      [] r.recordType = "MatchAttestation" ->
            MatchKey(r.input.queryId, r.input.providerOrg)
      [] r.recordType = "AccessRequest" -> AccessKey(r.input.requestId)
      [] r.recordType = "AuthorizationDecision" ->
            DecisionKey(r.input.requestId)
      [] r.recordType = "DisclosureReceipt" -> ReceiptKey(r.input.requestId)

(* What is stored under k in world state S: no record or one.  A guard     *)
(* that reads a key is false when nothing is there (ERR_NOT_FOUND).        *)
Get(S, k) == {r \in S : Key(r) = k}

(* Variant: the input stored without its record envelope.                  *)
PutStateRawInput(S, r) == {x \in S : Key(x) # Key(r)} \cup {r.input}

(* putState: replaces whatever the key held.                               *)
PutState(S, r) == {x \in S : Key(x) # Key(r)} \cup {r}

(* Variants: no existence check, and none for decisions ("let the officer  *)
(* reconsider").                                                           *)
KeyFreeUnchecked(S, r) == TRUE
KeyFreeButDecisions(S, r) ==
    r.recordType = "AuthorizationDecision" \/ Get(S, Key(r)) = {}

(* The existence check of putImmutable.                                    *)
KeyFree(S, r) == Get(S, Key(r)) = {}

-----------------------------------------------------------------------------
(* The guards of the transactions, in world state S, of a caller whose     *)
(* certificate belongs to msp and whose transaction would write r.         *)

QueryAccepted(S, msp, r) == msp = r.input.requesterOrg

(* Variant: attesting without having been targeted.                        *)
MatchAcceptedUntargeted(S, msp, r) ==
    /\ msp = r.input.providerOrg
    /\ Get(S, QueryKey(r.input.queryId)) # {}

MatchAccepted(S, msp, r) ==
    /\ msp = r.input.providerOrg
    /\ \E query \in Get(S, QueryKey(r.input.queryId)) :
          r.input.providerOrg \in query.input.targetOrganizations

(* Variant: a match attested for another query will do.                    *)
AccessAcceptedAnyMatch(S, msp, r) ==
    /\ msp = r.input.requesterOrg
    /\ \E query \in Get(S, QueryKey(r.input.queryId)) :
          /\ query.input.requesterOrg = r.input.requesterOrg
          /\ query.input.purposeCode = r.input.purposeCode
    /\ \E match \in S :
          /\ match.recordType = "MatchAttestation"
          /\ match.input.providerOrg = r.input.providerOrg
          /\ match.input.result = "MATCH"

AccessAccepted(S, msp, r) ==
    /\ msp = r.input.requesterOrg
    /\ \E query \in Get(S, QueryKey(r.input.queryId)) :
          /\ query.input.requesterOrg = r.input.requesterOrg
          /\ query.input.purposeCode = r.input.purposeCode
    /\ \E match \in Get(S, MatchKey(r.input.queryId, r.input.providerOrg)) :
          match.input.result = "MATCH"

(* APPROVE grants every requested scope, PARTIAL a proper non-empty part;  *)
(* nothing outside the request is granted.                                 *)
ScopesFit(decision, approved, requested) ==
    /\ approved \subseteq requested
    /\ decision = "APPROVE" => approved = requested
    /\ decision = "PARTIAL" => approved # {} /\ approved # requested

DecisionAccepted(S, msp, r) ==
    /\ msp = r.input.providerOrg
    /\ \E request \in Get(S, AccessKey(r.input.requestId)) :
          /\ request.input.providerOrg = r.input.providerOrg
          /\ ScopesFit(r.input.decision, r.input.approvedScopes,
                       request.input.requestedScopes)
    /\ r.input.decision # "DENY" => r.input.expiresAt > r.ledgerTimestamp

(* Variant: an approval still good at its expiry.                          *)
ReceiptAcceptedAtExpiry(S, msp, r) ==
    /\ msp = r.input.providerOrg
    /\ \E request \in Get(S, AccessKey(r.input.requestId)) :
          /\ request.input.providerOrg = r.input.providerOrg
          /\ request.input.requesterOrg = r.input.requesterOrg
    /\ \E decision \in Get(S, DecisionKey(r.input.requestId)) :
          /\ decision.input.decision # "DENY"
          /\ decision.input.expiresAt >= r.ledgerTimestamp

ReceiptAccepted(S, msp, r) ==
    /\ msp = r.input.providerOrg
    /\ \E request \in Get(S, AccessKey(r.input.requestId)) :
          /\ request.input.providerOrg = r.input.providerOrg
          /\ request.input.requesterOrg = r.input.requesterOrg
    /\ \E decision \in Get(S, DecisionKey(r.input.requestId)) :
          /\ decision.input.decision # "DENY"
          /\ decision.input.expiresAt > r.ledgerTimestamp

(* The guards of whichever transaction writes r, putImmutable's included.  *)
Accepted(S, msp, r) ==
    /\ CASE r.recordType = "QueryRequest" -> QueryAccepted(S, msp, r)
         [] r.recordType = "MatchAttestation" -> MatchAccepted(S, msp, r)
         [] r.recordType = "AccessRequest" -> AccessAccepted(S, msp, r)
         [] r.recordType = "AuthorizationDecision" ->
               DecisionAccepted(S, msp, r)
         [] r.recordType = "DisclosureReceipt" -> ReceiptAccepted(S, msp, r)
    /\ KeyFree(S, r)

-----------------------------------------------------------------------------
(* The transactions.  One that throws changes nothing.                     *)

PutImmutable(r) ==
    /\ KeyFree(state, r)
    /\ state' = PutState(state, r)

CreateQueryRequest(msp, r) ==
    QueryAccepted(state, msp, r) /\ PutImmutable(r)

CreateMatchAttestation(msp, r) ==
    MatchAccepted(state, msp, r) /\ PutImmutable(r)

CreateAccessRequest(msp, r) ==
    AccessAccepted(state, msp, r) /\ PutImmutable(r)

RecordAuthorizationDecision(msp, r) ==
    DecisionAccepted(state, msp, r) /\ PutImmutable(r)

RecordDisclosureReceipt(msp, r) ==
    ReceiptAccepted(state, msp, r) /\ PutImmutable(r)

Init == state = {}

Next ==
    \E msp \in Orgs :
        \/ \E r \in QueryRequest : CreateQueryRequest(msp, r)
        \/ \E r \in MatchAttestation : CreateMatchAttestation(msp, r)
        \/ \E r \in AccessRequest : CreateAccessRequest(msp, r)
        \/ \E r \in AuthorizationDecision :
               RecordAuthorizationDecision(msp, r)
        \/ \E r \in DisclosureReceipt : RecordDisclosureReceipt(msp, r)

Spec == Init /\ [][Next]_state

-----------------------------------------------------------------------------
(* The read-only transactions, on the world state S of the peer asked.     *)

GetRecord(S, k) == Get(S, k)

ListWorkflows(S) == {r \in S : r.recordType = "QueryRequest"}

(* GetWorkflow scans every record: one that names the query is in, and so  *)
(* is one whose requestId is that of an access request for the query.      *)
NamesQuery(r, q) ==
    /\ r.recordType \in {"MatchAttestation", "AccessRequest"}
    /\ r.input.queryId = q

(* Variant: whatever has an access request belongs to every workflow.      *)
NamesRequestForAny(S, r, q) ==
    /\ r.recordType \in {"AccessRequest", "AuthorizationDecision",
                         "DisclosureReceipt"}
    /\ Get(S, AccessKey(r.input.requestId)) # {}

NamesRequestFor(S, r, q) ==
    /\ r.recordType \in {"AccessRequest", "AuthorizationDecision",
                         "DisclosureReceipt"}
    /\ \E request \in Get(S, AccessKey(r.input.requestId)) :
          request.input.queryId = q

GetWorkflow(S, q) ==
    Get(S, QueryKey(q))
        \cup {r \in S : NamesQuery(r, q) \/ NamesRequestFor(S, r, q)}

-----------------------------------------------------------------------------
(* Properties.                                                             *)

(* The world state holds well-formed records only.                         *)
TypeOK == state \subseteq LedgerRecord

(* Ids are unambiguous, whoever chose them: one query per queryId, one     *)
(* attestation per query and provider, one request, one decision and one   *)
(* receipt per requestId.                                                  *)
IdsUnambiguous ==
    \A r, s \in state :
        r.recordType = s.recordType =>
            /\ r.recordType = "QueryRequest" =>
                  (r.input.queryId = s.input.queryId => r = s)
            /\ r.recordType = "MatchAttestation" =>
                  (r.input.queryId = s.input.queryId
                   /\ r.input.providerOrg = s.input.providerOrg => r = s)
            /\ r.recordType \in {"AccessRequest", "AuthorizationDecision",
                                 "DisclosureReceipt"} =>
                  (r.input.requestId = s.input.requestId => r = s)

(* Nothing a transaction does changes or removes an existing record        *)
(* (ERR_DUPLICATE_ID): the ledger is write-once.                           *)
WriteOnce == [][state \subseteq state']_state

(* What the records before it must say for record r to be on the ledger.   *)
MatchBacked(S, m) ==
    \E q \in S :
        /\ q.recordType = "QueryRequest"
        /\ q.input.queryId = m.input.queryId
        /\ m.input.providerOrg \in q.input.targetOrganizations

AccessBacked(S, a) ==
    /\ \E q \in S :
          /\ q.recordType = "QueryRequest"
          /\ q.input.queryId = a.input.queryId
          /\ q.input.requesterOrg = a.input.requesterOrg
          /\ q.input.purposeCode = a.input.purposeCode
          /\ a.input.providerOrg \in q.input.targetOrganizations
    /\ \E m \in S :
          /\ m.recordType = "MatchAttestation"
          /\ m.input.queryId = a.input.queryId
          /\ m.input.providerOrg = a.input.providerOrg
          /\ m.input.result = "MATCH"

DecisionBacked(S, d) ==
    \E a \in S :
        /\ a.recordType = "AccessRequest"
        /\ a.input.requestId = d.input.requestId
        /\ a.input.providerOrg = d.input.providerOrg
        /\ d.input.approvedScopes \subseteq a.input.requestedScopes
        /\ d.input.decision = "APPROVE" <=>
              d.input.approvedScopes = a.input.requestedScopes

ReceiptBacked(S, t) ==
    \E d \in S, a \in S :
        /\ d.recordType = "AuthorizationDecision"
        /\ a.recordType = "AccessRequest"
        /\ d.input.requestId = t.input.requestId
        /\ a.input.requestId = t.input.requestId
        /\ a.input.providerOrg = t.input.providerOrg
        /\ a.input.requesterOrg = t.input.requesterOrg
        /\ d.input.decision # "DENY"
        /\ t.ledgerTimestamp < d.input.expiresAt

(* Every record is backed by earlier ones.  For an access request that is  *)
(* more than CreateAccessRequest checks: it reads the match, never the     *)
(* query's targets, so that the provider was targeted follows from an      *)
(* earlier transaction and from the query being immutable since.           *)
EveryRecordBacked ==
    \A r \in state :
        /\ r.recordType = "MatchAttestation" => MatchBacked(state, r)
        /\ r.recordType = "AccessRequest" => AccessBacked(state, r)
        /\ r.recordType = "AuthorizationDecision" => DecisionBacked(state, r)
        /\ r.recordType = "DisclosureReceipt" => ReceiptBacked(state, r)

(* Every receipt closes a full chain of custody: the one access request of *)
(* its requestId is backed, its provider - and nobody else - decided it,   *)
(* the decision is no denial, grants nothing that was not asked for, and   *)
(* was in force at the receipt's timestamp.                                *)
ChainOfCustody ==
    \A receipt \in state : receipt.recordType = "DisclosureReceipt" =>
        \E d, a \in state :
            /\ d.recordType = "AuthorizationDecision"
            /\ a.recordType = "AccessRequest"
            /\ d.input.requestId = receipt.input.requestId
            /\ a.input.requestId = receipt.input.requestId
            /\ d.input.providerOrg = receipt.input.providerOrg
            /\ a.input.providerOrg = receipt.input.providerOrg
            /\ a.input.requesterOrg = receipt.input.requesterOrg
            /\ AccessBacked(state, a)
            /\ d.input.decision # "DENY"
            /\ d.input.approvedScopes # {}
            /\ d.input.approvedScopes \subseteq a.input.requestedScopes
            /\ receipt.ledgerTimestamp < d.input.expiresAt

(* A denial is final for its request: no later call turns it into an       *)
(* approval or a disclosure.                                               *)
DenialIsFinal ==
    [][\A d \in state :
          d.recordType = "AuthorizationDecision" /\ d.input.decision = "DENY"
          => \A r \in state' :
                /\ r.recordType = "AuthorizationDecision"
                      /\ r.input.requestId = d.input.requestId => r = d
                /\ r.recordType = "DisclosureReceipt"
                      => r.input.requestId # d.input.requestId]_state

(* GetWorkflow partitions the ledger: each record is in the workflow of    *)
(* one query, which exists, and of no other.                               *)
OneWorkflowPerRecord ==
    \A r \in state : \E q \in QueryIds :
        /\ Get(state, QueryKey(q)) # {}
        /\ \A p \in QueryIds : r \in GetWorkflow(state, p) <=> p = q
=============================================================================
