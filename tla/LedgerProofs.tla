---------------------------- MODULE LedgerProofs ----------------------------
(* Theorems about Ledger for every set of organizations, ids and instants. *)
EXTENDS Ledger, TLAPS

(* No id of a record is shared and every record is backed: the backing of  *)
(* an access request is found through unambiguous ids, and once there it   *)
(* stays, since records only accumulate.                                   *)
Inv == TypeOK /\ IdsUnambiguous /\ EveryRecordBacked

-----------------------------------------------------------------------------
(* A write of a free key leaves every other record in place.               *)
LEMMA PutFresh ==
    ASSUME NEW S, NEW r, KeyFree(S, r)
    PROVE  PutState(S, r) = S \cup {r}
BY DEF KeyFree, PutState, Get

(* A record's type is one of the five, and its input is of that type.      *)
LEMMA RecordCases ==
    ASSUME NEW r \in LedgerRecord
    PROVE  \/ r.recordType = "QueryRequest" /\ r.input \in QueryInput
           \/ r.recordType = "MatchAttestation" /\ r.input \in MatchInput
           \/ r.recordType = "AccessRequest" /\ r.input \in AccessInput
           \/ /\ r.recordType = "AuthorizationDecision"
              /\ r.input \in DecisionInput
           \/ r.recordType = "DisclosureReceipt" /\ r.input \in ReceiptInput
BY DEF LedgerRecord, QueryRequest, MatchAttestation, AccessRequest,
       AuthorizationDecision, DisclosureReceipt, RecordOf

LEMMA RecordTimestamp ==
    ASSUME NEW r \in LedgerRecord
    PROVE  r.ledgerTimestamp \in Int
BY TimestampsAssumption
   DEF LedgerRecord, QueryRequest, MatchAttestation, AccessRequest,
       AuthorizationDecision, DisclosureReceipt, RecordOf

(* A key tells the type and the ids of what is stored under it.            *)
LEMMA KeyTells ==
    ASSUME NEW S \in SUBSET LedgerRecord, NEW id, NEW p
    PROVE  /\ \A r \in Get(S, QueryKey(id)) :
                 r.recordType = "QueryRequest" /\ r.input.queryId = id
           /\ \A r \in Get(S, MatchKey(id, p)) :
                 /\ r.recordType = "MatchAttestation"
                 /\ r.input.queryId = id
                 /\ r.input.providerOrg = p
           /\ \A r \in Get(S, AccessKey(id)) :
                 r.recordType = "AccessRequest" /\ r.input.requestId = id
           /\ \A r \in Get(S, DecisionKey(id)) :
                 /\ r.recordType = "AuthorizationDecision"
                 /\ r.input.requestId = id
BY RecordCases
   DEF Get, Key, QueryKey, MatchKey, AccessKey, DecisionKey, ReceiptKey

(* Two records of one type with the same ids have the same key.            *)
LEMMA SameIdsSameKey ==
    ASSUME NEW r \in LedgerRecord, NEW s \in LedgerRecord,
           r.recordType = s.recordType
    PROVE  /\ r.recordType = "QueryRequest"
                 /\ r.input.queryId = s.input.queryId => Key(r) = Key(s)
           /\ r.recordType = "MatchAttestation"
                 /\ r.input.queryId = s.input.queryId
                 /\ r.input.providerOrg = s.input.providerOrg
                 => Key(r) = Key(s)
           /\ r.recordType \in {"AccessRequest", "AuthorizationDecision",
                                "DisclosureReceipt"}
                 /\ r.input.requestId = s.input.requestId
                 => Key(r) = Key(s)
BY DEF Key, QueryKey, MatchKey, AccessKey, DecisionKey, ReceiptKey

(* Ids stay unambiguous when a record is put under a free key.             *)
LEMMA FreshKeepsIds ==
    ASSUME TypeOK, IdsUnambiguous, NEW r \in LedgerRecord, KeyFree(state, r),
           state' = state \cup {r}
    PROVE  IdsUnambiguous'
<1> DEFINE Apart(x, y) ==
      x.recordType = y.recordType =>
          /\ x.recordType = "QueryRequest" =>
                (x.input.queryId = y.input.queryId => x = y)
          /\ x.recordType = "MatchAttestation" =>
                (x.input.queryId = y.input.queryId
                 /\ x.input.providerOrg = y.input.providerOrg => x = y)
          /\ x.recordType \in {"AccessRequest", "AuthorizationDecision",
                               "DisclosureReceipt"} =>
                (x.input.requestId = y.input.requestId => x = y)
<1>1. ASSUME NEW s \in state PROVE Key(s) # Key(r) /\ s \in LedgerRecord
  BY DEF KeyFree, Get, TypeOK
<1>2. ASSUME NEW s \in state PROVE Apart(r, s) /\ Apart(s, r)
  BY <1>1, SameIdsSameKey
<1>3. ASSUME NEW x \in state, NEW y \in state PROVE Apart(x, y)
  BY DEF IdsUnambiguous
<1>4. Apart(r, r)
  OBVIOUS
<1>5. ASSUME NEW x \in state', NEW y \in state' PROVE Apart(x, y)
  BY <1>2, <1>3, <1>4
<1> QED
  BY <1>5 DEF IdsUnambiguous

(* Backing is monotonic: more records never unback one.                    *)
LEMMA BackingGrows ==
    ASSUME NEW S, NEW T, S \subseteq T, NEW r
    PROVE  /\ MatchBacked(S, r) => MatchBacked(T, r)
           /\ AccessBacked(S, r) => AccessBacked(T, r)
           /\ DecisionBacked(S, r) => DecisionBacked(T, r)
           /\ ReceiptBacked(S, r) => ReceiptBacked(T, r)
BY DEF MatchBacked, AccessBacked, DecisionBacked, ReceiptBacked

-----------------------------------------------------------------------------
(* What a transaction's guards establish about the record it writes.       *)
LEMMA GuardBacksMatch ==
    ASSUME Inv, NEW msp, NEW r \in MatchAttestation,
           MatchAccepted(state, msp, r)
    PROVE  MatchBacked(state, r)
BY KeyTells DEF Inv, TypeOK, MatchAccepted, MatchBacked, Get

(* The provider was targeted because the match it attested is backed by    *)
(* the same query: ids are unambiguous.                                    *)
LEMMA GuardBacksAccess ==
    ASSUME Inv, NEW msp, NEW r \in AccessRequest,
           AccessAccepted(state, msp, r)
    PROVE  AccessBacked(state, r)
<1>1. PICK query \in Get(state, QueryKey(r.input.queryId)) :
          /\ query.input.requesterOrg = r.input.requesterOrg
          /\ query.input.purposeCode = r.input.purposeCode
  BY DEF AccessAccepted
<1>2. PICK match \in
              Get(state, MatchKey(r.input.queryId, r.input.providerOrg)) :
          match.input.result = "MATCH"
  BY DEF AccessAccepted
<1>3. /\ query \in state
      /\ query.recordType = "QueryRequest"
      /\ query.input.queryId = r.input.queryId
  BY KeyTells DEF Get, Inv, TypeOK
<1>4. /\ match \in state
      /\ match.recordType = "MatchAttestation"
      /\ match.input.queryId = r.input.queryId
      /\ match.input.providerOrg = r.input.providerOrg
  BY KeyTells DEF Get, Inv, TypeOK
<1>5. MatchBacked(state, match)
  BY <1>4 DEF Inv, EveryRecordBacked
<1>6. PICK q \in state : /\ q.recordType = "QueryRequest"
                         /\ q.input.queryId = r.input.queryId
                         /\ r.input.providerOrg \in q.input.targetOrganizations
  BY <1>4, <1>5 DEF MatchBacked
<1>7. q = query
  BY <1>3, <1>6 DEF Inv, IdsUnambiguous
<1> QED
  BY <1>1, <1>2, <1>3, <1>4, <1>6, <1>7 DEF AccessBacked

LEMMA GuardBacksDecision ==
    ASSUME Inv, NEW msp, NEW r \in AuthorizationDecision,
           DecisionAccepted(state, msp, r)
    PROVE  DecisionBacked(state, r)
<1>1. PICK request \in Get(state, AccessKey(r.input.requestId)) :
          /\ request.input.providerOrg = r.input.providerOrg
          /\ ScopesFit(r.input.decision, r.input.approvedScopes,
                       request.input.requestedScopes)
  BY DEF DecisionAccepted
<1>2. /\ request \in state
      /\ request.recordType = "AccessRequest"
      /\ request.input.requestId = r.input.requestId
  BY KeyTells DEF Get, Inv, TypeOK
<1>3. request.input.requestedScopes # {}
  <2>1. request.input \in AccessInput
    BY <1>2, RecordCases DEF Inv, TypeOK
  <2> QED
    BY <2>1 DEF AccessInput, NonEmptySubsets
<1>4. /\ r.input.decision \in {"APPROVE", "PARTIAL", "DENY"}
      /\ r.input.decision = "DENY" <=> r.input.approvedScopes = {}
  BY DEF AuthorizationDecision, RecordOf, DecisionInput
<1> QED
  BY <1>1, <1>2, <1>3, <1>4 DEF DecisionBacked, ScopesFit

LEMMA GuardBacksReceipt ==
    ASSUME Inv, NEW msp, NEW r \in DisclosureReceipt,
           ReceiptAccepted(state, msp, r)
    PROVE  ReceiptBacked(state, r)
<1>1. PICK request \in Get(state, AccessKey(r.input.requestId)) :
          /\ request.input.providerOrg = r.input.providerOrg
          /\ request.input.requesterOrg = r.input.requesterOrg
  BY DEF ReceiptAccepted
<1>2. PICK decision \in Get(state, DecisionKey(r.input.requestId)) :
          /\ decision.input.decision # "DENY"
          /\ decision.input.expiresAt > r.ledgerTimestamp
  BY DEF ReceiptAccepted
<1>3. /\ request \in state
      /\ request.recordType = "AccessRequest"
      /\ request.input.requestId = r.input.requestId
  BY KeyTells DEF Get, Inv, TypeOK
<1>4. /\ decision \in state
      /\ decision.recordType = "AuthorizationDecision"
      /\ decision.input.requestId = r.input.requestId
  BY KeyTells DEF Get, Inv, TypeOK
<1>5. decision.input.expiresAt \in Int /\ r.ledgerTimestamp \in Int
  <2>1. decision.input \in DecisionInput
    BY <1>4, RecordCases DEF Inv, TypeOK
  <2> QED
    BY <2>1, TimestampsAssumption
       DEF DecisionInput, DisclosureReceipt, RecordOf
<1> QED
  BY <1>1, <1>2, <1>3, <1>4, <1>5 DEF ReceiptBacked

-----------------------------------------------------------------------------
(* Appending one well-formed, backed record under a free key keeps Inv.    *)
LEMMA AppendKeepsInv ==
    ASSUME Inv, NEW r \in LedgerRecord, PutImmutable(r),
           r.recordType = "MatchAttestation" => MatchBacked(state, r),
           r.recordType = "AccessRequest" => AccessBacked(state, r),
           r.recordType = "AuthorizationDecision" => DecisionBacked(state, r),
           r.recordType = "DisclosureReceipt" => ReceiptBacked(state, r)
    PROVE  Inv'
<1>1. state' = state \cup {r}
  BY PutFresh DEF PutImmutable
<1>2. TypeOK'
  BY <1>1 DEF Inv, TypeOK
<1>3. IdsUnambiguous'
  BY <1>1, FreshKeepsIds DEF Inv, PutImmutable
<1>4. EveryRecordBacked'
  <2> SUFFICES ASSUME NEW s \in state'
               PROVE  /\ s.recordType = "MatchAttestation"
                           => MatchBacked(state', s)
                      /\ s.recordType = "AccessRequest"
                           => AccessBacked(state', s)
                      /\ s.recordType = "AuthorizationDecision"
                           => DecisionBacked(state', s)
                      /\ s.recordType = "DisclosureReceipt"
                           => ReceiptBacked(state', s)
    BY DEF EveryRecordBacked
  <2>1. /\ s.recordType = "MatchAttestation" => MatchBacked(state, s)
        /\ s.recordType = "AccessRequest" => AccessBacked(state, s)
        /\ s.recordType = "AuthorizationDecision" => DecisionBacked(state, s)
        /\ s.recordType = "DisclosureReceipt" => ReceiptBacked(state, s)
    BY <1>1 DEF Inv, EveryRecordBacked
  <2>2. state \subseteq state'
    BY <1>1
  <2> QED
    BY <2>1, <2>2, BackingGrows
<1> QED
  BY <1>2, <1>3, <1>4 DEF Inv

LEMMA NextKeepsInv == Inv /\ [Next]_state => Inv'
<1> SUFFICES ASSUME Inv, [Next]_state PROVE Inv'
  OBVIOUS
<1>1. ASSUME NEW msp \in Orgs, NEW r \in QueryRequest,
             CreateQueryRequest(msp, r)
      PROVE  Inv'
  <2>1. r \in LedgerRecord /\ r.recordType = "QueryRequest"
    BY DEF LedgerRecord, QueryRequest, RecordOf
  <2> QED
    BY <1>1, <2>1, AppendKeepsInv DEF CreateQueryRequest
<1>2. ASSUME NEW msp \in Orgs, NEW r \in MatchAttestation,
             CreateMatchAttestation(msp, r)
      PROVE  Inv'
  <2>1. r \in LedgerRecord /\ r.recordType = "MatchAttestation"
    BY DEF LedgerRecord, MatchAttestation, RecordOf
  <2> QED
    BY <1>2, <2>1, GuardBacksMatch, AppendKeepsInv
       DEF CreateMatchAttestation
<1>3. ASSUME NEW msp \in Orgs, NEW r \in AccessRequest,
             CreateAccessRequest(msp, r)
      PROVE  Inv'
  <2>1. r \in LedgerRecord /\ r.recordType = "AccessRequest"
    BY DEF LedgerRecord, AccessRequest, RecordOf
  <2> QED
    BY <1>3, <2>1, GuardBacksAccess, AppendKeepsInv DEF CreateAccessRequest
<1>4. ASSUME NEW msp \in Orgs, NEW r \in AuthorizationDecision,
             RecordAuthorizationDecision(msp, r)
      PROVE  Inv'
  <2>1. r \in LedgerRecord /\ r.recordType = "AuthorizationDecision"
    BY DEF LedgerRecord, AuthorizationDecision, RecordOf
  <2> QED
    BY <1>4, <2>1, GuardBacksDecision, AppendKeepsInv
       DEF RecordAuthorizationDecision
<1>5. ASSUME NEW msp \in Orgs, NEW r \in DisclosureReceipt,
             RecordDisclosureReceipt(msp, r)
      PROVE  Inv'
  <2>1. r \in LedgerRecord /\ r.recordType = "DisclosureReceipt"
    BY DEF LedgerRecord, DisclosureReceipt, RecordOf
  <2> QED
    BY <1>5, <2>1, GuardBacksReceipt, AppendKeepsInv
       DEF RecordDisclosureReceipt
<1>6. CASE UNCHANGED state
  BY <1>6 DEF Inv, TypeOK, IdsUnambiguous, EveryRecordBacked
<1> QED
  BY <1>1, <1>2, <1>3, <1>4, <1>5, <1>6 DEF Next

LEMMA Invariance == Spec => []Inv
<1>1. Init => Inv
  BY DEF Init, Inv, TypeOK, IdsUnambiguous, EveryRecordBacked
<1> QED
  BY <1>1, NextKeepsInv, PTL DEF Spec

-----------------------------------------------------------------------------
(* The chaincode stores well-formed records only.                          *)
THEOREM TypeCorrect == Spec => []TypeOK
BY Invariance, PTL DEF Inv

(* One record per id and type, however the transactions interleave.        *)
THEOREM IdsAreUnambiguous == Spec => []IdsUnambiguous
BY Invariance, PTL DEF Inv

(* Every match, request, decision and receipt is backed by the records the *)
(* workflow requires before it, the provider's being targeted included.    *)
THEOREM EveryRecordIsBacked == Spec => []EveryRecordBacked
BY Invariance, PTL DEF Inv

(* A receipt closes the full chain of custody.                             *)
LEMMA InvGivesCustody == Inv => ChainOfCustody
<1> SUFFICES ASSUME Inv, NEW t \in state, t.recordType = "DisclosureReceipt"
             PROVE  \E d, a \in state :
                       /\ d.recordType = "AuthorizationDecision"
                       /\ a.recordType = "AccessRequest"
                       /\ d.input.requestId = t.input.requestId
                       /\ a.input.requestId = t.input.requestId
                       /\ d.input.providerOrg = t.input.providerOrg
                       /\ a.input.providerOrg = t.input.providerOrg
                       /\ a.input.requesterOrg = t.input.requesterOrg
                       /\ AccessBacked(state, a)
                       /\ d.input.decision # "DENY"
                       /\ d.input.approvedScopes # {}
                       /\ d.input.approvedScopes \subseteq
                             a.input.requestedScopes
                       /\ t.ledgerTimestamp < d.input.expiresAt
  BY DEF ChainOfCustody
<1>1. PICK d \in state, a \in state :
          /\ d.recordType = "AuthorizationDecision"
          /\ a.recordType = "AccessRequest"
          /\ d.input.requestId = t.input.requestId
          /\ a.input.requestId = t.input.requestId
          /\ a.input.providerOrg = t.input.providerOrg
          /\ a.input.requesterOrg = t.input.requesterOrg
          /\ d.input.decision # "DENY"
          /\ t.ledgerTimestamp < d.input.expiresAt
  BY DEF Inv, EveryRecordBacked, ReceiptBacked
<1>2. AccessBacked(state, a)
  BY <1>1 DEF Inv, EveryRecordBacked
<1>3. PICK b \in state :
          /\ b.recordType = "AccessRequest"
          /\ b.input.requestId = d.input.requestId
          /\ b.input.providerOrg = d.input.providerOrg
          /\ d.input.approvedScopes \subseteq b.input.requestedScopes
  BY <1>1 DEF Inv, EveryRecordBacked, DecisionBacked
<1>4. b = a
  BY <1>1, <1>3 DEF Inv, IdsUnambiguous
<1>5. d.input.approvedScopes # {}
  <2>1. d.input \in DecisionInput
    BY <1>1, RecordCases DEF Inv, TypeOK
  <2> QED
    BY <1>1, <2>1 DEF DecisionInput
<1> QED
  BY <1>1, <1>2, <1>3, <1>4, <1>5

THEOREM CustodyHolds == Spec => []ChainOfCustody
BY Invariance, InvGivesCustody, PTL

(* No transaction changes or removes a record.                             *)
LEMMA NextAppends == Next => state \subseteq state'
<1> SUFFICES ASSUME Next PROVE state \subseteq state'
  OBVIOUS
<1>1. PICK r : PutImmutable(r)
  BY DEF Next, CreateQueryRequest, CreateMatchAttestation,
         CreateAccessRequest, RecordAuthorizationDecision,
         RecordDisclosureReceipt
<1> QED
  BY <1>1, PutFresh DEF PutImmutable

THEOREM LedgerIsWriteOnce == Spec => WriteOnce
BY NextAppends, PTL DEF Spec, WriteOnce

(* Once a request is denied, no later transaction approves or discloses it.*)
THEOREM DenialStands == Spec => DenialIsFinal
<1>1. Inv /\ Inv' /\ [Next]_state =>
        [\A d \in state :
           d.recordType = "AuthorizationDecision" /\ d.input.decision = "DENY"
           => \A r \in state' :
                 /\ r.recordType = "AuthorizationDecision"
                       /\ r.input.requestId = d.input.requestId => r = d
                 /\ r.recordType = "DisclosureReceipt"
                       => r.input.requestId # d.input.requestId]_state
  <2> SUFFICES ASSUME Inv, Inv', Next, NEW d \in state,
                      d.recordType = "AuthorizationDecision",
                      d.input.decision = "DENY",
                      NEW r \in state'
               PROVE  /\ r.recordType = "AuthorizationDecision"
                            /\ r.input.requestId = d.input.requestId => r = d
                      /\ r.recordType = "DisclosureReceipt"
                            => r.input.requestId # d.input.requestId
    OBVIOUS
  <2>1. d \in state'
    BY NextAppends
  <2>2. r.recordType = "AuthorizationDecision"
           /\ r.input.requestId = d.input.requestId => r = d
    BY <2>1 DEF Inv, IdsUnambiguous
  <2>3. ASSUME r.recordType = "DisclosureReceipt",
               r.input.requestId = d.input.requestId
        PROVE  FALSE
    <3>1. PICK e \in state' : /\ e.recordType = "AuthorizationDecision"
                              /\ e.input.requestId = r.input.requestId
                              /\ e.input.decision # "DENY"
      BY <2>3 DEF Inv, EveryRecordBacked, ReceiptBacked
    <3>2. e = d
      BY <2>1, <2>3, <3>1 DEF Inv, IdsUnambiguous
    <3> QED
      BY <3>1, <3>2
  <2> QED
    BY <2>2, <2>3
<1> QED
  BY <1>1, Invariance, PTL DEF Spec, DenialIsFinal

(* What GetWorkflow collects for p, by type: the ids of a record, or those *)
(* of its one access request, name a single query.                         *)
LEMMA InvGivesPartition == Inv => OneWorkflowPerRecord
<1> SUFFICES ASSUME Inv, NEW r \in state
             PROVE  \E q \in QueryIds :
                       /\ Get(state, QueryKey(q)) # {}
                       /\ \A p \in QueryIds :
                             r \in GetWorkflow(state, p) <=> p = q
  BY DEF OneWorkflowPerRecord
<1>1. \A s \in state : /\ s \in LedgerRecord
                       /\ s.recordType = "QueryRequest" <=>
                             s \in Get(state, QueryKey(s.input.queryId))
                       /\ s.recordType = "AccessRequest" =>
                             s \in Get(state, AccessKey(s.input.requestId))
  BY RecordCases
     DEF Inv, TypeOK, Get, Key, QueryKey, MatchKey, AccessKey, DecisionKey,
         ReceiptKey
<1>2. \A id : r \in Get(state, QueryKey(id)) =>
         r.recordType = "QueryRequest" /\ r.input.queryId = id
  BY KeyTells DEF Inv, TypeOK
<1>3. \A id : \A a \in Get(state, AccessKey(id)) :
         a \in state /\ a.recordType = "AccessRequest" /\ a.input.requestId = id
  BY KeyTells DEF Inv, TypeOK, Get
<1>4. CASE r.recordType = "QueryRequest"
  <2>1. r.input.queryId \in QueryIds
    BY <1>4, <1>1, RecordCases DEF QueryInput
  <2>2. \A p \in QueryIds :
           r \in GetWorkflow(state, p) <=> p = r.input.queryId
    BY <1>1, <1>2, <1>4 DEF GetWorkflow, NamesQuery, NamesRequestFor
  <2> QED
    BY <1>1, <1>4, <2>1, <2>2
<1>5. CASE r.recordType = "MatchAttestation"
  <2>1. r.input.queryId \in QueryIds
    BY <1>5, <1>1, RecordCases DEF MatchInput
  <2>2. Get(state, QueryKey(r.input.queryId)) # {}
    BY <1>1, <1>5 DEF Inv, EveryRecordBacked, MatchBacked
  <2>3. \A p \in QueryIds :
           r \in GetWorkflow(state, p) <=> p = r.input.queryId
    BY <1>2, <1>5 DEF GetWorkflow, NamesQuery, NamesRequestFor
  <2> QED
    BY <2>1, <2>2, <2>3
<1>6. ASSUME NEW a \in state, a.recordType = "AccessRequest",
             r.recordType \in {"AccessRequest", "AuthorizationDecision",
                              "DisclosureReceipt"},
             a.input.requestId = r.input.requestId
      PROVE  \E q \in QueryIds :
                /\ Get(state, QueryKey(q)) # {}
                /\ \A p \in QueryIds :
                      r \in GetWorkflow(state, p) <=> p = q
  <2>1. a.input.queryId \in QueryIds
    BY <1>6, <1>1, RecordCases DEF AccessInput
  <2>2. Get(state, QueryKey(a.input.queryId)) # {}
    BY <1>1, <1>6 DEF Inv, EveryRecordBacked, AccessBacked
  <2>3. \A b \in Get(state, AccessKey(r.input.requestId)) : b = a
    BY <1>3, <1>6 DEF Inv, IdsUnambiguous
  <2>4. a \in Get(state, AccessKey(r.input.requestId))
    BY <1>1, <1>6
  <2>5. \A p : NamesRequestFor(state, r, p) <=> a.input.queryId = p
    BY <1>6, <2>3, <2>4 DEF NamesRequestFor
  <2>6. r.recordType = "AccessRequest" => r = a
    BY <1>6 DEF Inv, IdsUnambiguous
  <2>7. \A p \in QueryIds :
           r \in GetWorkflow(state, p) <=> p = a.input.queryId
    BY <1>2, <1>6, <2>5, <2>6 DEF GetWorkflow, NamesQuery
  <2> QED
    BY <2>1, <2>2, <2>7
<1>7. CASE r.recordType = "AccessRequest"
  BY <1>6, <1>7
<1>8. CASE r.recordType = "AuthorizationDecision"
  BY <1>6, <1>8 DEF Inv, EveryRecordBacked, DecisionBacked
<1>9. CASE r.recordType = "DisclosureReceipt"
  BY <1>6, <1>9 DEF Inv, EveryRecordBacked, ReceiptBacked
<1> QED
  BY <1>1, <1>4, <1>5, <1>7, <1>8, <1>9, RecordCases

(* Every record shows up in exactly one workflow, that of an existing query*)
THEOREM WorkflowsPartition == Spec => []OneWorkflowPerRecord
BY Invariance, InvGivesPartition, PTL

(* What the guards of its record's type accept is a transaction.           *)
LEMMA AcceptedIsTransaction ==
    ASSUME NEW msp \in Orgs, NEW r \in LedgerRecord,
           Accepted(state, msp, r), state' = PutState(state, r)
    PROVE  Next
<1>1. PutImmutable(r)
  BY DEF Accepted, PutImmutable
<1>2. CASE r \in QueryRequest
  BY <1>1, <1>2 DEF Accepted, Next, CreateQueryRequest, QueryRequest, RecordOf
<1>3. CASE r \in MatchAttestation
  BY <1>1, <1>3
     DEF Accepted, Next, CreateMatchAttestation, MatchAttestation, RecordOf
<1>4. CASE r \in AccessRequest
  BY <1>1, <1>4
     DEF Accepted, Next, CreateAccessRequest, AccessRequest, RecordOf
<1>5. CASE r \in AuthorizationDecision
  BY <1>1, <1>5
     DEF Accepted, Next, RecordAuthorizationDecision, AuthorizationDecision,
         RecordOf
<1>6. CASE r \in DisclosureReceipt
  BY <1>1, <1>6
     DEF Accepted, Next, RecordDisclosureReceipt, DisclosureReceipt, RecordOf
<1> QED
  BY <1>2, <1>3, <1>4, <1>5, <1>6 DEF LedgerRecord
=============================================================================
