----------------------------- MODULE Disclosure -----------------------------
(***************************************************************************)
(* Controlled disclosure, after discovery: the gateway's handlers for      *)
(* access requests, provider decisions and disclosures, and the adapters'  *)
(* /internal/decisions and /internal/disclosures.  Every handler makes one *)
(* ledger call at most, itself or through an adapter; the calls are those  *)
(* of LedgerCalls, under the handler's name.  Reads go to the peer of the  *)
(* reader's agency, which may lag behind the ledger.                       *)
(*                                                                         *)
(* An access request is named after the handler that creates it            *)
(* (safeRandomId).  A payload is the set of scopes it has a field for, and *)
(* stands for its own hash; signatures and encryption are left out but for *)
(* their failure.                                                          *)
(***************************************************************************)
EXTENDS LedgerCalls

CONSTANTS
    Configured,      \* the providers of the deployment's mode
    Fields,          \* Fields[p]: the scopes p's record has a field for
    Lifetime,        \* of an approval: 15 minutes
    LastInstant,     \* bound on the clock
    Decisions,       \* handlers of POST /provider/requests/:id/decision
    Disclosures,     \* handlers of the two disclose routes
    AccessForms,     \* user's org, queryId, providerOrg, requestedScopes
    DecisionForms,   \* user's org, requestId, decision, approvedScopes
    DisclosureForms, \* user's org, route, and the id in it
    NoForm, NoRequest

Handlers == RequestIds \cup Decisions \cup Disclosures

ASSUME HandlersAssumption ==
    /\ Handlers \subseteq TxIds
    /\ RequestIds \cap (Decisions \cup Disclosures) = {}
    /\ Decisions \cap Disclosures = {}

ASSUME ClockAssumption ==
    /\ LastInstant \in Nat
    /\ Lifetime \in Nat
    /\ 0..(LastInstant + Lifetime) \subseteq Timestamps

ASSUME FormsAssumption ==
    /\ AccessForms \subseteq
          [org : Orgs, queryId : QueryIds, providerOrg : Orgs,
           requestedScopes : NonEmptySubsets(Scopes)]
    /\ DecisionForms \subseteq
          [org : Orgs, requestId : RequestIds,
           decision : {"APPROVE", "PARTIAL", "DENY"},
           approvedScopes : SUBSET Scopes]
    /\ DisclosureForms \subseteq
          [org : Orgs, route : {"query", "request"},
           id : QueryIds \cup RequestIds]

VARIABLES
    now,      \* the services' clock
    view,     \* the world state each agency's peer has come to
    pc,       \* where each gateway handler is
    form,     \* what it was asked
    request,  \* the access request it acts on
    job,      \* its adapter call: "unsent", "sent", "submitting" or "error"
    answer    \* its HTTP status, 0 before it answers

gatewayVars == <<pc, form, request, job, answer>>

vars == <<callVars, now, view, gatewayVars>>

DisclosureInit ==
    /\ CallsInit
    /\ now = 0
    /\ view = [o \in Orgs |-> {}]
    /\ pc = [h \in Handlers |-> "idle"]
    /\ form = [h \in Handlers |-> NoForm]
    /\ request = [h \in Handlers |-> NoRequest]
    /\ job = [h \in Handlers |-> "unsent"]
    /\ answer = [h \in Handlers |-> 0]

Tick ==
    /\ now < LastInstant
    /\ now' = now + 1
    /\ UNCHANGED <<callVars, view, gatewayVars>>

(* Variant: a peer shows what has been submitted but not committed yet.    *)
SyncAhead(o) ==
    /\ view[o] # state
    /\ view' = [view EXCEPT ![o] =
          state \cup {proposal[h].record : h \in {k \in TxIds : phase[k] = "open"}}]
    /\ UNCHANGED <<callVars, now, gatewayVars>>

(* A peer applies the blocks up to the last one.                           *)
Sync(o) ==
    /\ view[o] # state
    /\ view' = [view EXCEPT ![o] = state]
    /\ UNCHANGED <<callVars, now, gatewayVars>>

(* Discovery puts a query or an attestation on the ledger.                 *)
Discover ==
    /\ \E s \in Submissions, t \in TxIds \ Handlers :
          LET r == RecordFor(s, t, now) IN
          /\ Accepted(state, s.msp, r)
          /\ state' = PutState(state, r)
    /\ UNCHANGED <<phase, proposal, now, view, gatewayVars>>

-----------------------------------------------------------------------------
(* The ledger calls.                                                       *)

(* Time passes between the check that a handler makes and the moment its   *)
(* call is stamped, so the stamp may be a later instant.                   *)
Submit(h, msp, type, input) ==
    /\ phase' = [phase EXCEPT ![h] = "open"]
    /\ \E stamp \in now..LastInstant :
          proposal' = [proposal EXCEPT ![h] =
             [msp |-> msp,
              record |-> [recordType |-> type, input |-> input, txId |-> h,
                          ledgerTimestamp |-> stamp]]]
    /\ UNCHANGED state

(* The chaincode first parses the input.                                   *)
CallTakesEffect(h) ==
    /\ phase[h] # "idle"
    /\ proposal[h].record \in LedgerRecord
    /\ TakeEffect(h)
    /\ UNCHANGED <<now, view, gatewayVars>>

(* The caller's own peer has told the verdict.                             *)
CallReturns(h) ==
    /\ phase[h] # "idle"
    /\ proposal[h].record \in view[proposal[h].msp]
    /\ Return(h)
    /\ UNCHANGED <<now, view, gatewayVars>>

(* Refused, late, cut off, or the calling service restarts.                *)
CallThrows(h) ==
    /\ Throw(h)
    /\ UNCHANGED <<now, view, gatewayVars>>

-----------------------------------------------------------------------------
(* The gateway's handlers.                                                 *)

Answer(h, status) ==
    /\ answer' = [answer EXCEPT ![h] = status]
    /\ pc' = [pc EXCEPT ![h] = "done"]
    /\ UNCHANGED <<callVars, request, job>>

(* A handler has read the access request and calls the provider's adapter. *)
Forward(h, access) ==
    /\ request' = [request EXCEPT ![h] = access]
    /\ job' = [job EXCEPT ![h] = "sent"]
    /\ pc' = [pc EXCEPT ![h] = "waiting"]
    /\ UNCHANGED <<callVars, answer>>

(* POST /access-requests.  The handler answers 500 when its read fails,    *)
(* also for want of the query at its peer.                                 *)
PostAccess(h) ==
    /\ pc[h] = "idle"
    /\ \E f \in AccessForms :
          /\ form' = [form EXCEPT ![h] = f]
          /\ \/ f.providerOrg \notin Configured /\ Answer(h, 422)
             \/ f.providerOrg \in Configured /\ Answer(h, 500)
             \/ /\ f.providerOrg \in Configured
                /\ \E query \in Get(view[f.org], QueryKey(f.queryId)) :
                      Submit(h, f.org, "AccessRequest",
                          [requestId |-> h, queryId |-> f.queryId,
                           requesterOrg |-> f.org,
                           providerOrg |-> f.providerOrg,
                           requestedScopes |-> f.requestedScopes,
                           purposeCode |-> query.input.purposeCode])
                /\ pc' = [pc EXCEPT ![h] = "submitting"]
                /\ UNCHANGED <<request, job, answer>>
    /\ UNCHANGED <<now, view>>

AccessAnswers(h) ==
    /\ pc[h] = "submitting"
    /\ \/ phase[h] = "ok" /\ Answer(h, 201)
       \/ phase[h] = "failed" /\ Answer(h, 503)
    /\ UNCHANGED <<now, view, form>>

(* The scopes a decision grants, and validateDecisionScopes.               *)
ApprovedScopes(f, access) ==
    CASE f.decision = "APPROVE" -> access.input.requestedScopes
      [] f.decision = "DENY" -> {}
      [] OTHER -> f.approvedScopes

ScopesValid(f, access) ==
    /\ ScopesFit(f.decision, ApprovedScopes(f, access),
                 access.input.requestedScopes)
    /\ f.decision = "DENY" => ApprovedScopes(f, access) = {}

(* POST /provider/requests/:requestId/decision.                            *)
PostDecision(h) ==
    /\ pc[h] = "idle"
    /\ \E f \in DecisionForms :
          /\ form' = [form EXCEPT ![h] = f]
          /\ \/ f.org \notin Configured /\ Answer(h, 422)
             \/ f.org \in Configured /\ Answer(h, 500)
             \/ /\ f.org \in Configured
                /\ \E access \in Get(view[f.org], AccessKey(f.requestId)) :
                      IF access.input.providerOrg # f.org THEN Answer(h, 403)
                      ELSE IF ~ScopesValid(f, access) THEN Answer(h, 400)
                      ELSE Forward(h, access)
    /\ UNCHANGED <<now, view>>

(* The caller's requests for a query that its peer says are approved, good *)
(* for now, and not disclosed yet.                                         *)
Disclosable(S, f) ==
    {access \in GetWorkflow(S, f.id) :
        /\ access.recordType = "AccessRequest"
        /\ access.input.requesterOrg = f.org
        /\ \E decision \in Get(S, DecisionKey(access.input.requestId)) :
              /\ decision.input.decision # "DENY"
              /\ decision.input.expiresAt > now
        /\ Get(S, ReceiptKey(access.input.requestId)) = {}}

(* POST /queries/:queryId/disclose takes the newest of them.               *)
PostDiscloseByQuery(h) ==
    /\ pc[h] = "idle"
    /\ \E f \in DisclosureForms :
          /\ f.route = "query"
          /\ form' = [form EXCEPT ![h] = f]
          /\ LET S == view[f.org] IN
             \/ Answer(h, 500)
             \/ \E query \in Get(S, QueryKey(f.id)) :
                   IF query.input.requesterOrg # f.org THEN Answer(h, 404)
                   ELSE IF Disclosable(S, f) = {} THEN Answer(h, 409)
                   ELSE \E access \in Disclosable(S, f) :
                           /\ \A other \in Disclosable(S, f) :
                                 other.ledgerTimestamp <= access.ledgerTimestamp
                           /\ Forward(h, access)
    /\ UNCHANGED <<now, view>>

(* POST /access-requests/:requestId/disclose leaves the rest to the        *)
(* adapter.                                                                *)
PostDiscloseByRequest(h) ==
    /\ pc[h] = "idle"
    /\ \E f \in DisclosureForms :
          /\ f.route = "request"
          /\ form' = [form EXCEPT ![h] = f]
          /\ \/ Answer(h, 500)
             \/ \E access \in Get(view[f.org], AccessKey(f.id)) :
                   IF access.input.requesterOrg # f.org THEN Answer(h, 403)
                   ELSE Forward(h, access)
    /\ UNCHANGED <<now, view>>

(* Variant: a refusal of the ledger is not told from success.              *)
AdapterAnswersUnchecked(h) ==
    /\ pc[h] = "waiting"
    /\ phase[h] \in {"ok", "failed"}
    /\ Answer(h, IF h \in Decisions THEN 201 ELSE 200)
    /\ UNCHANGED <<now, view, form>>

(* The adapter's answer.  A disclosed payload is decrypted and verified    *)
(* before it is handed out; a submit's error passes through as 503.        *)
AdapterAnswers(h) ==
    /\ pc[h] = "waiting"
    /\ \/ job[h] = "error" /\ Answer(h, 500)
       \/ phase[h] = "failed" /\ Answer(h, 503)
       \/ h \in Decisions /\ phase[h] = "ok" /\ Answer(h, 201)
       \/ /\ h \in Disclosures
          /\ phase[h] = "ok"
          /\ \E status \in {200, 502} : Answer(h, status)
    /\ UNCHANGED <<now, view, form>>

(* Variant: no timer, only a failure of the adapter ends the wait.         *)
AdapterTimesOutOnError(h) ==
    /\ pc[h] = "waiting"
    /\ job[h] = "error"
    /\ Answer(h, 500)
    /\ UNCHANGED <<now, view, form>>

(* AbortSignal.timeout(20_000), or the connection breaks.  That the gateway*)
(* restarts, and nobody is answered, has the same effects.                 *)
AdapterTimesOut(h) ==
    /\ pc[h] = "waiting"
    /\ Answer(h, 500)
    /\ UNCHANGED <<now, view, form>>

-----------------------------------------------------------------------------
(* The adapters.                                                           *)

(* /internal/decisions, which reads the request again at its own peer.     *)
AdapterDecides(h) ==
    LET f == form[h]
        p == f.org
    IN
    /\ job[h] = "sent"
    /\ h \in Decisions
    /\ \E access \in Get(view[p], AccessKey(f.requestId)) :
          /\ access.input.providerOrg = p
          /\ ScopesValid(f, access)
          /\ Submit(h, p, "AuthorizationDecision",
                 [requestId |-> f.requestId, providerOrg |-> p,
                  decision |-> f.decision,
                  approvedScopes |-> ApprovedScopes(f, access),
                  expiresAt |-> now + Lifetime])
    /\ job' = [job EXCEPT ![h] = "submitting"]
    /\ UNCHANGED <<now, view, pc, form, request, answer>>

(* Variant: the payload has every requested scope.                         *)
AdapterDisclosesRequested(h) ==
    /\ job[h] = "sent"
    /\ h \in Disclosures
    /\ LET id == request[h].input.requestId
           p == request[h].input.providerOrg
       IN  \E access \in Get(view[p], AccessKey(id)),
              decision \in Get(view[p], DecisionKey(id)) :
              /\ access.input.providerOrg = p
              /\ decision.input.providerOrg = p
              /\ decision.input.decision # "DENY"
              /\ decision.input.expiresAt > now
              /\ Submit(h, p, "DisclosureReceipt",
                     [requestId |-> id, providerOrg |-> p,
                      requesterOrg |-> access.input.requesterOrg,
                      payloadHash |->
                          access.input.requestedScopes \cap Fields[p]])
    /\ job' = [job EXCEPT ![h] = "submitting"]
    /\ UNCHANGED <<now, view, pc, form, request, answer>>

(* /internal/disclosures: the payload is built from the decision, and its  *)
(* receipt is submitted before it is sent.  Fields the record does not     *)
(* have are dropped from it.                                               *)
AdapterDiscloses(h) ==
    /\ job[h] = "sent"
    /\ h \in Disclosures
    /\ LET id == request[h].input.requestId
           p == request[h].input.providerOrg
       IN  \E access \in Get(view[p], AccessKey(id)),
              decision \in Get(view[p], DecisionKey(id)) :
              /\ access.input.providerOrg = p
              /\ decision.input.providerOrg = p
              /\ decision.input.decision # "DENY"
              /\ decision.input.expiresAt > now
              /\ Submit(h, p, "DisclosureReceipt",
                     [requestId |-> id, providerOrg |-> p,
                      requesterOrg |-> access.input.requesterOrg,
                      payloadHash |->
                          decision.input.approvedScopes \cap Fields[p]])
    /\ job' = [job EXCEPT ![h] = "submitting"]
    /\ UNCHANGED <<now, view, pc, form, request, answer>>

(* A check or a read fails, the local match context is missing, or the     *)
(* adapter restarts: nothing was submitted.                                *)
AdapterFails(h) ==
    /\ job[h] = "sent"
    /\ job' = [job EXCEPT ![h] = "error"]
    /\ UNCHANGED <<callVars, now, view, pc, form, request, answer>>

-----------------------------------------------------------------------------
GatewayStep(h) ==
    AccessAnswers(h) \/ AdapterAnswers(h) \/ AdapterTimesOut(h)

DisclosureNext ==
    \/ Tick \/ Discover
    \/ \E o \in Orgs : Sync(o)
    \/ \E h \in RequestIds : PostAccess(h)
    \/ \E h \in Decisions : PostDecision(h)
    \/ \E h \in Disclosures : PostDiscloseByQuery(h) \/ PostDiscloseByRequest(h)
    \/ \E h \in Handlers :
          \/ CallTakesEffect(h) \/ CallReturns(h) \/ CallThrows(h)
          \/ GatewayStep(h)
          \/ AdapterDecides(h) \/ AdapterDiscloses(h) \/ AdapterFails(h)

DisclosureSpec == DisclosureInit /\ [][DisclosureNext]_vars

(* The gateway's event loop runs, its timers fire, and submit returns or   *)
(* throws (FabricLedger's EveryCallReturns).                               *)
FairDisclosureSpec ==
    DisclosureSpec /\ \A h \in Handlers :
        WF_vars(GatewayStep(h)) /\ WF_vars(CallThrows(h))

-----------------------------------------------------------------------------
(* Properties.                                                             *)

HandlersTypeOK ==
    /\ TypeOK
    /\ now \in 0..LastInstant
    /\ view \in [Orgs -> SUBSET state]
    /\ pc \in [Handlers -> {"idle", "submitting", "waiting", "done"}]
    /\ \A h \in Handlers :
          /\ request[h] # NoRequest => request[h] \in state \cap AccessRequest
          /\ phase[h] # "idle" =>
                /\ proposal[h].msp \in Orgs
                /\ proposal[h].record.txId = h
                /\ proposal[h].record.ledgerTimestamp <= LastInstant
    /\ job \in [Handlers -> {"unsent", "sent", "submitting", "error"}]
    /\ answer \in [Handlers -> {0, 200, 201, 400, 403, 404, 409, 422, 500,
                                502, 503}]

Payload(h) == proposal[h].record.input.payloadHash

(* A payload is handed to an agency only against that agency's request and *)
(* an approval of it by the provider: it has nothing but approved scopes,  *)
(* and this very call's receipt, made before the approval expired, says so *)
(* on the ledger.  The adapter's own check of the expiry is not enough for *)
(* that, since its call may be stamped later.                              *)
DisclosedAsApproved ==
    \A h \in Disclosures : answer[h] = 200 =>
        \E decision \in Get(state, DecisionKey(request[h].input.requestId)),
           receipt \in Get(state, ReceiptKey(request[h].input.requestId)) :
              /\ request[h].input.requesterOrg = form[h].org
              /\ decision.input.providerOrg = request[h].input.providerOrg
              /\ decision.input.decision # "DENY"
              /\ Payload(h) \subseteq decision.input.approvedScopes
              /\ receipt = proposal[h].record
              /\ receipt.input.payloadHash = Payload(h)
              /\ receipt.ledgerTimestamp < decision.input.expiresAt

(* However the disclose calls race, one of them gets the payload.          *)
DisclosedOnce ==
    \A h, k \in Disclosures :
        /\ answer[h] = 200
        /\ answer[k] = 200
        /\ request[h].input.requestId = request[k].input.requestId
        => h = k

(* An officer whose decision was acknowledged has decided: no other        *)
(* decision of the request stands, and if it was DENY nothing is disclosed.*)
AcknowledgedDecisionStands ==
    \A h \in Decisions : answer[h] = 201 =>
        /\ \A d \in Get(state, DecisionKey(form[h].requestId)) :
              d = proposal[h].record
        /\ form[h].decision = "DENY" =>
              \A k \in Disclosures : answer[k] = 200 =>
                  request[k].input.requestId # form[h].requestId

(* Readme.md: a DisclosureReceipt proves that "an approved off-chain       *)
(* disclosure occurred".  When no disclose call is under way, each receipt *)
(* has a call that was handed its payload.                                 *)
ReceiptMeansDelivered ==
    (\A h \in Disclosures : pc[h] # "waiting") =>
        \A r \in state : r.recordType = "DisclosureReceipt" =>
            \E h \in Disclosures :
                answer[h] = 200 /\ proposal[h].record = r

(* Every handler answers, even when neither the adapters nor the ledger    *)
(* ever do.                                                                *)
EveryHandlerAnswers ==
    \A h \in Handlers : pc[h] \in {"submitting", "waiting"}
                           ~> pc[h] = "done"
=============================================================================
