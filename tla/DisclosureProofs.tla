-------------------------- MODULE DisclosureProofs --------------------------
(* The disclosure workflow only ever causes chaincode transactions, so it  *)
(* has every invariant of Ledger; and a payload is handed out only as it   *)
(* was approved, and to one call.                                          *)
EXTENDS Disclosure, LedgerCallsProofs

AdapterHandlers == Decisions \cup Disclosures

Statuses == {0, 200, 201, 400, 403, 404, 409, 422, 500, 502, 503}

(* The variables' types, and that peers hold a part of the ledger.         *)
Typed ==
    /\ state \subseteq LedgerRecord
    /\ now \in 0..LastInstant
    /\ view \in [Orgs -> SUBSET state]
    /\ phase \in [TxIds -> {"idle", "open", "ok", "failed"}]
    /\ DOMAIN proposal = TxIds
    /\ pc \in [Handlers -> {"idle", "submitting", "waiting", "done"}]
    /\ job \in [Handlers -> {"unsent", "sent", "submitting", "error"}]
    /\ answer \in [Handlers -> Statuses]
    /\ DOMAIN form = Handlers
    /\ DOMAIN request = Handlers

(* Each handler makes its one ledger call when its turn has come: an access*)
(* handler after its start, an adapter run once it has been sent for.      *)
InOrder ==
    \A h \in Handlers :
        /\ pc[h] = "idle" => job[h] = "unsent" /\ phase[h] = "idle"
        /\ h \in AdapterHandlers =>
              (phase[h] = "idle" <=> job[h] # "submitting")

(* What a handler was asked, and the access request it has read.           *)
Informed ==
    \A h \in Handlers :
        /\ h \in Decisions /\ pc[h] # "idle" => form[h] \in DecisionForms
        /\ h \in Disclosures /\ pc[h] # "idle" => form[h] \in DisclosureForms
        /\ request[h] # NoRequest => request[h] \in state \cap AccessRequest
        /\ job[h] # "unsent" => request[h] \in state \cap AccessRequest
        /\ h \in Disclosures /\ job[h] # "unsent" =>
              request[h].input.requesterOrg = form[h].org

(* What a call asks for.                                                   *)
Called ==
    \A h \in Handlers : phase[h] # "idle" =>
        /\ proposal[h].msp \in Orgs
        /\ proposal[h].record.txId = h
        /\ proposal[h].record.ledgerTimestamp \in 0..LastInstant
        /\ phase[h] = "ok" => proposal[h].record \in state

WorkInv == Typed /\ InOrder /\ Informed /\ Called

-----------------------------------------------------------------------------
(* What the actions have in common.                                        *)

(* A handler has refused its request, or has sent for an adapter.          *)
Refused(h, f) ==
    /\ form' = [form EXCEPT ![h] = f]
    /\ \E status \in Statuses \ {200, 201} : Answer(h, status)
    /\ UNCHANGED <<now, view>>

Forwarded(h, f) ==
    /\ form' = [form EXCEPT ![h] = f]
    /\ \E access \in state \cap AccessRequest :
          /\ h \in Disclosures => access.input.requesterOrg = f.org
          /\ Forward(h, access)
    /\ UNCHANGED <<now, view>>

LEMMA ViewedIsRecorded ==
    ASSUME Typed, NEW o \in Orgs, NEW k
    PROVE  /\ view[o] \in SUBSET LedgerRecord
           /\ Get(view[o], k) \subseteq state
BY DEF Typed, Get

LEMMA AccessUnderKey ==
    ASSUME Typed, NEW o \in Orgs, NEW id,
           NEW access \in Get(view[o], AccessKey(id))
    PROVE  access \in state \cap AccessRequest /\ access.input.requestId = id
<1>1. access \in state /\ access \in LedgerRecord
  BY ViewedIsRecorded DEF Typed
<1>2. access.recordType = "AccessRequest" /\ access.input.requestId = id
  BY ViewedIsRecorded, KeyTells
<1> QED
  BY <1>1, <1>2 DEF LedgerRecord, QueryRequest, MatchAttestation,
     AuthorizationDecision, DisclosureReceipt, RecordOf

LEMMA DecisionPosted ==
    ASSUME Typed, NEW h \in Decisions, PostDecision(h)
    PROVE  \E f \in DecisionForms : Refused(h, f) \/ Forwarded(h, f)
<1>1. PICK f \in DecisionForms :
         /\ form' = [form EXCEPT ![h] = f]
         /\ \/ f.org \notin Configured /\ Answer(h, 422)
            \/ f.org \in Configured /\ Answer(h, 500)
            \/ /\ f.org \in Configured
               /\ \E access \in Get(view[f.org], AccessKey(f.requestId)) :
                     IF access.input.providerOrg # f.org THEN Answer(h, 403)
                     ELSE IF ~ScopesValid(f, access) THEN Answer(h, 400)
                     ELSE Forward(h, access)
  BY DEF PostDecision
<1>2. f.org \in Orgs
  BY FormsAssumption
<1>3. h \notin Disclosures
  BY HandlersAssumption
<1>4. CASE \E status \in Statuses \ {200, 201} : Answer(h, status)
  BY <1>1, <1>4 DEF Refused, PostDecision
<1>5. CASE \E access \in Get(view[f.org], AccessKey(f.requestId)) :
               Forward(h, access)
  BY <1>1, <1>2, <1>3, <1>5, AccessUnderKey DEF Forwarded, PostDecision
<1> QED
  BY <1>1, <1>4, <1>5 DEF Statuses

LEMMA DisclosurePosted ==
    ASSUME Typed, NEW h \in Disclosures,
           PostDiscloseByQuery(h) \/ PostDiscloseByRequest(h)
    PROVE  \E f \in DisclosureForms : Refused(h, f) \/ Forwarded(h, f)
<1>1. CASE PostDiscloseByQuery(h)
  <2>1. PICK f \in DisclosureForms :
           /\ form' = [form EXCEPT ![h] = f]
           /\ \/ Answer(h, 500)
              \/ \E query \in Get(view[f.org], QueryKey(f.id)) :
                    IF query.input.requesterOrg # f.org THEN Answer(h, 404)
                    ELSE IF Disclosable(view[f.org], f) = {}
                         THEN Answer(h, 409)
                    ELSE \E access \in Disclosable(view[f.org], f) :
                            /\ \A other \in Disclosable(view[f.org], f) :
                                  other.ledgerTimestamp
                                      <= access.ledgerTimestamp
                            /\ Forward(h, access)
    BY <1>1, Zenon DEF PostDiscloseByQuery
  <2>2. f.org \in Orgs
    BY FormsAssumption
  <2>3. ASSUME NEW access \in Disclosable(view[f.org], f)
        PROVE  /\ access \in state \cap AccessRequest
               /\ access.input.requesterOrg = f.org
    <3>1. access \in view[f.org] /\ access.recordType = "AccessRequest"
      BY <2>3 DEF Disclosable, GetWorkflow, Get
    <3>2. access \in state /\ access \in LedgerRecord
      BY <2>2, <3>1 DEF Typed
    <3>3. access \in AccessRequest
      BY <3>1, <3>2 DEF LedgerRecord, QueryRequest, MatchAttestation,
         AuthorizationDecision, DisclosureReceipt, RecordOf
    <3> QED
      BY <2>3, <3>2, <3>3 DEF Disclosable
  <2>4. CASE \E status \in Statuses \ {200, 201} : Answer(h, status)
    BY <1>1, <2>1, <2>4 DEF Refused, PostDiscloseByQuery
  <2>5. CASE \E access \in Disclosable(view[f.org], f) : Forward(h, access)
    BY <1>1, <2>1, <2>3, <2>5 DEF Forwarded, PostDiscloseByQuery
  <2> QED
    BY <2>1, <2>4, <2>5 DEF Statuses
<1>2. CASE PostDiscloseByRequest(h)
  <2>1. PICK f \in DisclosureForms :
           /\ form' = [form EXCEPT ![h] = f]
           /\ \/ Answer(h, 500)
              \/ \E access \in Get(view[f.org], AccessKey(f.id)) :
                    IF access.input.requesterOrg # f.org THEN Answer(h, 403)
                    ELSE Forward(h, access)
    BY <1>2 DEF PostDiscloseByRequest
  <2>2. f.org \in Orgs
    BY FormsAssumption
  <2>3. CASE \E status \in Statuses \ {200, 201} : Answer(h, status)
    BY <1>2, <2>1, <2>3 DEF Refused, PostDiscloseByRequest
  <2>4. CASE \E access \in Get(view[f.org], AccessKey(f.id)) :
                access.input.requesterOrg = f.org /\ Forward(h, access)
    BY <1>2, <2>1, <2>2, <2>4, AccessUnderKey
       DEF Forwarded, PostDiscloseByRequest
  <2> QED
    BY <2>1, <2>3, <2>4 DEF Statuses
<1> QED
  BY <1>1, <1>2

-----------------------------------------------------------------------------
(* The workflow's invariant, action by action.                             *)

LEMMA NowIsInstant ==
    ASSUME Typed
    PROVE  now \in Timestamps /\ now \in Nat
BY ClockAssumption DEF Typed

(* A step that only adds a record to the ledger.                           *)
LEMMA GrowKeepsWork ==
    ASSUME WorkInv, NEW r \in LedgerRecord, KeyFree(state, r),
           state' = PutState(state, r),
           UNCHANGED <<phase, proposal, now, view, gatewayVars>>
    PROVE  WorkInv'
<1>1. state' = state \cup {r}
  BY PutFresh
<1> QED
  BY <1>1 DEF WorkInv, Typed, InOrder, Informed, Called, gatewayVars

LEMMA DiscoverKeepsWork ==
    ASSUME WorkInv, Discover
    PROVE  WorkInv'
<1>1. PICK s \in Submissions, t \in TxIds \ Handlers :
         /\ Accepted(state, s.msp, RecordFor(s, t, now))
         /\ state' = PutState(state, RecordFor(s, t, now))
  BY DEF Discover
<1>2. RecordFor(s, t, now) \in LedgerRecord
  BY SubmissionsAssumption, NowIsInstant DEF WorkInv
<1> QED
  BY <1>1, <1>2, GrowKeepsWork DEF Discover, Accepted

LEMMA EffectKeepsWork ==
    ASSUME WorkInv, NEW h \in Handlers, CallTakesEffect(h)
    PROVE  WorkInv'
BY GrowKeepsWork DEF CallTakesEffect, TakeEffect, Accepted

LEMMA VerdictKeepsWork ==
    ASSUME WorkInv, NEW h \in Handlers, CallReturns(h) \/ CallThrows(h)
    PROVE  WorkInv'
<1>0. h \in TxIds
  BY HandlersAssumption
<1>1. PICK verdict \in {"ok", "failed"} :
         /\ phase[h] = "open"
         /\ phase' = [phase EXCEPT ![h] = verdict]
         /\ verdict = "ok" => proposal[h].record \in state
  BY DEF CallReturns, CallThrows, Return, Throw, Recorded
<1>2. UNCHANGED <<state, proposal, now, view, pc, form, request, job, answer>>
  BY DEF CallReturns, CallThrows, Return, Throw, gatewayVars
<1>3. Typed'
  BY <1>1, <1>2 DEF WorkInv, Typed
<1>4. InOrder'
  BY <1>0, <1>1, <1>2 DEF WorkInv, Typed, InOrder
<1>5. Informed'
  BY <1>2 DEF WorkInv, Informed
<1>6. Called'
  BY <1>0, <1>1, <1>2 DEF WorkInv, Typed, Called
<1> QED
  BY <1>3, <1>4, <1>5, <1>6 DEF WorkInv

LEMMA RefusedKeepsWork ==
    ASSUME WorkInv, NEW h \in AdapterHandlers, pc[h] = "idle",
           NEW f, Refused(h, f),
           h \in Decisions => f \in DecisionForms,
           h \in Disclosures => f \in DisclosureForms
    PROVE  WorkInv'
<1>1. h \in Handlers
  BY DEF Handlers, AdapterHandlers
<1>2. PICK status \in Statuses : Answer(h, status)
  BY DEF Refused
<1>3. UNCHANGED <<state, phase, proposal, now, view, request, job>>
  BY <1>2 DEF Refused, Answer, callVars
<1>4. Typed'
  BY <1>1, <1>2, <1>3 DEF WorkInv, Typed, Refused, Answer
<1>5. InOrder'
  BY <1>1, <1>2, <1>3 DEF WorkInv, Typed, InOrder, Answer
<1>6. job[h] = "unsent"
  BY <1>1 DEF WorkInv, InOrder
<1>7. Informed'
  BY <1>1, <1>2, <1>3, <1>6 DEF WorkInv, Typed, Informed, Refused, Answer
<1>8. Called'
  BY <1>3 DEF WorkInv, Called
<1> QED
  BY <1>4, <1>5, <1>7, <1>8 DEF WorkInv

LEMMA ForwardedKeepsWork ==
    ASSUME WorkInv, NEW h \in AdapterHandlers, pc[h] = "idle",
           NEW f, Forwarded(h, f),
           h \in Decisions => f \in DecisionForms,
           h \in Disclosures => f \in DisclosureForms
    PROVE  WorkInv'
<1>1. h \in Handlers
  BY DEF Handlers, AdapterHandlers
<1>2. PICK access \in state \cap AccessRequest :
         /\ h \in Disclosures => access.input.requesterOrg = f.org
         /\ Forward(h, access)
  BY DEF Forwarded
<1>3. UNCHANGED <<state, phase, proposal, now, view, answer>>
  BY <1>2 DEF Forwarded, Forward, callVars
<1>4. Typed'
  BY <1>1, <1>2, <1>3 DEF WorkInv, Typed, Forwarded, Forward
<1>5. InOrder'
  BY <1>1, <1>2, <1>3 DEF WorkInv, Typed, InOrder, Forward
<1>6. Informed'
  BY <1>1, <1>2, <1>3 DEF WorkInv, Typed, Informed, Forwarded, Forward
<1>7. Called'
  BY <1>3 DEF WorkInv, Called
<1> QED
  BY <1>4, <1>5, <1>6, <1>7 DEF WorkInv

(* A handler submits, at its turn, what it may submit.                     *)
LEMMA SubmitKeepsCalled ==
    ASSUME WorkInv, NEW h \in Handlers, NEW msp \in Orgs, NEW type, NEW input,
           Submit(h, msp, type, input), UNCHANGED now
    PROVE  Called' /\ phase' \in [TxIds -> {"idle", "open", "ok", "failed"}]
                   /\ DOMAIN proposal' = TxIds /\ phase'[h] = "open"
<1>1. h \in TxIds
  BY HandlersAssumption
<1> QED
  BY <1>1, NowIsInstant DEF Submit, WorkInv, Typed, Called

LEMMA PostAccessKeepsWork ==
    ASSUME WorkInv, NEW h \in RequestIds, PostAccess(h)
    PROVE  WorkInv'
<1>1. /\ h \in Handlers
      /\ h \in TxIds
      /\ h \notin AdapterHandlers
      /\ h \notin Decisions
      /\ h \notin Disclosures
  BY HandlersAssumption DEF Handlers, AdapterHandlers
<1>2. PICK f \in AccessForms :
         /\ form' = [form EXCEPT ![h] = f]
         /\ \/ f.providerOrg \notin Configured /\ Answer(h, 422)
            \/ f.providerOrg \in Configured /\ Answer(h, 500)
            \/ /\ f.providerOrg \in Configured
               /\ \E query \in Get(view[f.org], QueryKey(f.queryId)) :
                     Submit(h, f.org, "AccessRequest",
                         [requestId |-> h, queryId |-> f.queryId,
                          requesterOrg |-> f.org,
                          providerOrg |-> f.providerOrg,
                          requestedScopes |-> f.requestedScopes,
                          purposeCode |-> query.input.purposeCode])
               /\ pc' = [pc EXCEPT ![h] = "submitting"]
               /\ UNCHANGED <<request, job, answer>>
  BY DEF PostAccess
<1>3. UNCHANGED <<now, view>> /\ pc[h] = "idle"
  BY DEF PostAccess
<1>4. f.org \in Orgs
  BY FormsAssumption
<1>5. CASE \E status \in Statuses : Answer(h, status)
  BY <1>1, <1>2, <1>3, <1>5
     DEF WorkInv, Typed, InOrder, Informed, Called, Answer, callVars
<1>6. CASE /\ \E input : Submit(h, f.org, "AccessRequest", input)
           /\ pc' = [pc EXCEPT ![h] = "submitting"]
           /\ UNCHANGED <<request, job, answer>>
  <2>1. PICK input : Submit(h, f.org, "AccessRequest", input)
    BY <1>6
  <2>2. UNCHANGED state
    BY <2>1 DEF Submit
  <2>3. /\ Called'
        /\ phase' \in [TxIds -> {"idle", "open", "ok", "failed"}]
        /\ DOMAIN proposal' = TxIds
    BY <1>1, <1>3, <1>4, <2>1, SubmitKeepsCalled
  <2>4. Typed'
    BY <1>1, <1>2, <1>3, <1>6, <2>2, <2>3 DEF WorkInv, Typed
  <2>5. InOrder'
    BY <1>1, <1>3, <1>6, <2>1
       DEF WorkInv, Typed, InOrder, Submit, AdapterHandlers
  <2>6. Informed'
    BY <1>1, <1>2, <1>6, <2>2 DEF WorkInv, Typed, Informed
  <2> QED
    BY <2>3, <2>4, <2>5, <2>6 DEF WorkInv
<1>7. CASE f.providerOrg \notin Configured /\ Answer(h, 422)
  BY <1>5, <1>7 DEF Statuses
<1>8. CASE f.providerOrg \in Configured /\ Answer(h, 500)
  BY <1>5, <1>8 DEF Statuses
<1>9. CASE /\ \E query \in Get(view[f.org], QueryKey(f.queryId)) :
                 Submit(h, f.org, "AccessRequest",
                     [requestId |-> h, queryId |-> f.queryId,
                      requesterOrg |-> f.org,
                      providerOrg |-> f.providerOrg,
                      requestedScopes |-> f.requestedScopes,
                      purposeCode |-> query.input.purposeCode])
           /\ pc' = [pc EXCEPT ![h] = "submitting"]
           /\ UNCHANGED <<request, job, answer>>
  BY <1>6, <1>9
<1> QED
  BY <1>2, <1>7, <1>8, <1>9

LEMMA AnswerKeepsWork ==
    ASSUME WorkInv, NEW h \in Handlers, GatewayStep(h)
    PROVE  WorkInv'
<1>1. PICK status \in Statuses : Answer(h, status)
  BY DEF GatewayStep, AccessAnswers, AdapterAnswers, AdapterTimesOut, Statuses
<1>2. UNCHANGED <<now, view, form>> /\ pc[h] \in {"submitting", "waiting"}
  BY DEF GatewayStep, AccessAnswers, AdapterAnswers, AdapterTimesOut
<1> QED
  BY <1>1, <1>2
     DEF WorkInv, Typed, InOrder, Informed, Called, Answer, callVars

(* An adapter run submits for its own agency.                              *)
LEMMA RunKeepsWork ==
    ASSUME WorkInv, NEW h \in AdapterHandlers, job[h] = "sent",
           NEW msp \in Orgs, NEW type, NEW input, Submit(h, msp, type, input),
           job' = [job EXCEPT ![h] = "submitting"],
           UNCHANGED <<now, view, pc, form, request, answer>>
    PROVE  WorkInv'
<1>1. h \in Handlers /\ h \in TxIds
  BY HandlersAssumption DEF Handlers, AdapterHandlers
<1>2. UNCHANGED state
  BY DEF Submit
<1>3. /\ Called'
      /\ phase' \in [TxIds -> {"idle", "open", "ok", "failed"}]
      /\ DOMAIN proposal' = TxIds
      /\ phase'[h] = "open"
  BY <1>1, SubmitKeepsCalled
<1>4. Typed'
  BY <1>1, <1>2, <1>3 DEF WorkInv, Typed
<1>5. InOrder'
  BY <1>1, <1>3 DEF WorkInv, Typed, InOrder, Submit
<1>6. Informed'
  BY <1>1, <1>2 DEF WorkInv, Typed, Informed
<1> QED
  BY <1>3, <1>4, <1>5, <1>6 DEF WorkInv

LEMMA DecidesKeepsWork ==
    ASSUME WorkInv, NEW h \in Handlers, AdapterDecides(h)
    PROVE  WorkInv'
<1>1. h \in AdapterHandlers /\ h \in Decisions /\ job[h] = "sent"
  BY DEF AdapterDecides, AdapterHandlers
<1>2. form[h].org \in Orgs
  BY <1>1, FormsAssumption DEF WorkInv, InOrder, Informed
<1>3. \E input : Submit(h, form[h].org, "AuthorizationDecision", input)
  BY DEF AdapterDecides
<1> QED
  BY <1>1, <1>2, <1>3, RunKeepsWork DEF AdapterDecides

LEMMA DisclosesKeepsWork ==
    ASSUME WorkInv, NEW h \in Handlers, AdapterDiscloses(h)
    PROVE  WorkInv'
<1>1. h \in AdapterHandlers /\ job[h] = "sent"
  BY DEF AdapterDiscloses, AdapterHandlers
<1>2. request[h].input.providerOrg \in Orgs
  BY <1>1 DEF WorkInv, Informed, AccessRequest, RecordOf, AccessInput
<1>3. \E input :
         Submit(h, request[h].input.providerOrg, "DisclosureReceipt", input)
  BY DEF AdapterDiscloses
<1> QED
  BY <1>1, <1>2, <1>3, RunKeepsWork DEF AdapterDiscloses

LEMMA WorkStep == WorkInv /\ [DisclosureNext]_vars => WorkInv'
<1> SUFFICES ASSUME WorkInv, [DisclosureNext]_vars PROVE WorkInv'
  OBVIOUS
<1>1. CASE Tick
  <2>1. now' \in 0..LastInstant /\ 0..now \subseteq 0..now'
    BY <1>1, ClockAssumption, NowIsInstant DEF Tick, WorkInv, Typed
  <2>2. UNCHANGED <<state, phase, proposal, view, pc, form, request, job,
                    answer>>
    BY <1>1 DEF Tick, callVars, gatewayVars
  <2> QED
    BY <2>1, <2>2 DEF WorkInv, Typed, InOrder, Informed, Called
<1>2. ASSUME NEW o \in Orgs, Sync(o) PROVE WorkInv'
  BY <1>2 DEF Sync, WorkInv, Typed, InOrder, Informed, Called, callVars,
     gatewayVars
<1>3. ASSUME NEW h \in Decisions, PostDecision(h) PROVE WorkInv'
  BY <1>3, DecisionPosted, RefusedKeepsWork, ForwardedKeepsWork,
     HandlersAssumption DEF WorkInv, AdapterHandlers, PostDecision
<1>4. ASSUME NEW h \in Disclosures,
             PostDiscloseByQuery(h) \/ PostDiscloseByRequest(h)
      PROVE  WorkInv'
  BY <1>4, DisclosurePosted, RefusedKeepsWork, ForwardedKeepsWork,
     HandlersAssumption
     DEF WorkInv, AdapterHandlers, PostDiscloseByQuery, PostDiscloseByRequest
<1>5. ASSUME NEW h \in Handlers, AdapterFails(h) PROVE WorkInv'
  BY <1>5 DEF AdapterFails, WorkInv, Typed, InOrder, Informed, Called, callVars
<1>6. CASE UNCHANGED vars
  BY <1>6 DEF vars, WorkInv, Typed, InOrder, Informed, Called, callVars,
     gatewayVars
<1> QED
  BY <1>1, <1>2, <1>3, <1>4, <1>5, <1>6, DiscoverKeepsWork, EffectKeepsWork,
     VerdictKeepsWork, PostAccessKeepsWork, AnswerKeepsWork, DecidesKeepsWork,
     DisclosesKeepsWork
     DEF DisclosureNext

LEMMA WorkInvariance == DisclosureSpec => []WorkInv
<1>1. DisclosureInit => WorkInv
  <2> SUFFICES ASSUME DisclosureInit PROVE WorkInv
    OBVIOUS
  <2>1. Typed
    BY ClockAssumption
       DEF DisclosureInit, CallsInit, Init, Typed, Statuses
  <2>2. InOrder /\ Informed /\ Called
    BY HandlersAssumption
       DEF DisclosureInit, CallsInit, InOrder, Informed, Called
  <2> QED
    BY <2>1, <2>2 DEF WorkInv
<1> QED
  BY <1>1, WorkStep, PTL DEF DisclosureSpec

(* The whole workflow changes the ledger by chaincode transactions only.   *)
THEOREM DisclosureIsTransactions == DisclosureSpec => OnlyTransactions
<1>1. DisclosureInit => Init
  BY DEF DisclosureInit, CallsInit
<1>2. WorkInv /\ [DisclosureNext]_vars => [Next]_state
  <2> SUFFICES ASSUME WorkInv, DisclosureNext, state' # state PROVE Next
    BY DEF vars, callVars
  <2>1. CASE Discover
    <3>1. PICK s \in Submissions, t \in TxIds \ Handlers :
             /\ Accepted(state, s.msp, RecordFor(s, t, now))
             /\ state' = PutState(state, RecordFor(s, t, now))
      BY <2>1 DEF Discover
    <3>2. s.msp \in Orgs /\ RecordFor(s, t, now) \in LedgerRecord
      BY SubmissionsAssumption, NowIsInstant DEF WorkInv
    <3> QED
      BY <3>1, <3>2, AcceptedIsTransaction
  <2>2. ASSUME NEW h \in Handlers, CallTakesEffect(h) PROVE Next
    BY <2>2, AcceptedIsTransaction
       DEF CallTakesEffect, TakeEffect, WorkInv, Called
  <2>3. ASSUME NEW h \in Handlers, GatewayStep(h) PROVE FALSE
    BY <2>3 DEF GatewayStep, AccessAnswers, AdapterAnswers, AdapterTimesOut,
       Answer, callVars
  <2>4. ASSUME NEW h \in RequestIds, PostAccess(h) PROVE FALSE
    BY <2>4 DEF PostAccess, Answer, Submit, callVars
  <2>5. ASSUME NEW h \in Decisions, PostDecision(h) PROVE FALSE
    BY <2>5 DEF PostDecision, Answer, Forward, callVars
  <2>6. ASSUME NEW h \in Disclosures,
               PostDiscloseByQuery(h) \/ PostDiscloseByRequest(h)
        PROVE  FALSE
    BY <2>6, DisclosurePosted
       DEF Refused, Forwarded, Answer, Forward, callVars, WorkInv
  <2>7. ASSUME NEW h \in Handlers, AdapterDecides(h) \/ AdapterDiscloses(h)
        PROVE  FALSE
    BY <2>7 DEF AdapterDecides, AdapterDiscloses, Submit
  <2> QED
    BY <2>1, <2>2, <2>3, <2>4, <2>5, <2>6, <2>7
       DEF DisclosureNext, Tick, Sync, CallReturns, CallThrows, Return, Throw,
           AdapterFails, callVars
<1> QED
  BY <1>1, <1>2, WorkInvariance, PTL
     DEF DisclosureSpec, OnlyTransactions, Spec

(* So the chaincode's promises hold of whatever the services, their retries*)
(* and their lost answers leave on the ledger.                             *)
THEOREM WorkflowKeepsPromises ==
    DisclosureSpec => /\ []EveryRecordBacked
                      /\ []ChainOfCustody
                      /\ DenialIsFinal
BY DisclosureIsTransactions, EveryRecordIsBacked, CustodyHolds, DenialStands
   DEF OnlyTransactions

(* The variables keep their types, and peers and handlers know nothing     *)
(* that is not on the ledger.                                              *)
THEOREM HandlersTypeCorrect == DisclosureSpec => []HandlersTypeOK
<1>1. WorkInv => HandlersTypeOK
  BY NowIsInstant
     DEF WorkInv, Typed, Informed, Called, HandlersTypeOK, TypeOK, Statuses
<1> QED
  BY <1>1, WorkInvariance, PTL

-----------------------------------------------------------------------------
(* What the calls of the adapters say, and who is told that they worked.   *)

(* A receipt call says what the decision it was read from allows; as the   *)
(* decision is immutable, it still does whenever the call is recorded.     *)
ReceiptCalled(h) ==
    LET r == proposal[h].record
        id == request[h].input.requestId
    IN  /\ r.recordType = "DisclosureReceipt"
        /\ r.input.requestId = id
        /\ \E decision \in Get(state, DecisionKey(id)) :
              /\ decision.input.providerOrg = request[h].input.providerOrg
              /\ decision.input.decision # "DENY"
              /\ r.input.payloadHash \subseteq decision.input.approvedScopes

DecisionCalled(h) ==
    LET r == proposal[h].record
    IN  /\ r.recordType = "AuthorizationDecision"
        /\ r.input.requestId = form[h].requestId
        /\ r.input.decision = form[h].decision

Granted ==
    /\ \A h \in Disclosures :
          /\ phase[h] # "idle" => ReceiptCalled(h)
          /\ answer[h] = 200 => phase[h] = "ok"
    /\ \A h \in Decisions :
          /\ phase[h] # "idle" => DecisionCalled(h)
          /\ answer[h] = 201 => phase[h] = "ok"

LEMMA GetGrows ==
    ASSUME NEW S, NEW T, S \subseteq T, NEW k
    PROVE  Get(S, k) \subseteq Get(T, k)
BY DEF Get

LEMMA LedgerGrows == WorkInv /\ [DisclosureNext]_vars => state \subseteq state'
<1> SUFFICES ASSUME WorkInv, DisclosureNext PROVE state \subseteq state'
  BY DEF vars, callVars
<1>1. CASE Discover
  BY <1>1, PutFresh DEF Discover, Accepted
<1>2. ASSUME NEW h \in Handlers, CallTakesEffect(h) PROVE state \subseteq state'
  BY <1>2, PutFresh DEF CallTakesEffect, TakeEffect, Accepted
<1>3. ASSUME NEW h \in Handlers, GatewayStep(h) PROVE state \subseteq state'
  BY <1>3 DEF GatewayStep, AccessAnswers, AdapterAnswers, AdapterTimesOut,
     Answer, callVars
<1>4. ASSUME NEW h \in RequestIds, PostAccess(h) PROVE state \subseteq state'
  BY <1>4 DEF PostAccess, Answer, Submit, callVars
<1>5. ASSUME NEW h \in Decisions, PostDecision(h) PROVE state \subseteq state'
  BY <1>5 DEF PostDecision, Answer, Forward, callVars
<1>6. ASSUME NEW h \in Disclosures,
             PostDiscloseByQuery(h) \/ PostDiscloseByRequest(h)
      PROVE  state \subseteq state'
  BY <1>6, DisclosurePosted
     DEF Refused, Forwarded, Answer, Forward, callVars, WorkInv
<1>7. ASSUME NEW h \in Handlers, AdapterDecides(h) \/ AdapterDiscloses(h)
      PROVE  state \subseteq state'
  BY <1>7 DEF AdapterDecides, AdapterDiscloses, Submit
<1> QED
  BY <1>1, <1>2, <1>3, <1>4, <1>5, <1>6, <1>7
     DEF DisclosureNext, Tick, Sync, CallReturns, CallThrows, Return, Throw,
         AdapterFails, callVars

(* As long as a handler's own call, request and form stay, so does what is *)
(* known of it.                                                            *)
LEMMA CalledStays ==
    ASSUME NEW h \in Handlers, state \subseteq state',
           proposal'[h] = proposal[h], request'[h] = request[h],
           form'[h] = form[h]
    PROVE  /\ ReceiptCalled(h) => ReceiptCalled(h)'
           /\ DecisionCalled(h) => DecisionCalled(h)'
BY GetGrows DEF ReceiptCalled, DecisionCalled

(* A step that leaves every handler that has called as it is.              *)
LEMMA FrameKeepsGranted ==
    ASSUME WorkInv, Granted, state \subseteq state',
           \A h \in AdapterHandlers :
              /\ phase'[h] # "idle" => phase[h] # "idle"
              /\ phase[h] # "idle" =>
                    /\ proposal'[h] = proposal[h]
                    /\ request'[h] = request[h]
                    /\ form'[h] = form[h]
              /\ phase[h] = "ok" => phase'[h] = "ok"
              /\ h \in Disclosures /\ answer'[h] = 200 =>
                    answer[h] = 200 \/ phase[h] = "ok"
              /\ h \in Decisions /\ answer'[h] = 201 =>
                    answer[h] = 201 \/ phase[h] = "ok"
    PROVE  Granted'
<1>1. ASSUME NEW h \in Disclosures
      PROVE  (phase'[h] # "idle" => ReceiptCalled(h)')
             /\ (answer'[h] = 200 => phase'[h] = "ok")
  BY <1>1, CalledStays DEF Granted, AdapterHandlers, Handlers
<1>2. ASSUME NEW h \in Decisions
      PROVE  (phase'[h] # "idle" => DecisionCalled(h)')
             /\ (answer'[h] = 201 => phase'[h] = "ok")
  BY <1>2, CalledStays DEF Granted, AdapterHandlers, Handlers
<1> QED
  BY <1>1, <1>2 DEF Granted

(* An adapter run that makes its call.                                     *)
LEMMA CallKeepsGranted ==
    ASSUME WorkInv, Granted, NEW x \in AdapterHandlers, job[x] = "sent",
           NEW msp, NEW type, NEW input, Submit(x, msp, type, input),
           UNCHANGED <<form, request, answer>>,
           x \in Disclosures => ReceiptCalled(x)',
           x \in Decisions => DecisionCalled(x)'
    PROVE  Granted'
<1>1. x \in Handlers /\ x \in TxIds /\ phase[x] = "idle"
  BY HandlersAssumption DEF Handlers, AdapterHandlers, WorkInv, InOrder
<1>2. ~(x \in Disclosures /\ answer[x] = 200)
      /\ ~(x \in Decisions /\ answer[x] = 201)
  BY <1>1 DEF Granted
<1>3. ASSUME NEW h \in AdapterHandlers, h # x
      PROVE  phase'[h] = phase[h] /\ proposal'[h] = proposal[h] /\ h \in Handlers
  BY <1>1, <1>3 DEF Submit, WorkInv, Typed, AdapterHandlers, Handlers
<1>4. UNCHANGED state
  BY DEF Submit
<1>5. ASSUME NEW h \in Disclosures
      PROVE  (phase'[h] # "idle" => ReceiptCalled(h)')
             /\ (answer'[h] = 200 => phase'[h] = "ok")
  <2>1. CASE h = x
    BY <1>2, <2>1
  <2>2. CASE h # x
    BY <1>3, <1>4, <2>2, CalledStays DEF Granted, AdapterHandlers
  <2> QED
    BY <2>1, <2>2
<1>6. ASSUME NEW h \in Decisions
      PROVE  (phase'[h] # "idle" => DecisionCalled(h)')
             /\ (answer'[h] = 201 => phase'[h] = "ok")
  <2>1. CASE h = x
    BY <1>2, <2>1
  <2>2. CASE h # x
    BY <1>3, <1>4, <2>2, CalledStays DEF Granted, AdapterHandlers
  <2> QED
    BY <2>1, <2>2
<1> QED
  BY <1>5, <1>6 DEF Granted

LEMMA DecidesKeepsGranted ==
    ASSUME WorkInv, Granted, NEW h \in Handlers, AdapterDecides(h)
    PROVE  Granted'
<1>1. /\ h \in AdapterHandlers
      /\ h \in Decisions
      /\ h \notin Disclosures
      /\ h \in TxIds
      /\ job[h] = "sent"
      /\ UNCHANGED <<form, request, answer>>
  BY HandlersAssumption DEF AdapterDecides, AdapterHandlers
<1>2. PICK access :
         Submit(h, form[h].org, "AuthorizationDecision",
             [requestId |-> form[h].requestId, providerOrg |-> form[h].org,
              decision |-> form[h].decision,
              approvedScopes |-> ApprovedScopes(form[h], access),
              expiresAt |-> now + Lifetime])
  BY DEF AdapterDecides
<1>3. DecisionCalled(h)'
  BY <1>1, <1>2 DEF Submit, DecisionCalled, WorkInv, Typed
<1> QED
  BY <1>1, <1>2, <1>3, CallKeepsGranted

LEMMA DisclosesKeepsGranted ==
    ASSUME WorkInv, Granted, NEW h \in Handlers, AdapterDiscloses(h)
    PROVE  Granted'
<1> DEFINE id == request[h].input.requestId
           p == request[h].input.providerOrg
<1>1. /\ h \in AdapterHandlers
      /\ h \in Disclosures
      /\ h \notin Decisions
      /\ h \in TxIds
      /\ job[h] = "sent"
      /\ UNCHANGED <<form, request, answer>>
  BY HandlersAssumption DEF AdapterDiscloses, AdapterHandlers
<1>2. PICK access \in Get(view[p], AccessKey(id)),
           decision \in Get(view[p], DecisionKey(id)) :
         /\ decision.input.providerOrg = p
         /\ decision.input.decision # "DENY"
         /\ Submit(h, p, "DisclosureReceipt",
                [requestId |-> id, providerOrg |-> p,
                 requesterOrg |-> access.input.requesterOrg,
                 payloadHash |-> decision.input.approvedScopes \cap Fields[p]])
  BY DEF AdapterDiscloses
<1>3. p \in Orgs
  BY <1>1 DEF WorkInv, Informed, AccessRequest, RecordOf, AccessInput
<1>4. decision \in Get(state, DecisionKey(id))
  BY <1>3 DEF WorkInv, Typed, Get
<1>5. ReceiptCalled(h)'
  <2>1. PICK stamp :
           proposal' = [proposal EXCEPT ![h] =
              [msp |-> p,
               record |-> [recordType |-> "DisclosureReceipt",
                           input |-> [requestId |-> id, providerOrg |-> p,
                                      requesterOrg |-> access.input.requesterOrg,
                                      payloadHash |->
                                          decision.input.approvedScopes
                                              \cap Fields[p]],
                           txId |-> h, ledgerTimestamp |-> stamp]]]
    BY <1>2 DEF Submit
  <2>2. /\ proposal'[h].record.recordType = "DisclosureReceipt"
        /\ proposal'[h].record.input.requestId = id
        /\ proposal'[h].record.input.payloadHash
              = decision.input.approvedScopes \cap Fields[p]
    BY <1>1, <2>1 DEF WorkInv, Typed
  <2>3. request' = request /\ state' = state
    BY <1>1, <1>2 DEF Submit
  <2> QED
    BY <1>2, <1>4, <2>2, <2>3 DEF ReceiptCalled
<1> QED
  BY <1>1, <1>2, <1>5, CallKeepsGranted

LEMMA PostedKeepsGranted ==
    ASSUME WorkInv, Granted, NEW x \in AdapterHandlers, pc[x] = "idle", NEW f,
           Refused(x, f) \/ Forwarded(x, f)
    PROVE  Granted'
<1>1. x \in Handlers /\ phase[x] = "idle"
  BY DEF AdapterHandlers, Handlers, WorkInv, InOrder
<1>2. UNCHANGED <<state, phase, proposal>>
  BY DEF Refused, Forwarded, Answer, Forward, callVars
<1>3. ASSUME NEW h \in AdapterHandlers, h # x
      PROVE  /\ request'[h] = request[h]
             /\ form'[h] = form[h]
             /\ answer'[h] = answer[h]
  BY <1>3 DEF Refused, Forwarded, Answer, Forward, WorkInv, Typed,
     AdapterHandlers, Handlers
<1>4. answer'[x] \in {200, 201} => answer'[x] = answer[x]
  BY <1>1 DEF Refused, Forwarded, Answer, Forward, WorkInv, Typed
<1> QED
  BY <1>1, <1>2, <1>3, <1>4, FrameKeepsGranted

LEMMA AnswerKeepsGranted ==
    ASSUME WorkInv, Granted, NEW x \in Handlers, GatewayStep(x)
    PROVE  Granted'
<1>1. PICK status \in Statuses :
         /\ Answer(x, status)
         /\ status = 200 => phase[x] = "ok"
         /\ status = 201 => phase[x] = "ok"
  BY DEF GatewayStep, AccessAnswers, AdapterAnswers, AdapterTimesOut, Statuses
<1>2. UNCHANGED <<state, phase, proposal, request, form>>
  BY <1>1 DEF GatewayStep, AccessAnswers, AdapterAnswers, AdapterTimesOut,
     Answer, callVars
<1>3. ASSUME NEW h \in AdapterHandlers
      PROVE  answer'[h] = answer[h] \/ (h = x /\ answer'[h] = status)
  BY <1>1 DEF Answer, WorkInv, Typed, AdapterHandlers, Handlers
<1> QED
  BY <1>1, <1>2, <1>3, FrameKeepsGranted

LEMMA VerdictKeepsGranted ==
    ASSUME WorkInv, Granted, NEW x \in Handlers, CallReturns(x) \/ CallThrows(x)
    PROVE  Granted'
<1>1. PICK verdict \in {"ok", "failed"} :
         phase[x] = "open" /\ phase' = [phase EXCEPT ![x] = verdict]
  BY DEF CallReturns, CallThrows, Return, Throw
<1>2. UNCHANGED <<state, proposal, request, form, answer>>
  BY DEF CallReturns, CallThrows, Return, Throw, gatewayVars
<1>3. ASSUME NEW h \in AdapterHandlers
      PROVE  phase'[h] = phase[h] \/ (phase[h] = "open" /\ phase'[h] # "idle")
  BY <1>1, HandlersAssumption DEF WorkInv, Typed, AdapterHandlers, Handlers
<1> QED
  BY <1>2, <1>3, FrameKeepsGranted

LEMMA PostAccessKeepsGranted ==
    ASSUME WorkInv, Granted, NEW x \in RequestIds, PostAccess(x)
    PROVE  Granted'
<1>1. \A h \in AdapterHandlers : h # x /\ h \in Handlers /\ h \in TxIds
  BY HandlersAssumption DEF AdapterHandlers, Handlers
<1>2. UNCHANGED <<state, request>>
  BY DEF PostAccess, Answer, Submit, callVars
<1>3. \A h \in AdapterHandlers :
         /\ phase'[h] = phase[h]
         /\ proposal'[h] = proposal[h]
         /\ form'[h] = form[h]
         /\ answer'[h] = answer[h]
  BY <1>1 DEF PostAccess, Answer, Submit, callVars, WorkInv, Typed
<1> QED
  BY <1>2, <1>3, FrameKeepsGranted

LEMMA GrantedStep == WorkInv /\ Granted /\ [DisclosureNext]_vars => Granted'
<1> SUFFICES ASSUME WorkInv, Granted, [DisclosureNext]_vars PROVE Granted'
  OBVIOUS
<1>1. CASE UNCHANGED <<phase, proposal, request, form, answer>>
  BY <1>1, LedgerGrows, FrameKeepsGranted
<1>2. ASSUME NEW h \in Decisions, PostDecision(h) PROVE Granted'
  BY <1>2, DecisionPosted, PostedKeepsGranted
     DEF WorkInv, AdapterHandlers, PostDecision
<1>3. ASSUME NEW h \in Disclosures,
             PostDiscloseByQuery(h) \/ PostDiscloseByRequest(h)
      PROVE  Granted'
  BY <1>3, DisclosurePosted, PostedKeepsGranted
     DEF WorkInv, AdapterHandlers, PostDiscloseByQuery, PostDiscloseByRequest
<1> QED
  BY <1>1, <1>2, <1>3, DecidesKeepsGranted, DisclosesKeepsGranted,
     AnswerKeepsGranted, VerdictKeepsGranted, PostAccessKeepsGranted
     DEF DisclosureNext, Tick, Sync, Discover, CallTakesEffect, TakeEffect,
         AdapterFails, vars, callVars, gatewayVars

LEMMA GrantedInvariance == DisclosureSpec => [](WorkInv /\ Granted /\ Inv)
<1>1. DisclosureInit => Granted
  BY HandlersAssumption
     DEF DisclosureInit, CallsInit, Granted, Handlers
<1> QED
  BY <1>1, GrantedStep, WorkInvariance, DisclosureIsTransactions, Invariance,
     PTL DEF DisclosureSpec, OnlyTransactions

(* Two acknowledged calls whose records have the same type and requestId   *)
(* are one.                                                                *)
LEMMA OneRecordOneCall ==
    ASSUME WorkInv, Inv, NEW h \in Handlers, NEW k \in Handlers,
           phase[h] = "ok", proposal[k].record \in state, phase[k] # "idle",
           proposal[h].record.recordType = proposal[k].record.recordType,
           proposal[h].record.recordType
               \in {"AuthorizationDecision", "DisclosureReceipt"},
           proposal[h].record.input.requestId
               = proposal[k].record.input.requestId
    PROVE  h = k
BY DEF WorkInv, Called, Inv, IdsUnambiguous

LEMMA UnderRequestKey ==
    ASSUME NEW r \in LedgerRecord
    PROVE  /\ r.recordType = "AuthorizationDecision" =>
                 Key(r) = DecisionKey(r.input.requestId)
           /\ r.recordType = "DisclosureReceipt" =>
                 Key(r) = ReceiptKey(r.input.requestId)
           /\ \A id : Key(r) = DecisionKey(id) =>
                 /\ r.recordType = "AuthorizationDecision"
                 /\ r.input.requestId = id
BY RecordCases
   DEF Key, QueryKey, MatchKey, AccessKey, DecisionKey, ReceiptKey

(* Of racing disclose calls for a request, one is handed the payload.      *)
THEOREM DisclosureHappensOnce == DisclosureSpec => []DisclosedOnce
<1>1. WorkInv /\ Granted /\ Inv => DisclosedOnce
  BY OneRecordOneCall
     DEF Granted, ReceiptCalled, DisclosedOnce, WorkInv, Called, Handlers
<1> QED
  BY <1>1, GrantedInvariance, PTL

(* Whoever is handed a payload asked for it, was approved for all of it,   *)
(* and is named in its receipt; that the approval was still good is the    *)
(* chaincode's doing.                                                      *)
LEMMA GrantedIsApproved == WorkInv /\ Granted /\ Inv => DisclosedAsApproved
<1> SUFFICES ASSUME WorkInv, Granted, Inv, NEW h \in Disclosures,
                    answer[h] = 200
             PROVE  \E decision \in
                            Get(state, DecisionKey(request[h].input.requestId)),
                       receipt \in
                            Get(state, ReceiptKey(request[h].input.requestId)) :
                       /\ request[h].input.requesterOrg = form[h].org
                       /\ decision.input.providerOrg
                              = request[h].input.providerOrg
                       /\ decision.input.decision # "DENY"
                       /\ Payload(h) \subseteq decision.input.approvedScopes
                       /\ receipt = proposal[h].record
                       /\ receipt.input.payloadHash = Payload(h)
                       /\ receipt.ledgerTimestamp < decision.input.expiresAt
  BY DEF DisclosedAsApproved
<1>1. h \in Handlers /\ phase[h] = "ok" /\ ReceiptCalled(h)
  BY DEF Granted, Handlers
<1>2. proposal[h].record \in state /\ proposal[h].record \in LedgerRecord
  BY <1>1 DEF WorkInv, Called, Typed
<1>3. proposal[h].record \in Get(state, ReceiptKey(request[h].input.requestId))
  BY <1>1, <1>2, UnderRequestKey DEF ReceiptCalled, Get
<1>4. job[h] = "submitting"
  BY <1>1 DEF WorkInv, InOrder, AdapterHandlers
<1>5. request[h].input.requesterOrg = form[h].org
  BY <1>1, <1>4 DEF WorkInv, Informed
<1>6. PICK decision \in
              Get(state, DecisionKey(request[h].input.requestId)) :
         /\ decision.input.providerOrg = request[h].input.providerOrg
         /\ decision.input.decision # "DENY"
         /\ Payload(h) \subseteq decision.input.approvedScopes
  BY <1>1 DEF ReceiptCalled, Payload
<1>7. proposal[h].record.ledgerTimestamp < decision.input.expiresAt
  <2>1. PICK d \in state :
           /\ d.recordType = "AuthorizationDecision"
           /\ d.input.requestId = request[h].input.requestId
           /\ proposal[h].record.ledgerTimestamp < d.input.expiresAt
    BY <1>1, <1>2
       DEF ReceiptCalled, Inv, EveryRecordBacked, ReceiptBacked
  <2>2. /\ decision \in state
        /\ decision.recordType = "AuthorizationDecision"
        /\ decision.input.requestId = request[h].input.requestId
    BY <1>6, UnderRequestKey DEF Get, WorkInv, Typed
  <2> QED
    BY <2>1, <2>2 DEF Inv, IdsUnambiguous
<1> QED
  BY <1>3, <1>5, <1>6, <1>7 DEF Payload

THEOREM DisclosuresAreApproved == DisclosureSpec => []DisclosedAsApproved
BY GrantedIsApproved, GrantedInvariance, PTL

(* The decision an officer was told of is the decision; a denial ends it.  *)
LEMMA GrantedDecisionStands ==
    WorkInv /\ Granted /\ Inv => AcknowledgedDecisionStands
<1> SUFFICES ASSUME WorkInv, Granted, Inv, NEW h \in Decisions,
                    answer[h] = 201
             PROVE  /\ \A d \in Get(state, DecisionKey(form[h].requestId)) :
                          d = proposal[h].record
                    /\ form[h].decision = "DENY" =>
                          \A k \in Disclosures : answer[k] = 200 =>
                              request[k].input.requestId # form[h].requestId
  BY DEF AcknowledgedDecisionStands
<1>1. h \in Handlers /\ phase[h] = "ok" /\ DecisionCalled(h)
  BY DEF Granted, Handlers
<1>2. proposal[h].record \in state
  BY <1>1 DEF WorkInv, Called
<1>3. ASSUME NEW d \in Get(state, DecisionKey(form[h].requestId))
      PROVE  d = proposal[h].record
  <2>1. d \in state /\ d \in LedgerRecord
    BY DEF Get, WorkInv, Typed
  <2>2. /\ d.recordType = "AuthorizationDecision"
        /\ d.input.requestId = form[h].requestId
    BY <2>1, UnderRequestKey DEF Get
  <2> QED
    BY <1>1, <1>2, <2>1, <2>2 DEF DecisionCalled, Inv, IdsUnambiguous
<1>4. ASSUME form[h].decision = "DENY", NEW k \in Disclosures, answer[k] = 200,
             request[k].input.requestId = form[h].requestId
      PROVE  FALSE
  <2>1. PICK d \in Get(state, DecisionKey(form[h].requestId)) :
           d.input.decision # "DENY"
    BY <1>4 DEF Granted, ReceiptCalled
  <2> QED
    BY <1>1, <1>3, <1>4, <2>1 DEF DecisionCalled
<1> QED
  BY <1>3, <1>4

THEOREM DecisionsStand == DisclosureSpec => []AcknowledgedDecisionStands
BY GrantedDecisionStands, GrantedInvariance, PTL
=============================================================================
