----------------------------- MODULE Discovery -----------------------------
(***************************************************************************)
(* Protected discovery: the gateway's POST /queries and POST               *)
(* /queries/:id/attestations/retry handlers, the /internal/match handlers  *)
(* of the providers' adapters, and the user's query counter.  Handlers of  *)
(* one service interleave at every await; a handler that has given up      *)
(* leaves its call running in the other service.                           *)
(*                                                                         *)
(* The ledger is used through the interface of LedgerCalls: a submit takes *)
(* effect atomically, at most once, and an error says nothing about it.    *)
(* A query is named after the handler that creates it (safeRandomId).      *)
(***************************************************************************)
EXTENDS Integers, Sequences, FiniteSets

CONSTANTS
    Orgs, Users, OrgOf,  \* OrgOf[u]: the agency of user u
    Configured,          \* the providers of the deployment's mode
    Budget,              \* each user's query_budget
    Tokens,              \* protected match tokens
    Held,                \* Held[p]: tokens in p's protected_records
    Requests,            \* handlers of POST /queries
    Retries,             \* handlers of the retry route
    QueryForms,          \* bodies: user, caseError, token, targets
    RetryForms,          \* bodies: user, query, token, targets
    None                 \* no token, no result yet, no body

Handlers == Requests \cup Retries

ASSUME FormsAssumption ==
    /\ IsFiniteSet(Requests)
    /\ Requests \cap Retries = {}
    /\ Budget \in Nat
    /\ None \notin Tokens \cup {"MATCH", "NO_MATCH"}
    /\ OrgOf \in [Users -> Orgs]
    /\ Configured \subseteq Orgs
    /\ Held \in [Orgs -> SUBSET Tokens]
    /\ QueryForms \subseteq [user : Users, caseError : {0, 403, 404, 409},
                             token : Tokens, targets : Seq(Orgs) \ {<<>>}]
    /\ RetryForms \subseteq [user : Users, query : Requests, token : Tokens,
                             targets : Seq(Orgs) \ {<<>>}]

VARIABLES
    pc,           \* where each handler is
    form,         \* what each handler was asked
    known,        \* a retry's snapshot of the providers that had attested
    results,      \* each handler's provider results, in call order
    answer,       \* each handler's HTTP status, 0 before it answers
    queryCount,   \* users.query_count in the gateway database
    forgiven,     \* history: the queries posted before the last demo reset
    queries,      \* QueryRequests on the ledger
    attestations, \* MatchAttestations on the ledger, with the call they are by
    job,          \* /internal/match runs: one per handler and call made
    queryMatch    \* query_matches of each adapter: the token mapped, if any

vars == <<pc, form, known, results, answer, queryCount, forgiven, queries,
          attestations, job, queryMatch>>

(* A handler's input and findings, the ledger, the adapters.               *)
Work == <<form, known, results>>
Chain == <<queries, attestations>>
Adapters == <<job, queryMatch>>

Unsent == [pc |-> "unsent", result |-> None]

(* The calls a handler can make: one per element of its provider list.     *)
Positions == UNION {DOMAIN f.targets : f \in QueryForms \cup RetryForms}

QueryOf(h) == IF h \in Requests THEN h ELSE form[h].query

Target(h, i) == form[h].targets[i]

Matched(p, token) == IF token \in Held[p] THEN "MATCH" ELSE "NO_MATCH"

Init ==
    /\ pc = [h \in Handlers |-> "idle"]
    /\ form = [h \in Handlers |-> None]
    /\ known = [h \in Handlers |-> {}]
    /\ results = [h \in Handlers |-> <<>>]
    /\ answer = [h \in Handlers |-> 0]
    /\ queryCount = [u \in Users |-> 0]
    /\ forgiven = {}
    /\ queries = {}
    /\ attestations = {}
    /\ job = [h \in Handlers |-> [i \in Positions |-> Unsent]]
    /\ queryMatch = [p \in Orgs |-> [q \in Requests |-> None]]

Answer(h, status) ==
    /\ answer' = [answer EXCEPT ![h] = status]
    /\ pc' = [pc EXCEPT ![h] = "done"]

-----------------------------------------------------------------------------
(* POST /queries.                                                          *)

(* The handler's checks in their order, from the case's on; 0 is none.     *)
BadTargets(f) ==
    {i \in DOMAIN f.targets : f.targets[i] \notin Configured \ {OrgOf[f.user]}}

Refusal(f) ==
    IF f.caseError # 0 THEN f.caseError
    ELSE IF queryCount[f.user] >= Budget THEN 429
    ELSE IF BadTargets(f) = {} THEN 0
    ELSE LET i == CHOOSE j \in BadTargets(f) : \A k \in BadTargets(f) : j <= k
         IN  IF f.targets[i] = OrgOf[f.user] THEN 400 ELSE 422

(* The checks run in one synchronous stretch, up to the await of submit.   *)
PostQuery(h) ==
    /\ pc[h] = "idle"
    /\ \E f \in QueryForms :
          /\ form' = [form EXCEPT ![h] = f]
          /\ IF Refusal(f) # 0
             THEN Answer(h, Refusal(f))
             ELSE /\ pc' = [pc EXCEPT ![h] = "submitting"]
                  /\ UNCHANGED answer
    /\ UNCHANGED <<known, results, queryCount, forgiven, Chain, Adapters>>

(* CreateQueryRequest takes effect, for a caller that waits or has given up*)
QueryCommits(h) ==
    /\ \/ pc[h] \in {"submitting", "aborted"}
       \/ answer[h] = 503
    /\ h \notin queries
    /\ queries' = queries \cup {h}
    /\ UNCHANGED <<pc, Work, answer, queryCount, forgiven, attestations,
                   Adapters>>

(* Variant: the counter advances before the submit is known to have worked.*)
QuerySubmittedUnconfirmed(h) ==
    /\ pc[h] = "submitting"
    /\ queryCount' = [queryCount EXCEPT ![form[h].user] = @ + 1]
    /\ pc' = [pc EXCEPT ![h] = "calling"]
    /\ UNCHANGED <<Work, answer, forgiven, Chain, Adapters>>

(* Variant: every provider asked is charged for.                           *)
QuerySubmittedPerTarget(h) ==
    /\ pc[h] = "submitting"
    /\ h \in queries
    /\ queryCount' =
          [queryCount EXCEPT ![form[h].user] = @ + Len(form[h].targets)]
    /\ pc' = [pc EXCEPT ![h] = "calling"]
    /\ UNCHANGED <<Work, answer, forgiven, Chain, Adapters>>

(* Variant: an error of the database while counting is not passed on.      *)
QuerySubmittedMayNotCount(h) ==
    /\ pc[h] = "submitting"
    /\ h \in queries
    /\ \/ queryCount' = [queryCount EXCEPT ![form[h].user] = @ + 1]
       \/ UNCHANGED queryCount
    /\ pc' = [pc EXCEPT ![h] = "calling"]
    /\ UNCHANGED <<Work, answer, forgiven, Chain, Adapters>>

(* One UPDATE, not a value that was read before.                           *)
IncrementQueryCount(u) == queryCount' = [queryCount EXCEPT ![u] = @ + 1]

(* submit returned: incrementQueryCount, then the first provider.          *)
QuerySubmitted(h) ==
    /\ pc[h] = "submitting"
    /\ h \in queries
    /\ IncrementQueryCount(form[h].user)
    /\ pc' = [pc EXCEPT ![h] = "calling"]
    /\ UNCHANGED <<Work, answer, forgiven, Chain, Adapters>>

(* submit threw, by its deadline at the latest.                            *)
QuerySubmitFails(h) ==
    /\ pc[h] = "submitting"
    /\ Answer(h, 503)
    /\ UNCHANGED <<Work, queryCount, forgiven, Chain, Adapters>>

-----------------------------------------------------------------------------
(* POST /queries/:queryId/attestations/retry.                              *)

Attested(q) == {a.provider : a \in {b \in attestations : b.query = q}}

(* The workflow is read once, before the loop over the providers, from a   *)
(* peer that may lag behind.  An error of evaluate, "no such query"        *)
(* included, is not one the error handler knows: 500.                      *)
PostRetry(h) ==
    /\ pc[h] = "idle"
    /\ \E f \in RetryForms :
          /\ form' = [form EXCEPT ![h] = f]
          /\ \/ /\ f.query \in queries
                /\ OrgOf[form[f.query].user] = OrgOf[f.user]
                /\ \E seen \in SUBSET Attested(f.query) :
                      known' = [known EXCEPT ![h] = seen]
                /\ pc' = [pc EXCEPT ![h] = "calling"]
                /\ UNCHANGED answer
             \/ /\ f.query \in queries
                /\ OrgOf[form[f.query].user] # OrgOf[f.user]
                /\ Answer(h, 404)
                /\ UNCHANGED known
             \/ Answer(h, 500) /\ UNCHANGED known
    /\ UNCHANGED <<results, queryCount, forgiven, Chain, Adapters>>

(* The targetOrganizations of query q.                                     *)
Targets(q) == {form[q].targets[i] : i \in DOMAIN form[q].targets}

(* Variant: the query's targets are not looked at.                         *)
RetryRefusalUntargeted(h, p) ==
    IF h \in Requests THEN 0
    ELSE IF p \notin Configured THEN 422
    ELSE IF p \in known[h] THEN 409
    ELSE 0

(* A retry throws on a provider that is not configured, was not targeted,  *)
(* or is known to have attested: the earlier results are not returned.     *)
RetryRefusal(h, p) ==
    IF h \in Requests THEN 0
    ELSE IF p \notin Configured THEN 422
    ELSE IF p \notin Targets(form[h].query) THEN 400
    ELSE IF p \in known[h] THEN 409
    ELSE 0

-----------------------------------------------------------------------------
(* The loop over the providers, common to both handlers.                   *)

NextPosition(h) == Len(results[h]) + 1

CallAdapter(h) ==
    /\ pc[h] = "calling"
    /\ NextPosition(h) \in DOMAIN form[h].targets
    /\ LET i == NextPosition(h)
           refusal == RetryRefusal(h, Target(h, i))
       IN  IF refusal # 0
           THEN Answer(h, refusal) /\ UNCHANGED job
           ELSE /\ job' = [job EXCEPT ![h][i].pc = "sent"]
                /\ pc' = [pc EXCEPT ![h] = "waiting"]
                /\ UNCHANGED answer
    /\ UNCHANGED <<Work, queryCount, forgiven, Chain, queryMatch>>

(* Variant: the gateway takes an error answer for an attestation.          *)
AdapterAnswersUnchecked(h) ==
    LET i == NextPosition(h) IN
    /\ pc[h] = "waiting"
    /\ job[h][i].pc \in {"ok", "error"}
    /\ results' = [results EXCEPT ![h] = Append(@, job[h][i].result)]
    /\ pc' = [pc EXCEPT ![h] = "calling"]
    /\ UNCHANGED <<form, known, answer, queryCount, forgiven, Chain, Adapters>>

AdapterAnswers(h) ==
    LET i == NextPosition(h) IN
    /\ pc[h] = "waiting"
    /\ job[h][i].pc \in {"ok", "error"}
    /\ results' = [results EXCEPT ![h] =
           Append(@, IF job[h][i].pc = "ok" THEN job[h][i].result ELSE "FAILED")]
    /\ pc' = [pc EXCEPT ![h] = "calling"]
    /\ UNCHANGED <<form, known, answer, queryCount, forgiven, Chain, Adapters>>

(* Variant: no timeout, only a broken connection ends the wait.            *)
AdapterTimesOutOnError(h) ==
    /\ pc[h] = "waiting"
    /\ job[h][NextPosition(h)].pc = "error"
    /\ results' = [results EXCEPT ![h] = Append(@, "FAILED")]
    /\ pc' = [pc EXCEPT ![h] = "calling"]
    /\ UNCHANGED <<form, known, answer, queryCount, forgiven, Chain, Adapters>>

(* AbortSignal.timeout(20_000), or the connection breaks.                  *)
AdapterTimesOut(h) ==
    /\ pc[h] = "waiting"
    /\ results' = [results EXCEPT ![h] = Append(@, "FAILED")]
    /\ pc' = [pc EXCEPT ![h] = "calling"]
    /\ UNCHANGED <<form, known, answer, queryCount, forgiven, Chain, Adapters>>

Partial(h) == \E i \in DOMAIN results[h] : results[h][i] = "FAILED"

Respond(h) ==
    /\ pc[h] = "calling"
    /\ NextPosition(h) \notin DOMAIN form[h].targets
    /\ Answer(h, IF Partial(h) THEN 207 ELSE 201)
    /\ UNCHANGED <<Work, queryCount, forgiven, Chain, Adapters>>

-----------------------------------------------------------------------------
(* /internal/match at the adapter of call i of handler h.                  *)

(* Variant: the mapping is left to be written after the submit returns.    *)
MatchUnmapped(h, i) ==
    /\ job[h][i].pc = "sent"
    /\ job' = [job EXCEPT ![h][i] =
                  [pc |-> "submitting",
                   result |-> Matched(Target(h, i), form[h].token)]]
    /\ UNCHANGED <<pc, Work, answer, queryCount, forgiven, Chain, queryMatch>>

(* Look the token up, INSERT OR IGNORE the mapping, begin the submit: one  *)
(* synchronous stretch.                                                    *)
Match(h, i) ==
    LET p == Target(h, i)
        q == QueryOf(h)
        token == form[h].token
    IN
    /\ job[h][i].pc = "sent"
    /\ queryMatch' = [queryMatch EXCEPT
           ![p][q] = IF @ = None THEN token ELSE @]
    /\ job' = [job EXCEPT ![h][i] =
                  [pc |-> "submitting", result |-> Matched(p, token)]]
    /\ UNCHANGED <<pc, Work, answer, queryCount, forgiven, Chain>>

(* Variant: the chaincode lets a provider attest again.                    *)
AttestCommitsAgain(h, i) ==
    LET p == Target(h, i)
        q == QueryOf(h)
    IN
    /\ job[h][i].pc \in {"submitting", "error"}
    /\ job[h][i].result # None
    /\ q \in queries
    /\ attestations' = attestations \cup
           {[query |-> q, provider |-> p, result |-> job[h][i].result,
             by |-> <<h, i>>]}
    /\ UNCHANGED <<pc, Work, answer, queryCount, forgiven, queries, Adapters>>

(* CreateMatchAttestation takes effect: the query is there, and the        *)
(* provider has not attested yet.  That it was targeted, which the         *)
(* chaincode checks too, follows (ImplementsLedger).                       *)
AttestCommits(h, i) ==
    LET p == Target(h, i)
        q == QueryOf(h)
    IN
    /\ job[h][i].pc \in {"submitting", "error"}
    /\ job[h][i].result # None
    /\ q \in queries
    /\ p \notin Attested(q)
    /\ attestations' = attestations \cup
           {[query |-> q, provider |-> p, result |-> job[h][i].result,
             by |-> <<h, i>>]}
    /\ UNCHANGED <<pc, Work, answer, queryCount, forgiven, queries, Adapters>>

AttestReturns(h, i) ==
    /\ job[h][i].pc = "submitting"
    /\ \E a \in attestations : a.by = <<h, i>>
    /\ job' = [job EXCEPT ![h][i].pc = "ok"]
    /\ UNCHANGED <<pc, Work, answer, queryCount, forgiven, Chain, queryMatch>>

(* The request is not authenticated, the submit throws, or the adapter     *)
(* restarts and the run is lost.                                           *)
MatchFails(h, i) ==
    /\ job[h][i].pc \in {"sent", "submitting"}
    /\ job' = [job EXCEPT ![h][i].pc = "error"]
    /\ UNCHANGED <<pc, Work, answer, queryCount, forgiven, Chain, queryMatch>>

-----------------------------------------------------------------------------
(* The gateway restarts: its handlers are gone, its database stays.        *)
GatewayRestarts ==
    /\ \E h \in Handlers : pc[h] \in {"submitting", "calling", "waiting"}
    /\ pc' = [h \in Handlers |->
                 IF pc[h] \in {"submitting", "calling", "waiting"}
                 THEN "aborted" ELSE pc[h]]
    /\ UNCHANGED <<Work, answer, queryCount, forgiven, Chain, Adapters>>

(* POST /demo/reset zeroes every counter.                                  *)
ResetDemo ==
    /\ queryCount' = [u \in Users |-> 0]
    /\ forgiven' = {h \in Requests : pc[h] # "idle"}
    /\ UNCHANGED <<pc, Work, answer, Chain, Adapters>>

GatewayStep(h) ==
    \/ QuerySubmitted(h) \/ QuerySubmitFails(h) \/ CallAdapter(h)
    \/ AdapterAnswers(h) \/ AdapterTimesOut(h) \/ Respond(h)

Next ==
    \/ \E h \in Requests : PostQuery(h) \/ QueryCommits(h)
    \/ \E h \in Retries : PostRetry(h)
    \/ \E h \in Handlers :
          \/ GatewayStep(h)
          \/ \E i \in Positions :
                \/ Match(h, i) \/ AttestCommits(h, i)
                \/ AttestReturns(h, i) \/ MatchFails(h, i)
    \/ GatewayRestarts \/ ResetDemo

Spec == Init /\ [][Next]_vars

(* The gateway's event loop runs its handlers and its timers fire; nothing *)
(* is assumed of the adapters or of the ledger.                            *)
FairSpec == Spec /\ \A h \in Handlers : WF_vars(GatewayStep(h))

-----------------------------------------------------------------------------
(* Properties.                                                             *)

TypeOK ==
    /\ pc \in [Handlers -> {"idle", "submitting", "calling", "waiting", "done",
                            "aborted"}]
    /\ \A h \in Handlers : pc[h] # "idle" =>
          form[h] \in IF h \in Requests THEN QueryForms ELSE RetryForms
    /\ known \in [Handlers -> SUBSET Orgs]
    /\ \A h \in Handlers :
          /\ results[h] \in Seq({"MATCH", "NO_MATCH", "FAILED"})
          /\ results[h] # <<>> => Len(results[h]) <= Len(form[h].targets)
    /\ answer \in [Handlers -> {0, 201, 207, 400, 403, 404, 409, 422,
                            429, 500, 503}]
    /\ queryCount \in [Users -> 0..Cardinality(Requests)]
    /\ forgiven \subseteq Requests
    /\ queries \subseteq Requests
    /\ attestations \subseteq
          [query : Requests, provider : Orgs, result : {"MATCH", "NO_MATCH"},
           by : Handlers \X Positions]
    /\ job \in [Handlers -> [Positions ->
                  [pc : {"unsent", "sent", "submitting", "ok", "error"},
                   result : {None, "MATCH", "NO_MATCH"}]]]
    /\ queryMatch \in [Orgs -> [Requests -> Tokens \cup {None}]]

(* What the user is told is on the ledger: an attestation in an answer is  *)
(* the one this very call recorded, with this result; 201 is answered only *)
(* when there is one for every provider asked, of a recorded query.        *)
AnswersAreOnLedger ==
    \A h \in Handlers : answer[h] \in {201, 207} =>
        /\ QueryOf(h) \in queries
        /\ \A i \in DOMAIN form[h].targets :
              \/ answer[h] = 207 /\ results[h][i] = "FAILED"
              \/ [query |-> QueryOf(h), provider |-> Target(h, i),
                  result |-> results[h][i], by |-> <<h, i>>] \in attestations

(* However the first call, its late effect and the retries interleave, a   *)
(* provider attests a query once, and one handler is told of it.           *)
AttestedOnce ==
    /\ \A a, b \in attestations :
          a.query = b.query /\ a.provider = b.provider => a = b
    /\ \A h, k \in Handlers : \A i \in DOMAIN results[h], j \in DOMAIN results[k] :
          /\ QueryOf(h) = QueryOf(k)
          /\ Target(h, i) = Target(k, j)
          /\ results[h][i] # "FAILED"
          /\ results[k][j] # "FAILED"
          => h = k /\ i = j

(* The tokens that provider p has been asked about for query q.            *)
TokensAsked(q, p) ==
    {form[h].token : h \in {k \in Handlers : \E i \in Positions :
        job[k][i].pc # "unsent" /\ QueryOf(k) = q /\ Target(k, i) = p}}

(* What a provider has attested is about the identifier its own call       *)
(* brought, and what it would disclose about one it was asked about, too:  *)
(* the two are the same record unless a retry named another identifier.    *)
AttestedTokenIsMapped ==
    \A a \in attestations :
        LET attested == form[a.by[1]].token
            mapped == queryMatch[a.provider][a.query]
        IN
        /\ a.result = Matched(a.provider, attested)
        /\ {attested, mapped} \subseteq TokensAsked(a.query, a.provider)

(* A query is charged at most once, and never before it is on the ledger.  *)
OnlyRecordedQueriesCharged ==
    \A u \in Users :
        queryCount[u] <= Cardinality({q \in queries : form[q].user = u})

(* The queries of user u, posted since the last reset, whose submit has    *)
(* returned.                                                               *)
Submitted(u) ==
    {h \in Requests \ forgiven :
        /\ pc[h] \in {"calling", "waiting"} \/ answer[h] \in {201, 207}
        /\ form[h].user = u}

(* A demo reset forgives what was posted before it and nothing else: a     *)
(* query on its way then may still be charged, none posted later goes      *)
(* uncharged, however its handler and others interleave.                   *)
EverySubmissionIsCharged ==
    \A u \in Users : Cardinality(Submitted(u)) <= queryCount[u]

(* What has reached the ledger, as the records the chaincode keeps; their  *)
(* purpose, transaction and instant play no part here.                     *)
Record(type, input) ==
    [recordType |-> type, input |-> input, txId |-> "tx", ledgerTimestamp |-> 0]

QueryRecord(q) ==
    Record("QueryRequest",
           [queryId |-> q, requesterOrg |-> OrgOf[form[q].user],
            purposeCode |-> "purpose", targetOrganizations |-> Targets(q)])

MatchRecord(a) ==
    Record("MatchAttestation",
           [queryId |-> a.query, providerOrg |-> a.provider,
            result |-> a.result])

World == {QueryRecord(q) : q \in queries}
             \cup {MatchRecord(a) : a \in attestations}

Chaincode == INSTANCE Ledger WITH
    state <- World, Purposes <- {"purpose"}, Scopes <- {}, QueryIds <- Requests,
    RequestIds <- {}, PayloadHashes <- {}, Timestamps <- {0}, TxIds <- {"tx"}

(* Gateway and adapters only ever move the ledger by transactions of the   *)
(* chaincode: a provider attests once, to a query that is there, and which *)
(* targeted it, although a retry names its providers anew.  (That is       *)
(* Chaincode!Spec; a transaction is looked for where World changes only.)  *)
ImplementsLedger ==
    Chaincode!Init /\ [][World' = World \/ Chaincode!Next]_vars

(* Every POST is answered, unless the gateway restarts, even if no         *)
(* provider and no orderer ever responds.                                  *)
EveryPostAnswered ==
    \A h \in Handlers : pc[h] \in {"submitting", "calling"}
                           ~> pc[h] \in {"done", "aborted"}

(* The per-user budget is checked before a query is created                *)
(* (SECURITY_CONTROLS.md): the counter does not pass it.                   *)
BudgetHolds == \A u \in Users : queryCount[u] <= Budget
=============================================================================
