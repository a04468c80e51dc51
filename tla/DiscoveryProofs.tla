-------------------------- MODULE DiscoveryProofs --------------------------
(* For every number of queries, retries and providers: what an answer says *)
(* is on the ledger, once, and nobody is charged for a query that is not.  *)
EXTENDS Discovery, FiniteSetTheorems, TLAPS

-----------------------------------------------------------------------------
(* The inductive invariant.                                                *)

Verdicts == {"MATCH", "NO_MATCH"}

Job == [pc : {"unsent", "sent", "submitting", "ok", "error"},
        result : {None, "MATCH", "NO_MATCH"}]

Filled ==
    /\ form \in [Handlers -> QueryForms \cup RetryForms \cup {None}]
    /\ results \in [Handlers -> Seq(Verdicts \cup {"FAILED"})]

(* Before its post, a handler has no part in anything.                     *)
Fresh ==
    \A h \in Handlers : pc[h] = "idle" =>
        h \notin queries /\ results[h] = <<>> /\ answer[h] = 0

(* A handler calls for a recorded query only, and its providers in order.  *)
Calling ==
    \A h \in Handlers : pc[h] \in {"calling", "waiting"} =>
        /\ QueryOf(h) \in queries
        /\ pc[h] = "waiting" => NextPosition(h) \in DOMAIN form[h].targets

Reached ==
    \A h \in Handlers : \A i \in Positions : job[h][i].pc # "unsent" =>
        /\ pc[h] # "idle"
        /\ i \in DOMAIN form[h].targets
        /\ QueryOf(h) \in queries
        /\ \/ i <= Len(results[h])
           \/ i = NextPosition(h) /\ pc[h] \in {"waiting", "aborted", "done"}

(* The attestation that call i of handler h makes.                         *)
OfCall(h, i, result) ==
    [query |-> QueryOf(h), provider |-> Target(h, i), result |-> result,
     by |-> <<h, i>>]

Signed ==
    \A a \in attestations : \A h \in Handlers : \A i \in Positions :
        a.by = <<h, i>> =>
            /\ a = OfCall(h, i, job[h][i].result)
            /\ job[h][i].pc \in {"submitting", "ok", "error"}

Unique ==
    \A a, b \in attestations :
        a.query = b.query /\ a.provider = b.provider => a = b

(* What a run at an adapter and a handler's result stand for.              *)
Backed ==
    \A h \in Handlers :
        /\ \A i \in Positions :
              /\ job[h][i].pc = "ok" =>
                    OfCall(h, i, job[h][i].result) \in attestations
              /\ job[h][i].pc \in {"unsent", "sent"} => job[h][i].result = None
              /\ job[h][i].pc \in {"submitting", "ok"} =>
                    job[h][i].result \in Verdicts
        /\ \A i \in DOMAIN results[h] :
              results[h][i] # "FAILED" =>
                  OfCall(h, i, results[h][i]) \in attestations

Told ==
    \A h \in Handlers :
        /\ answer[h] # 0 => pc[h] = "done"
        /\ answer[h] \in {201, 207} =>
              /\ QueryOf(h) \in queries
              /\ DOMAIN results[h] = DOMAIN form[h].targets
        /\ answer[h] = 201 => ~Partial(h)

(* The queries of u whose handler has learnt that they are recorded.       *)
ChargedFor(u) ==
    {q \in queries : form[q].user = u /\ pc[q] \notin {"idle", "submitting"}}

Charged == \A u \in Users : queryCount[u] <= Cardinality(ChargedFor(u))

DiscInv ==
    /\ TypeOK /\ Filled /\ Fresh /\ Calling /\ Reached
    /\ Signed /\ Unique /\ Backed /\ Told /\ Charged

-----------------------------------------------------------------------------
(* Positions, forms and counts.                                            *)

LEMMA FormFits ==
    ASSUME DiscInv, NEW h \in Handlers, pc[h] # "idle"
    PROVE  /\ form[h].targets \in Seq(Orgs)
           /\ form[h].user \in Users
           /\ form[h].token \in Tokens
           /\ QueryOf(h) \in Requests
           /\ DOMAIN form[h].targets \subseteq Positions
           /\ Len(results[h]) \in Nat
           /\ Len(results[h]) <= Len(form[h].targets)
<1>1. form[h] \in IF h \in Requests THEN QueryForms ELSE RetryForms
  BY DEF DiscInv, TypeOK
<1>2. /\ form[h].targets \in Seq(Orgs)
      /\ form[h].user \in Users /\ form[h].token \in Tokens
      /\ h \notin Requests => form[h].query \in Requests
  BY <1>1, FormsAssumption
<1>3. DOMAIN form[h].targets \subseteq Positions
  BY <1>1 DEF Positions
<1>4. results[h] \in Seq(Verdicts \cup {"FAILED"})
  BY DEF DiscInv, Filled
<1>5. results[h] # <<>> => Len(results[h]) <= Len(form[h].targets)
  BY DEF DiscInv, TypeOK
<1> QED
  BY <1>2, <1>3, <1>4, <1>5 DEF QueryOf

LEMMA PositionsAreNumbers == Positions \subseteq Nat \ {0}
<1> SUFFICES ASSUME NEW f \in QueryForms \cup RetryForms
             PROVE  DOMAIN f.targets \subseteq Nat \ {0}
  BY DEF Positions
<1>1. f.targets \in Seq(Orgs)
  BY FormsAssumption
<1> QED
  BY <1>1

LEMMA JobsTyped ==
    ASSUME DiscInv
    PROVE  /\ job \in [Handlers -> [Positions -> Job]]
           /\ \A h \in Handlers : \A i \in Positions : job[h][i] \in Job
  BY DEF DiscInv, TypeOK, Job

(* One run changed.                                                        *)
LEMMA JobChanged ==
    ASSUME DiscInv, NEW h \in Handlers, NEW i \in Positions, NEW new \in Job,
           job' = [job EXCEPT ![h][i] = new]
    PROVE  /\ job' \in [Handlers -> [Positions -> Job]]
           /\ job'[h][i] = new
           /\ \A k \in Handlers : \A j \in Positions :
                 k # h \/ j # i => job'[k][j] = job[k][j]
  BY JobsTyped

LEMMA MoreCharged ==
    ASSUME NEW S, NEW T, S \subseteq T, IsFiniteSet(T)
    PROVE  /\ Cardinality(S) \in Nat /\ Cardinality(T) \in Nat
           /\ Cardinality(S) <= Cardinality(T)
  BY FS_Subset, FS_CardinalityType

LEMMA ChargedFinite ==
    ASSUME queries \subseteq Requests, NEW u
    PROVE  IsFiniteSet(ChargedFor(u)) /\ Cardinality(ChargedFor(u)) \in Nat
<1>1. ChargedFor(u) \subseteq Requests
  BY DEF ChargedFor
<1> QED
  BY <1>1, FormsAssumption, FS_Subset, FS_CardinalityType

-----------------------------------------------------------------------------
(* Adapters and ledger.                                                    *)

(* A run that goes on, with what it has signed and what it returns.        *)
LEMMA JobKeeps ==
    ASSUME DiscInv, NEW h \in Handlers, NEW i \in Positions, NEW new \in Job,
           job' = [job EXCEPT ![h][i] = new],
           UNCHANGED <<pc, form, known, results, answer, queryCount, forgiven,
                       queries, attestations>>,
           queryMatch' \in [Orgs -> [Requests -> Tokens \cup {None}]],
           job[h][i].pc # "unsent", new.pc \notin {"unsent", "sent"},
           (\E a \in attestations : a.by = <<h, i>>) =>
               new.result = job[h][i].result,
           new.pc = "ok" => OfCall(h, i, new.result) \in attestations,
           new.pc = "submitting" => new.result \in Verdicts
    PROVE  DiscInv'
<1>1. /\ job' \in [Handlers -> [Positions -> Job]]
      /\ job'[h][i] = new
      /\ \A k \in Handlers : \A j \in Positions :
            k # h \/ j # i => job'[k][j] = job[k][j]
  BY ONLY DiscInv, h \in Handlers, i \in Positions, new \in Job,
          job' = [job EXCEPT ![h][i] = new], JobChanged
<1>2. TypeOK'
  BY <1>1 DEF DiscInv, TypeOK, Job
<1>3. Filled' /\ Fresh' /\ Unique' /\ Charged'
  BY DEF DiscInv, Filled, Fresh, Unique, Charged, ChargedFor
<1>4. Calling' /\ Told'
  BY DEF DiscInv, Calling, Told, QueryOf, NextPosition, Partial
<1>5. Reached'
  BY <1>1 DEF DiscInv, Reached, QueryOf, NextPosition
<1>6. Signed'
  <2> SUFFICES ASSUME NEW a \in attestations,
                      NEW k \in Handlers, NEW j \in Positions,
                      a.by = <<k, j>>
               PROVE  /\ a = [query |-> QueryOf(k), provider |-> Target(k, j),
                              result |-> job'[k][j].result, by |-> <<k, j>>]
                      /\ job'[k][j].pc \in {"submitting", "ok", "error"}
    BY DEF Signed, OfCall, QueryOf, Target
  <2>1. /\ a = OfCall(k, j, job[k][j].result)
        /\ job[k][j].pc \in {"submitting", "ok", "error"}
    BY DEF DiscInv, Signed
  <2>2. CASE k = h /\ j = i
    BY <1>1, <2>1, <2>2 DEF OfCall, Job
  <2>3. CASE k # h \/ j # i
    BY <1>1, <2>1, <2>3 DEF OfCall
  <2> QED
    BY <2>2, <2>3
<1>7. Backed'
  <2> SUFFICES
        /\ \A k \in Handlers : \A j \in Positions :
              /\ job'[k][j].pc = "ok" =>
                    OfCall(k, j, job'[k][j].result) \in attestations
              /\ job'[k][j].pc \in {"unsent", "sent"} =>
                    job'[k][j].result = None
              /\ job'[k][j].pc \in {"submitting", "ok"} =>
                    job'[k][j].result \in Verdicts
        /\ \A k \in Handlers : \A j \in DOMAIN results[k] :
              results[k][j] # "FAILED" =>
                  OfCall(k, j, results[k][j]) \in attestations
    BY DEF Backed, OfCall, QueryOf, Target
  <2>1. new.pc = "ok" => new.result \in Verdicts
    <3>1. OfCall(h, i, new.result).result = new.result
      BY DEF OfCall
    <3> QED
      BY <3>1 DEF DiscInv, TypeOK, Verdicts
  <2> QED
    BY <1>1, <2>1 DEF DiscInv, Backed
<1> QED
  BY <1>2, <1>3, <1>4, <1>5, <1>6, <1>7 DEF DiscInv

LEMMA MatchKeeps ==
    ASSUME DiscInv, NEW h \in Handlers, NEW i \in Positions, Match(h, i)
    PROVE  DiscInv'
<1> DEFINE p == Target(h, i)
           q == QueryOf(h)
           new == [pc |-> "submitting", result |-> Matched(p, form[h].token)]
<1>1. /\ job[h][i].pc = "sent"
      /\ job' = [job EXCEPT ![h][i] = new]
      /\ queryMatch' = [queryMatch EXCEPT
             ![p][q] = IF @ = None THEN form[h].token ELSE @]
      /\ UNCHANGED <<pc, form, known, results, answer, queryCount, forgiven,
                     queries, attestations>>
  BY DEF Match, Work, Chain
<1>2. pc[h] # "idle" /\ i \in DOMAIN form[h].targets
  BY <1>1 DEF DiscInv, Reached
<1>3. p \in Orgs /\ q \in Requests /\ form[h].token \in Tokens
  BY <1>2, FormFits DEF Target
<1>4. queryMatch' \in [Orgs -> [Requests -> Tokens \cup {None}]]
  BY <1>1, <1>3 DEF DiscInv, TypeOK
<1>5. new \in Job /\ new.pc = "submitting" /\ new.result \in Verdicts
  BY DEF Job, Verdicts, Matched
<1>6. ~\E a \in attestations : a.by = <<h, i>>
  BY <1>1 DEF DiscInv, Signed
<1> QED
  BY <1>1, <1>4, <1>5, <1>6, JobKeeps

LEMMA ReturnsKeeps ==
    ASSUME DiscInv, NEW h \in Handlers, NEW i \in Positions,
           AttestReturns(h, i)
    PROVE  DiscInv'
<1> DEFINE new == [job[h][i] EXCEPT !.pc = "ok"]
<1>1. /\ job[h][i].pc = "submitting"
      /\ \E a \in attestations : a.by = <<h, i>>
      /\ job' = [job EXCEPT ![h][i] = new]
      /\ UNCHANGED <<pc, form, known, results, answer, queryCount, forgiven,
                     queries, attestations, queryMatch>>
  BY DEF AttestReturns, Work, Chain
<1>2. new \in Job /\ new.pc = "ok" /\ new.result = job[h][i].result
  BY JobsTyped DEF Job
<1>3. OfCall(h, i, new.result) \in attestations
  BY <1>1, <1>2 DEF DiscInv, Signed
<1>4. queryMatch' \in [Orgs -> [Requests -> Tokens \cup {None}]]
  BY <1>1 DEF DiscInv, TypeOK
<1> HIDE DEF new
<1> QED
  BY <1>1, <1>2, <1>3, <1>4, JobKeeps

LEMMA FailsKeeps ==
    ASSUME DiscInv, NEW h \in Handlers, NEW i \in Positions, MatchFails(h, i)
    PROVE  DiscInv'
<1> DEFINE new == [job[h][i] EXCEPT !.pc = "error"]
<1>1. /\ job[h][i].pc \in {"sent", "submitting"}
      /\ job' = [job EXCEPT ![h][i] = new]
      /\ UNCHANGED <<pc, form, known, results, answer, queryCount, forgiven,
                     queries, attestations, queryMatch>>
  BY DEF MatchFails, Work, Chain
<1>2. new \in Job /\ new.pc = "error" /\ new.result = job[h][i].result
  BY JobsTyped DEF Job
<1>3. queryMatch' \in [Orgs -> [Requests -> Tokens \cup {None}]]
  BY <1>1 DEF DiscInv, TypeOK
<1> HIDE DEF new
<1> QED
  BY <1>1, <1>2, <1>3, JobKeeps

(* The ledger accepts an attestation of a provider that had none.          *)
LEMMA AttestKeeps ==
    ASSUME DiscInv, NEW h \in Handlers, NEW i \in Positions,
           AttestCommits(h, i)
    PROVE  DiscInv'
<1> DEFINE new == OfCall(h, i, job[h][i].result)
<1>1. /\ job[h][i].pc \in {"submitting", "error"}
      /\ job[h][i].result # None
      /\ Target(h, i) \notin Attested(QueryOf(h))
      /\ attestations' = attestations \cup {new}
      /\ UNCHANGED <<pc, form, known, results, answer, queryCount, forgiven,
                     queries, job, queryMatch>>
  BY DEF AttestCommits, Work, Adapters, OfCall
<1>2. pc[h] # "idle" /\ i \in DOMAIN form[h].targets
  BY <1>1 DEF DiscInv, Reached
<1>3. Target(h, i) \in Orgs /\ QueryOf(h) \in Requests
  BY <1>2, FormFits DEF Target
<1>4. job[h][i].result \in Verdicts
  BY <1>1, JobsTyped DEF Job, Verdicts
<1>5. TypeOK'
  BY <1>1, <1>3, <1>4 DEF DiscInv, TypeOK, OfCall, Verdicts
<1>6. Filled' /\ Fresh' /\ Charged'
  BY <1>1 DEF DiscInv, Filled, Fresh, Charged, ChargedFor
<1>7. Calling' /\ Told' /\ Reached'
  BY <1>1 DEF DiscInv, Calling, Told, Reached, QueryOf, NextPosition, Partial
<1>8. \A k \in Handlers, j \in Positions :
        OfCall(k, j, job[k][j].result)' = OfCall(k, j, job[k][j].result)
  BY <1>1 DEF OfCall, QueryOf, Target
<1>9. Signed'
  <2>1. \A k \in Handlers : \A j \in Positions :
           new.by = <<k, j>> => k = h /\ j = i
    BY DEF OfCall
  <2> QED
    BY <1>1, <1>8, <2>1 DEF DiscInv, Signed
<1>10. Unique'
  <2>1. \A a \in attestations :
           ~(a.query = new.query /\ a.provider = new.provider)
    BY <1>1 DEF OfCall, Attested
  <2> QED
    BY <1>1, <2>1 DEF DiscInv, Unique
<1>11. Backed'
  <2>1. /\ \A k \in Handlers : \A j \in Positions :
              OfCall(k, j, job[k][j].result)' = OfCall(k, j, job[k][j].result)
        /\ \A k \in Handlers : \A j \in DOMAIN results[k] :
              OfCall(k, j, results[k][j])' = OfCall(k, j, results[k][j])
    BY <1>1 DEF OfCall, QueryOf, Target
  <2> QED
    BY <1>1, <2>1 DEF DiscInv, Backed
<1> QED
  BY <1>5, <1>6, <1>7, <1>9, <1>10, <1>11 DEF DiscInv

-----------------------------------------------------------------------------
(* The gateway.                                                            *)

Statuses == {0, 201, 207, 400, 403, 404, 409, 422, 429, 500, 503}

Stages == {"idle", "submitting", "calling", "waiting", "done", "aborted"}

Settled(h) == pc[h] \notin {"idle", "submitting"}

(* Whoever was charged rightly stays charged rightly.                      *)
LEMMA ChargedGrows ==
    ASSUME DiscInv, queries \subseteq queries', queries' \subseteq Requests,
           \A q \in queries : form'[q] = form[q] /\ (Settled(q) => Settled(q)'),
           UNCHANGED queryCount
    PROVE  Charged'
<1> SUFFICES ASSUME NEW u \in Users
             PROVE  queryCount[u] <= Cardinality(ChargedFor(u)')
  BY DEF Charged
<1>1. ChargedFor(u) \subseteq ChargedFor(u)'
  BY DEF ChargedFor, Settled
<1>2. IsFiniteSet(ChargedFor(u)')
  <2>1. ChargedFor(u)' \subseteq Requests
    BY DEF ChargedFor
  <2> QED
    BY <2>1, FormsAssumption, FS_Subset
<1>3. /\ Cardinality(ChargedFor(u)) \in Nat
      /\ Cardinality(ChargedFor(u)') \in Nat
      /\ Cardinality(ChargedFor(u)) <= Cardinality(ChargedFor(u)')
  BY <1>1, <1>2, MoreCharged
<1>4. queryCount[u] <= Cardinality(ChargedFor(u)) /\ queryCount[u] \in Int
  BY DEF DiscInv, Charged, TypeOK
<1> QED
  BY <1>3, <1>4

LEMMA CommitKeeps ==
    ASSUME DiscInv, NEW h \in Requests, QueryCommits(h) PROVE DiscInv'
<1>1. /\ pc[h] \in {"submitting", "aborted"} \/ answer[h] = 503
      /\ queries' = queries \cup {h}
      /\ UNCHANGED <<pc, form, known, results, answer, queryCount, forgiven,
                     attestations, job, queryMatch>>
  BY DEF QueryCommits, Work, Adapters
<1>2. h \in Handlers /\ pc[h] # "idle"
  BY <1>1 DEF Handlers, DiscInv, Told
<1>3. TypeOK'
  BY <1>1 DEF DiscInv, TypeOK
<1>4. Filled' /\ Fresh' /\ Unique'
  BY <1>1, <1>2 DEF DiscInv, Filled, Fresh, Unique
<1>5. Calling' /\ Told' /\ Reached'
  BY <1>1 DEF DiscInv, Calling, Told, Reached, QueryOf, NextPosition, Partial
<1>6. Signed' /\ Backed'
  BY <1>1 DEF DiscInv, Signed, Backed, OfCall, QueryOf, Target
<1>7. Charged'
  BY <1>1, ChargedGrows DEF DiscInv, TypeOK, Settled
<1> QED
  BY <1>3, <1>4, <1>5, <1>6, <1>7 DEF DiscInv

LEMMA ResetKeeps == ASSUME DiscInv, ResetDemo PROVE DiscInv'
<1>1. /\ queryCount' = [u \in Users |-> 0]
      /\ forgiven' \subseteq Requests
      /\ UNCHANGED <<pc, form, known, results, answer, queries, attestations,
                     job, queryMatch>>
  BY DEF ResetDemo, Work, Chain, Adapters
<1>2. Cardinality(Requests) \in Nat
  BY FormsAssumption, FS_CardinalityType
<1>3. TypeOK'
  BY <1>1, <1>2 DEF DiscInv, TypeOK
<1>4. Filled' /\ Fresh' /\ Unique'
  BY <1>1 DEF DiscInv, Filled, Fresh, Unique
<1>5. Calling' /\ Told' /\ Reached'
  BY <1>1 DEF DiscInv, Calling, Told, Reached, QueryOf, NextPosition, Partial
<1>6. Signed' /\ Backed'
  BY <1>1 DEF DiscInv, Signed, Backed, OfCall, QueryOf, Target
<1>7. Charged'
  <2>1. \A u \in Users : ChargedFor(u)' = ChargedFor(u)
    BY <1>1 DEF ChargedFor
  <2>2. \A u \in Users : Cardinality(ChargedFor(u)) \in Nat
    BY ChargedFinite DEF DiscInv, TypeOK
  <2> QED
    BY <1>1, <2>1, <2>2 DEF Charged
<1> QED
  BY <1>3, <1>4, <1>5, <1>6, <1>7 DEF DiscInv

(* A handler moves on without a new result.                                *)
Moves(k) ==
    /\ pc[k] \in {"submitting", "calling", "waiting"}
    /\ pc'[k] \in {"calling", "done", "aborted"}
    /\ pc'[k] = "calling" => k \in Requests /\ k \in queries
    /\ pc[k] = "waiting" => pc'[k] = "aborted"
    /\ answer'[k] # 0 => pc'[k] = "done"
    /\ answer'[k] \in {201, 207} =>
          /\ QueryOf(k) \in queries
          /\ DOMAIN results[k] = DOMAIN form[k].targets
    /\ answer'[k] = 201 => ~Partial(k)

LEMMA MovesKeep ==
    ASSUME DiscInv,
           UNCHANGED <<form, known, results, queries, attestations, job,
                       queryMatch>>,
           pc' \in [Handlers -> Stages], answer' \in [Handlers -> Statuses],
           queryCount' \in [Users -> 0..Cardinality(Requests)], Charged',
           forgiven' \subseteq Requests,
           \A k \in Handlers :
               (pc'[k] = pc[k] /\ answer'[k] = answer[k]) \/ Moves(k)
    PROVE  DiscInv'
<1>1. TypeOK'
  <2>1. \A k \in Handlers : pc'[k] # "idle" =>
           form[k] \in IF k \in Requests THEN QueryForms ELSE RetryForms
    BY DEF DiscInv, TypeOK, Moves
  <2>2. TypeOK
    BY DEF DiscInv
  <2> QED
    BY <2>1, <2>2 DEF TypeOK, Stages, Statuses
<1>2. Filled' /\ Fresh' /\ Unique'
  BY DEF DiscInv, Filled, Fresh, Unique, Moves
<1>3. Calling'
  BY DEF DiscInv, Calling, Moves, QueryOf, NextPosition
<1>4. Told'
  BY DEF DiscInv, Told, Moves, QueryOf, Partial
<1>5. Reached'
  BY DEF DiscInv, Reached, Moves, QueryOf, NextPosition
<1>6. Signed' /\ Backed'
  BY DEF DiscInv, Signed, Backed, OfCall, QueryOf, Target
<1> QED
  BY <1>1, <1>2, <1>3, <1>4, <1>5, <1>6 DEF DiscInv

LEMMA EndsKeeps ==
    ASSUME DiscInv, NEW h \in Handlers, NEW status \in Statuses \ {0},
           pc[h] \in {"submitting", "calling"}, Answer(h, status),
           status \in {201, 207} =>
              /\ QueryOf(h) \in queries
              /\ DOMAIN results[h] = DOMAIN form[h].targets,
           status = 201 => ~Partial(h),
           UNCHANGED <<form, known, results, queryCount, forgiven, queries,
                       attestations, job, queryMatch>>
    PROVE  DiscInv'
<1>1. /\ pc' = [pc EXCEPT ![h] = "done"]
      /\ answer' = [answer EXCEPT ![h] = status]
  BY DEF Answer
<1>2. pc \in [Handlers -> Stages] /\ answer \in [Handlers -> Statuses]
  BY DEF DiscInv, TypeOK, Stages, Statuses
<1>3. /\ pc' \in [Handlers -> Stages] /\ answer' \in [Handlers -> Statuses]
      /\ pc'[h] = "done" /\ answer'[h] = status
      /\ \A k \in Handlers : k # h => pc'[k] = pc[k] /\ answer'[k] = answer[k]
  BY <1>1, <1>2 DEF Stages
<1>4. Moves(h)
  BY <1>3 DEF Moves
<1>5. Charged'
  <2>1. queries \subseteq Handlers
    BY DEF DiscInv, TypeOK, Handlers
  <2> QED
    BY <1>3, <2>1, ChargedGrows DEF DiscInv, TypeOK, Settled
<1>6. /\ queryCount' \in [Users -> 0..Cardinality(Requests)]
      /\ forgiven' \subseteq Requests
  BY DEF DiscInv, TypeOK
<1> QED
  BY <1>3, <1>4, <1>5, <1>6, MovesKeep

LEMMA SubmitFailsKeeps ==
    ASSUME DiscInv, NEW h \in Handlers, QuerySubmitFails(h) PROVE DiscInv'
  BY EndsKeeps DEF QuerySubmitFails, Work, Chain, Adapters, Statuses

LEMMA RespondKeeps ==
    ASSUME DiscInv, NEW h \in Handlers, Respond(h) PROVE DiscInv'
<1> DEFINE status == IF Partial(h) THEN 207 ELSE 201
<1>1. /\ pc[h] = "calling" /\ NextPosition(h) \notin DOMAIN form[h].targets
      /\ Answer(h, status)
      /\ UNCHANGED <<form, known, results, queryCount, forgiven, queries,
                     attestations, job, queryMatch>>
  BY DEF Respond, Work, Chain, Adapters
<1>2. QueryOf(h) \in queries
  BY <1>1 DEF DiscInv, Calling
<1>3. DOMAIN results[h] = DOMAIN form[h].targets
  <2>1. /\ form[h].targets \in Seq(Orgs)
        /\ Len(results[h]) \in Nat /\ Len(results[h]) <= Len(form[h].targets)
    BY <1>1, FormFits
  <2>2. results[h] \in Seq(Verdicts \cup {"FAILED"})
    BY DEF DiscInv, Filled
  <2>3. Len(results[h]) = Len(form[h].targets)
    BY <1>1, <2>1 DEF NextPosition
  <2> QED
    BY <2>1, <2>2, <2>3
<1>4. status \in Statuses \ {0} /\ (status = 201 => ~Partial(h))
  BY DEF Statuses
<1> HIDE DEF status
<1> QED
  BY <1>1, <1>2, <1>3, <1>4, EndsKeeps

LEMMA RestartKeeps == ASSUME DiscInv, GatewayRestarts PROVE DiscInv'
<1>1. /\ pc' = [h \in Handlers |->
                   IF pc[h] \in {"submitting", "calling", "waiting"}
                   THEN "aborted" ELSE pc[h]]
      /\ UNCHANGED <<form, known, results, answer, queryCount, forgiven,
                     queries, attestations, job, queryMatch>>
  BY DEF GatewayRestarts, Work, Chain, Adapters
<1>2. pc \in [Handlers -> Stages] /\ answer \in [Handlers -> Statuses]
  BY DEF DiscInv, TypeOK, Stages, Statuses
<1>3. pc' \in [Handlers -> Stages]
  BY <1>1, <1>2 DEF Stages
<1>4. \A k \in Handlers : pc'[k] = pc[k] \/ Moves(k)
  BY <1>1 DEF Moves, DiscInv, Told
<1>5. Charged'
  <2>1. queries \subseteq Handlers
    BY DEF DiscInv, TypeOK, Handlers
  <2> QED
    BY <1>1, <2>1, ChargedGrows DEF DiscInv, TypeOK, Settled
<1>6. /\ queryCount' \in [Users -> 0..Cardinality(Requests)]
      /\ forgiven' \subseteq Requests
  BY <1>1 DEF DiscInv, TypeOK
<1> QED
  BY <1>1, <1>2, <1>3, <1>4, <1>5, <1>6, MovesKeep

(* The counter follows a query that is recorded.                           *)
LEMMA SubmittedKeeps ==
    ASSUME DiscInv, NEW h \in Requests, QuerySubmitted(h) PROVE DiscInv'
<1>0. h \in Handlers /\ pc[h] = "submitting"
  BY DEF Handlers, QuerySubmitted
<1> PICK u \in Users : u = form[h].user
  BY <1>0, FormFits
<1>1. /\ h \in queries
      /\ queryCount' = [queryCount EXCEPT ![u] = @ + 1]
      /\ pc' = [pc EXCEPT ![h] = "calling"]
      /\ UNCHANGED <<form, known, results, answer, forgiven, queries,
                     attestations, job, queryMatch>>
  BY DEF QuerySubmitted, IncrementQueryCount, Work, Chain, Adapters
<1>2. pc \in [Handlers -> Stages] /\ answer \in [Handlers -> Statuses]
  BY DEF DiscInv, TypeOK, Stages, Statuses
<1>3. /\ pc' \in [Handlers -> Stages] /\ pc'[h] = "calling"
      /\ \A k \in Handlers : k # h => pc'[k] = pc[k]
  BY <1>0, <1>1, <1>2 DEF Stages
<1>4. Moves(h)
  BY <1>0, <1>1, <1>3 DEF Moves, DiscInv, Told
<1>5. queries \subseteq Handlers /\ queries \subseteq Requests
  BY DEF DiscInv, TypeOK, Handlers
<1>6. /\ ChargedFor(u)' = ChargedFor(u) \cup {h} /\ h \notin ChargedFor(u)
      /\ \A v \in Users : v # u => ChargedFor(v)' = ChargedFor(v)
  BY <1>0, <1>1, <1>3, <1>5 DEF ChargedFor
<1>7. \A v \in Users : /\ IsFiniteSet(ChargedFor(v))
                        /\ Cardinality(ChargedFor(v)) \in Nat
  BY <1>5, ChargedFinite
<1>8. Cardinality(ChargedFor(u)') = Cardinality(ChargedFor(u)) + 1
  BY <1>6, <1>7, FS_AddElement
<1>9. /\ queryCount \in [Users -> Nat]
      /\ \A v \in Users : queryCount[v] <= Cardinality(ChargedFor(v))
  BY DEF DiscInv, TypeOK, Charged
<1>10. /\ queryCount' \in [Users -> Nat]
       /\ \A v \in Users :
             queryCount'[v] = queryCount[v] + (IF v = u THEN 1 ELSE 0)
  BY <1>1, <1>9
<1>11. ASSUME NEW v \in Users
       PROVE  /\ queryCount'[v] <= Cardinality(ChargedFor(v)')
              /\ queryCount'[v] <= Cardinality(Requests)
              /\ Cardinality(Requests) \in Nat
  <2>1. queryCount'[v] <= Cardinality(ChargedFor(v)')
    <3>1. CASE v = u
      BY <3>1, <1>7, <1>8, <1>9, <1>10
    <3>2. CASE v # u
      BY <3>2, <1>6, <1>7, <1>9, <1>10
    <3> QED
      BY <3>1, <3>2
  <2>2. ChargedFor(v)' \subseteq Requests
    BY <1>1, <1>5 DEF ChargedFor
  <2>3. /\ Cardinality(ChargedFor(v)') \in Nat
        /\ Cardinality(Requests) \in Nat
        /\ Cardinality(ChargedFor(v)') <= Cardinality(Requests)
    BY <2>2, FormsAssumption, MoreCharged
  <2> QED
    BY <2>1, <2>3, <1>10
<1>12. Charged'
  BY <1>11 DEF Charged
<1>13. /\ queryCount' \in [Users -> 0..Cardinality(Requests)]
       /\ forgiven' \subseteq Requests
  BY <1>1, <1>10, <1>11 DEF DiscInv, TypeOK
<1> QED
  BY <1>1, <1>2, <1>3, <1>4, <1>12, <1>13, MovesKeep

(* The call leaves the gateway: the run at the adapter is its own.         *)
LEMMA CallKeeps ==
    ASSUME DiscInv, NEW h \in Handlers, CallAdapter(h) PROVE DiscInv'
<1> PICK i : i = NextPosition(h)
  OBVIOUS
<1>1. /\ pc[h] = "calling" /\ i \in DOMAIN form[h].targets
      /\ UNCHANGED <<form, known, results, queryCount, forgiven, queries,
                     attestations, queryMatch>>
  BY DEF CallAdapter, Work, Chain
<1>2. /\ i \in Positions /\ i \in Nat \ {0}
      /\ i = Len(results[h]) + 1 /\ Len(results[h]) \in Nat
  BY <1>1, FormFits, PositionsAreNumbers DEF NextPosition
<1>3. job[h][i].pc = "unsent"
  <2>1. ~(i <= Len(results[h]))
    BY <1>2
  <2> QED
    BY <1>1, <1>2, <2>1 DEF DiscInv, Reached
<1>4. job[h][i].result = None
  BY <1>2, <1>3 DEF DiscInv, Backed
<1>5. CASE RetryRefusal(h, Target(h, i)) # 0
  <2>1. Answer(h, RetryRefusal(h, Target(h, i))) /\ UNCHANGED job
    BY <1>5 DEF CallAdapter
  <2>2. RetryRefusal(h, Target(h, i)) \in Statuses \ {0, 201, 207}
    BY <1>5 DEF RetryRefusal, Statuses
  <2> QED
    BY <1>1, <2>1, <2>2, EndsKeeps
<1>6. CASE RetryRefusal(h, Target(h, i)) = 0
  <2> DEFINE new == [job[h][i] EXCEPT !.pc = "sent"]
  <2>1. /\ job' = [job EXCEPT ![h][i] = new]
        /\ pc' = [pc EXCEPT ![h] = "waiting"]
        /\ UNCHANGED answer
    BY <1>6 DEF CallAdapter
  <2>2. new \in Job /\ new.pc = "sent" /\ new.result = None
    BY <1>2, <1>4, JobsTyped DEF Job
  <2> HIDE DEF new
  <2>3. /\ job' \in [Handlers -> [Positions -> Job]]
        /\ job'[h][i] = new
        /\ \A k \in Handlers : \A j \in Positions :
              k # h \/ j # i => job'[k][j] = job[k][j]
    <3>1. i \in Positions /\ new \in Job
      BY <1>2, <2>2
    <3>2. job' = [job EXCEPT ![h][i] = new]
      BY <2>1
    <3> QED
      BY ONLY DiscInv, h \in Handlers, <3>1, <3>2, JobChanged
  <2>4. pc \in [Handlers -> Stages]
    BY DEF DiscInv, TypeOK, Stages
  <2>5. /\ pc' \in [Handlers -> Stages] /\ pc'[h] = "waiting"
        /\ \A k \in Handlers : k # h => pc'[k] = pc[k]
    BY <2>1, <2>4 DEF Stages
  <2>6. TypeOK'
    BY <1>1, <2>1, <2>3, <2>5 DEF DiscInv, TypeOK, Job, Stages
  <2>7. Filled' /\ Fresh' /\ Unique'
    BY <1>1, <2>1, <2>5 DEF DiscInv, Filled, Fresh, Unique
  <2>8. Calling' /\ Told'
    BY <1>1, <2>1, <2>5
       DEF DiscInv, Calling, Told, QueryOf, NextPosition, Partial
  <2>9. Reached'
    <3>1. QueryOf(h) \in queries
      BY <1>1 DEF DiscInv, Calling
    <3> QED
      BY <1>1, <1>2, <2>2, <2>3, <2>5, <3>1
         DEF DiscInv, Reached, QueryOf, NextPosition
  <2>10. ~\E a \in attestations : a.by = <<h, i>>
    BY <1>2, <1>3 DEF DiscInv, Signed
  <2>11. Signed'
    BY <1>1, <2>3, <2>10 DEF DiscInv, Signed, OfCall, QueryOf, Target
  <2>12. Backed'
    BY <1>1, <2>2, <2>3 DEF DiscInv, Backed, OfCall, QueryOf, Target
  <2>13. Charged'
    <3>1. queries \subseteq Handlers
      BY DEF DiscInv, TypeOK, Handlers
    <3> QED
      BY <1>1, <2>5, <3>1, ChargedGrows DEF DiscInv, TypeOK, Settled
  <2> QED
    BY <2>6, <2>7, <2>8, <2>9, <2>11, <2>12, <2>13 DEF DiscInv
<1> QED
  BY <1>5, <1>6

(* A provider's result, which is the recorded one unless it says FAILED.   *)
LEMMA ResultKeeps ==
    ASSUME DiscInv, NEW h \in Handlers,
           NEW r \in Verdicts \cup {"FAILED"},
           pc[h] = "waiting",
           results' = [results EXCEPT ![h] = Append(@, r)],
           pc' = [pc EXCEPT ![h] = "calling"],
           r # "FAILED" => OfCall(h, NextPosition(h), r) \in attestations,
           UNCHANGED <<form, known, answer, queryCount, forgiven, queries,
                       attestations, job, queryMatch>>
    PROVE  DiscInv'
<1>1. /\ NextPosition(h) \in DOMAIN form[h].targets
      /\ QueryOf(h) \in queries
  BY DEF DiscInv, Calling
<1>2. /\ form[h].targets \in Seq(Orgs)
      /\ Len(results[h]) \in Nat
      /\ Len(results[h]) + 1 <= Len(form[h].targets)
  BY <1>1, FormFits DEF NextPosition
<1>3. results \in [Handlers -> Seq(Verdicts \cup {"FAILED"})]
  BY DEF DiscInv, Filled
<1>4. /\ results' \in [Handlers -> Seq(Verdicts \cup {"FAILED"})]
      /\ results'[h] = Append(results[h], r)
      /\ \A k \in Handlers : k # h => results'[k] = results[k]
  BY <1>3
<1>5. /\ Len(results'[h]) = Len(results[h]) + 1
      /\ DOMAIN results'[h] = 1..(Len(results[h]) + 1)
      /\ DOMAIN results[h] = 1..Len(results[h])
      /\ results'[h][Len(results[h]) + 1] = r
      /\ \A i \in 1..Len(results[h]) : results'[h][i] = results[h][i]
  BY <1>3, <1>4
<1>6. pc \in [Handlers -> Stages]
  BY DEF DiscInv, TypeOK, Stages
<1>7. /\ pc' \in [Handlers -> Stages] /\ pc'[h] = "calling"
      /\ \A k \in Handlers : k # h => pc'[k] = pc[k]
  BY <1>6 DEF Stages
<1>8. TypeOK'
  <2>1. \A k \in Handlers :
           /\ results'[k] \in Seq(Verdicts \cup {"FAILED"})
           /\ results'[k] # <<>> => Len(results'[k]) <= Len(form[k].targets)
    BY <1>2, <1>4, <1>5 DEF DiscInv, TypeOK
  <2> QED
    BY <1>7, <2>1 DEF DiscInv, TypeOK, Stages, Verdicts
<1>9. Filled' /\ Fresh' /\ Unique'
  BY <1>4, <1>7 DEF DiscInv, Filled, Fresh, Unique
<1>10. Calling'
  BY <1>1, <1>4, <1>7 DEF DiscInv, Calling, QueryOf, NextPosition
<1>11. Told'
  BY <1>4, <1>7 DEF DiscInv, Told, QueryOf, Partial
<1>12. Reached'
  <2> SUFFICES ASSUME NEW k \in Handlers, NEW i \in Positions,
                      job[k][i].pc # "unsent"
               PROVE  /\ pc'[k] # "idle"
                      /\ i \in DOMAIN form[k].targets
                      /\ QueryOf(k) \in queries
                      /\ \/ i <= Len(results'[k])
                         \/ /\ i = Len(results'[k]) + 1
                            /\ pc'[k] \in {"waiting", "aborted", "done"}
    BY DEF Reached, QueryOf, NextPosition
  <2>1. /\ pc[k] # "idle"
        /\ i \in DOMAIN form[k].targets
        /\ QueryOf(k) \in queries
        /\ \/ i <= Len(results[k])
           \/ i = Len(results[k]) + 1 /\ pc[k] \in {"waiting", "aborted", "done"}
    BY DEF DiscInv, Reached, NextPosition
  <2>2. CASE k = h
    <3>1. i \in Nat
      BY PositionsAreNumbers
    <3> QED
      BY <1>2, <1>5, <1>7, <2>1, <2>2, <3>1
  <2>3. CASE k # h
    BY <1>4, <1>7, <2>1, <2>3
  <2> QED
    BY <2>2, <2>3
<1>13. Signed'
  BY DEF DiscInv, Signed, OfCall, QueryOf, Target
<1>14. Backed'
  <2> SUFFICES
        /\ \A k \in Handlers : \A j \in Positions :
              /\ job[k][j].pc = "ok" =>
                    OfCall(k, j, job[k][j].result) \in attestations
              /\ job[k][j].pc \in {"unsent", "sent"} =>
                    job[k][j].result = None
              /\ job[k][j].pc \in {"submitting", "ok"} =>
                    job[k][j].result \in Verdicts
        /\ \A k \in Handlers : \A j \in DOMAIN results'[k] :
              results'[k][j] # "FAILED" =>
                  OfCall(k, j, results'[k][j]) \in attestations
    BY DEF Backed, OfCall, QueryOf, Target
  <2>1. ASSUME NEW j \in DOMAIN results'[h], results'[h][j] # "FAILED"
        PROVE  OfCall(h, j, results'[h][j]) \in attestations
    <3>1. CASE j = Len(results[h]) + 1
      BY <1>5, <2>1, <3>1 DEF NextPosition
    <3>2. CASE j # Len(results[h]) + 1
      <4>1. j \in 1..Len(results[h])
        BY <1>2, <1>5, <3>2
      <4> QED
        BY <1>5, <2>1, <4>1 DEF DiscInv, Backed
    <3> QED
      BY <3>1, <3>2
  <2>2. ASSUME NEW k \in Handlers, k # h, NEW j \in DOMAIN results'[k],
               results'[k][j] # "FAILED"
        PROVE  OfCall(k, j, results'[k][j]) \in attestations
    BY <1>4, <2>2 DEF DiscInv, Backed
  <2> QED
    BY <2>1, <2>2 DEF DiscInv, Backed
<1>15. Charged'
  <2>1. queries \subseteq Handlers
    BY DEF DiscInv, TypeOK, Handlers
  <2> QED
    BY <1>7, <2>1, ChargedGrows DEF DiscInv, TypeOK, Settled
<1> QED
  BY <1>8, <1>9, <1>10, <1>11, <1>12, <1>13, <1>14, <1>15 DEF DiscInv

LEMMA AnswersKeeps ==
    ASSUME DiscInv, NEW h \in Handlers, AdapterAnswers(h) PROVE DiscInv'
<1> PICK i : i = NextPosition(h)
  OBVIOUS
<1> PICK r : r = IF job[h][i].pc = "ok" THEN job[h][i].result ELSE "FAILED"
  OBVIOUS
<1>1. /\ pc[h] = "waiting"
      /\ results' = [results EXCEPT ![h] = Append(@, r)]
      /\ pc' = [pc EXCEPT ![h] = "calling"]
      /\ UNCHANGED <<form, known, answer, queryCount, forgiven, queries,
                     attestations, job, queryMatch>>
  BY DEF AdapterAnswers, Chain, Adapters
<1>2. i \in Positions
  <2>1. i \in DOMAIN form[h].targets
    BY <1>1 DEF DiscInv, Calling
  <2> QED
    BY <1>1, <2>1, FormFits
<1>3. /\ r \in Verdicts \cup {"FAILED"}
      /\ r # "FAILED" => OfCall(h, i, r) \in attestations
  BY <1>2 DEF DiscInv, Backed
<1> QED
  BY <1>1, <1>3, ResultKeeps

LEMMA TimesOutKeeps ==
    ASSUME DiscInv, NEW h \in Handlers, AdapterTimesOut(h) PROVE DiscInv'
  BY ResultKeeps DEF AdapterTimesOut, Chain, Adapters

-----------------------------------------------------------------------------
(* A post: a handler that had no part in anything is given its form.       *)

Posts(h, f, stage, status) ==
    /\ form' = [form EXCEPT ![h] = f]
    /\ pc' = [pc EXCEPT ![h] = stage]
    /\ answer' = [answer EXCEPT ![h] = status]
    /\ known' \in [Handlers -> SUBSET Orgs]
    /\ UNCHANGED <<results, queryCount, forgiven, queries, attestations, job,
                   queryMatch>>

LEMMA PostKeeps ==
    ASSUME DiscInv, NEW h \in Handlers, NEW f, NEW stage \in Stages,
           NEW status \in Statuses \ {201, 207},
           h \in Requests => f \in QueryForms,
           h \notin Requests => f \in RetryForms,
           pc[h] = "idle",
           Posts(h, f, stage, status),
           stage \notin {"idle", "waiting"},
           stage = "calling" => h \notin Requests /\ f.query \in queries,
           status # 0 => stage = "done"
    PROVE  DiscInv'
<1>0. /\ form' = [form EXCEPT ![h] = f]
      /\ pc' = [pc EXCEPT ![h] = stage]
      /\ answer' = [answer EXCEPT ![h] = status]
      /\ known' \in [Handlers -> SUBSET Orgs]
      /\ UNCHANGED <<results, queryCount, forgiven, queries, attestations, job,
                     queryMatch>>
  BY DEF Posts
<1>1. /\ h \notin queries /\ results[h] = <<>> /\ answer[h] = 0
      /\ \A i \in Positions : job[h][i].pc = "unsent"
  BY DEF DiscInv, Fresh, Reached
<1>2. /\ form \in [Handlers -> QueryForms \cup RetryForms \cup {None}]
      /\ pc \in [Handlers -> Stages] /\ answer \in [Handlers -> Statuses]
      /\ queries \subseteq Handlers
  BY DEF DiscInv, TypeOK, Filled, Stages, Statuses, Handlers
<1>3. /\ form' \in [Handlers -> QueryForms \cup RetryForms \cup {None}]
      /\ form'[h] = f
      /\ pc' \in [Handlers -> Stages] /\ pc'[h] = stage
      /\ answer' \in [Handlers -> Statuses] /\ answer'[h] = status
      /\ \A k \in Handlers : k # h => /\ form'[k] = form[k]
                                     /\ pc'[k] = pc[k]
                                     /\ answer'[k] = answer[k]
  BY <1>0, <1>2
<1>4. \A k \in Handlers : k # h => /\ QueryOf(k)' = QueryOf(k)
                                  /\ \A i : Target(k, i)' = Target(k, i)
  BY <1>3 DEF QueryOf, Target
<1>5. TypeOK'
  <2>1. \A k \in Handlers : pc'[k] # "idle" =>
           form'[k] \in IF k \in Requests THEN QueryForms ELSE RetryForms
    BY <1>3 DEF DiscInv, TypeOK
  <2>2. \A k \in Handlers :
           /\ results[k] \in Seq({"MATCH", "NO_MATCH", "FAILED"})
           /\ results[k] # <<>> => Len(results[k]) <= Len(form'[k].targets)
    BY <1>0, <1>1, <1>3 DEF DiscInv, TypeOK
  <2> QED
    BY <1>0, <1>3, <2>1, <2>2 DEF DiscInv, TypeOK, Stages, Statuses
<1>6. Filled' /\ Fresh' /\ Unique'
  BY <1>0, <1>3 DEF DiscInv, Filled, Fresh, Unique
<1>7. Calling'
  <2> SUFFICES ASSUME NEW k \in Handlers, pc'[k] \in {"calling", "waiting"}
               PROVE  /\ QueryOf(k)' \in queries
                      /\ pc'[k] = "waiting" =>
                            NextPosition(k) \in DOMAIN form'[k].targets
    BY <1>0 DEF Calling, NextPosition
  <2>1. CASE k = h
    BY <1>3, <2>1 DEF QueryOf
  <2>2. CASE k # h
    BY <1>3, <1>4, <2>2 DEF DiscInv, Calling
  <2> QED
    BY <2>1, <2>2
<1>8. Told'
  <2> SUFFICES ASSUME NEW k \in Handlers
               PROVE  /\ answer'[k] # 0 => pc'[k] = "done"
                      /\ answer'[k] \in {201, 207} =>
                            /\ QueryOf(k)' \in queries
                            /\ DOMAIN results[k] = DOMAIN form'[k].targets
                      /\ answer'[k] = 201 => ~Partial(k)
    BY <1>0 DEF Told, Partial
  <2>1. CASE k = h
    BY <1>3, <2>1
  <2>2. CASE k # h
    BY <1>3, <1>4, <2>2 DEF DiscInv, Told
  <2> QED
    BY <2>1, <2>2
<1>9. Reached'
  <2> SUFFICES ASSUME NEW k \in Handlers, NEW i \in Positions,
                      job[k][i].pc # "unsent"
               PROVE  /\ pc'[k] # "idle"
                      /\ i \in DOMAIN form'[k].targets
                      /\ QueryOf(k)' \in queries
                      /\ \/ i <= Len(results[k])
                         \/ /\ i = NextPosition(k)
                            /\ pc'[k] \in {"waiting", "aborted", "done"}
    BY <1>0 DEF Reached, NextPosition
  <2>1. k # h
    BY <1>1
  <2> QED
    BY <1>3, <1>4, <2>1 DEF DiscInv, Reached
<1>10. \A k \in Handlers : k # h =>
          \A i, r : OfCall(k, i, r) = [query |-> QueryOf(k)',
                                      provider |-> Target(k, i)',
                                      result |-> r, by |-> <<k, i>>]
  BY <1>4 DEF OfCall
<1>11. Signed'
  <2> SUFFICES ASSUME NEW a \in attestations,
                      NEW k \in Handlers, NEW i \in Positions,
                      a.by = <<k, i>>
               PROVE  /\ a = [query |-> QueryOf(k)', provider |-> Target(k, i)',
                              result |-> job[k][i].result, by |-> <<k, i>>]
                      /\ job[k][i].pc \in {"submitting", "ok", "error"}
    BY <1>0 DEF Signed, OfCall
  <2>1. /\ a = OfCall(k, i, job[k][i].result)
        /\ job[k][i].pc \in {"submitting", "ok", "error"}
    BY DEF DiscInv, Signed
  <2>2. k # h
    BY <1>1, <2>1
  <2> QED
    BY <1>10, <2>1, <2>2
<1>12. Backed'
  <2> SUFFICES ASSUME NEW k \in Handlers
               PROVE
        /\ \A i \in Positions :
              /\ job[k][i].pc = "ok" =>
                    [query |-> QueryOf(k)', provider |-> Target(k, i)',
                     result |-> job[k][i].result, by |-> <<k, i>>]
                        \in attestations
              /\ job[k][i].pc \in {"unsent", "sent"} =>
                    job[k][i].result = None
              /\ job[k][i].pc \in {"submitting", "ok"} =>
                    job[k][i].result \in Verdicts
        /\ \A i \in DOMAIN results[k] : results[k][i] # "FAILED" =>
              [query |-> QueryOf(k)', provider |-> Target(k, i)',
               result |-> results[k][i], by |-> <<k, i>>] \in attestations
    BY <1>0 DEF Backed, OfCall
  <2>1. CASE k = h
    BY <1>1, <2>1 DEF DiscInv, Backed
  <2>2. CASE k # h
    BY <1>10, <2>2 DEF DiscInv, Backed
  <2> QED
    BY <2>1, <2>2
<1>13. Charged'
  <2>1. \A q \in queries : form'[q] = form[q] /\ pc'[q] = pc[q]
    BY <1>1, <1>2, <1>3
  <2> QED
    BY <1>0, <2>1, ChargedGrows DEF DiscInv, TypeOK, Settled
<1> QED
  BY <1>5, <1>6, <1>7, <1>8, <1>9, <1>11, <1>12, <1>13 DEF DiscInv

LEMMA PostQueryKeeps ==
    ASSUME DiscInv, NEW h \in Requests, PostQuery(h) PROVE DiscInv'
<1>0. h \in Handlers /\ pc[h] = "idle" /\ answer[h] = 0
  BY DEF Handlers, PostQuery, DiscInv, Fresh
<1>1. /\ known' \in [Handlers -> SUBSET Orgs]
      /\ UNCHANGED <<results, queryCount, forgiven, queries, attestations, job,
                     queryMatch>>
  BY DEF PostQuery, Chain, Adapters, DiscInv, TypeOK
<1> PICK f \in QueryForms :
          /\ form' = [form EXCEPT ![h] = f]
          /\ IF Refusal(f) # 0
             THEN Answer(h, Refusal(f))
             ELSE /\ pc' = [pc EXCEPT ![h] = "submitting"]
                  /\ UNCHANGED answer
  BY DEF PostQuery
<1>2. CASE Refusal(f) # 0
  <2>1. f.caseError \in {0, 403, 404, 409}
    BY FormsAssumption
  <2>2. Refusal(f) \in {400, 403, 404, 409, 422, 429}
    BY <1>2, <2>1 DEF Refusal
  <2>3. Refusal(f) \in Statuses \ {201, 207}
    BY <2>2 DEF Statuses
  <2>4. /\ pc' = [pc EXCEPT ![h] = "done"]
        /\ answer' = [answer EXCEPT ![h] = Refusal(f)]
    BY <1>2 DEF Answer
  <2>5. Posts(h, f, "done", Refusal(f))
    BY <1>1, <2>4 DEF Posts
  <2>6. "done" \in Stages
    BY DEF Stages
  <2> QED
    BY <1>0, <2>3, <2>5, <2>6, PostKeeps
<1>3. CASE Refusal(f) = 0
  <2>1. /\ pc' = [pc EXCEPT ![h] = "submitting"]
        /\ answer' = answer
    BY <1>3
  <2>2. answer' = [answer EXCEPT ![h] = 0]
    BY <1>0, <2>1 DEF DiscInv, TypeOK
  <2>3. Posts(h, f, "submitting", 0)
    BY <1>1, <2>1, <2>2 DEF Posts
  <2>4. "submitting" \in Stages /\ 0 \in Statuses \ {201, 207}
    BY DEF Stages, Statuses
  <2> QED
    BY <1>0, <2>3, <2>4, PostKeeps
<1> QED
  BY <1>2, <1>3

LEMMA PostRetryKeeps ==
    ASSUME DiscInv, NEW h \in Retries, PostRetry(h) PROVE DiscInv'
<1>0. /\ h \in Handlers /\ h \notin Requests
      /\ pc[h] = "idle" /\ answer[h] = 0
  BY FormsAssumption DEF Handlers, PostRetry, DiscInv, Fresh
<1>1. UNCHANGED <<results, queryCount, forgiven, queries, attestations, job,
                  queryMatch>>
  BY DEF PostRetry, Chain, Adapters
<1> PICK f \in RetryForms :
          /\ form' = [form EXCEPT ![h] = f]
          /\ \/ /\ f.query \in queries
                /\ \E seen \in SUBSET Attested(f.query) :
                      known' = [known EXCEPT ![h] = seen]
                /\ pc' = [pc EXCEPT ![h] = "calling"]
                /\ UNCHANGED answer
             \/ Answer(h, 404) /\ UNCHANGED known
             \/ Answer(h, 500) /\ UNCHANGED known
  BY DEF PostRetry
<1>2. /\ "done" \in Stages /\ "calling" \in Stages
      /\ {0, 404, 500} \subseteq Statuses \ {201, 207}
  BY DEF Stages, Statuses
<1>3. CASE /\ f.query \in queries
           /\ \E seen \in SUBSET Attested(f.query) :
                 known' = [known EXCEPT ![h] = seen]
           /\ pc' = [pc EXCEPT ![h] = "calling"]
           /\ UNCHANGED answer
  <2>1. Attested(f.query) \subseteq Orgs
    BY DEF Attested, DiscInv, TypeOK
  <2>2. known' \in [Handlers -> SUBSET Orgs]
    <3>1. known \in [Handlers -> SUBSET Orgs]
      BY DEF DiscInv, TypeOK
    <3> PICK seen \in SUBSET Attested(f.query) :
               known' = [known EXCEPT ![h] = seen]
      BY <1>3
    <3> QED
      BY <2>1, <3>1
  <2>3. answer' = [answer EXCEPT ![h] = 0]
    BY <1>0, <1>3 DEF DiscInv, TypeOK
  <2>4. Posts(h, f, "calling", 0)
    BY <1>1, <1>3, <2>2, <2>3 DEF Posts
  <2> QED
    BY <1>0, <1>2, <1>3, <2>4, PostKeeps
<1>4. ASSUME NEW status \in {404, 500}, Answer(h, status), UNCHANGED known
      PROVE  DiscInv'
  <2>1. /\ pc' = [pc EXCEPT ![h] = "done"]
        /\ answer' = [answer EXCEPT ![h] = status]
    BY <1>4 DEF Answer
  <2>2. known' \in [Handlers -> SUBSET Orgs]
    <3>1. known \in [Handlers -> SUBSET Orgs]
      BY DEF DiscInv, TypeOK
    <3> QED
      BY <1>4, <3>1
  <2>3. Posts(h, f, "done", status)
    BY <1>1, <2>1, <2>2 DEF Posts
  <2> QED
    BY <1>0, <1>2, <2>3, PostKeeps
<1> QED
  BY <1>3, <1>4

-----------------------------------------------------------------------------
(* The specification.                                                      *)

LEMMA DiscInit == Init => DiscInv
<1> SUFFICES ASSUME Init PROVE DiscInv
  OBVIOUS
<1>1. /\ \A h \in Handlers : /\ pc[h] = "idle" /\ results[h] = <<>>
                             /\ answer[h] = 0 /\ known[h] = {}
      /\ \A h \in Handlers : \A i \in Positions : job[h][i] = Unsent
      /\ queries = {} /\ attestations = {}
  BY DEF Init
<1>2. Cardinality(Requests) \in Nat
  BY FormsAssumption, FS_CardinalityType
<1>3. TypeOK
  <2>1. queryCount \in [Users -> 0..Cardinality(Requests)]
    BY <1>2 DEF Init
  <2>2. /\ pc \in [Handlers -> Stages] /\ known \in [Handlers -> SUBSET Orgs]
        /\ answer \in [Handlers -> Statuses]
    BY DEF Init, Stages, Statuses
  <2>3. job \in [Handlers -> [Positions -> Job]]
    BY DEF Init, Job, Unsent
  <2>4. queryMatch \in [Orgs -> [Requests -> Tokens \cup {None}]]
    BY DEF Init
  <2>5. \A h \in Handlers :
           /\ results[h] \in Seq({"MATCH", "NO_MATCH", "FAILED"})
           /\ results[h] # <<>> => Len(results[h]) <= Len(form[h].targets)
    <3>1. <<>> \in Seq({"MATCH", "NO_MATCH", "FAILED"})
      OBVIOUS
    <3> QED
      BY <1>1, <3>1
  <2>6. \A h \in Handlers : pc[h] # "idle" =>
           form[h] \in IF h \in Requests THEN QueryForms ELSE RetryForms
    BY <1>1
  <2>7. queries \subseteq Requests /\ attestations = {} /\ forgiven = {}
    BY <1>1 DEF Init
  <2> QED
    BY <2>1, <2>2, <2>3, <2>4, <2>5, <2>6, <2>7
       DEF TypeOK, Stages, Statuses, Job
<1>4. Filled
  BY DEF Init, Filled
<1>5. Fresh /\ Calling /\ Reached /\ Signed /\ Unique /\ Backed /\ Told
  BY <1>1 DEF Fresh, Calling, Reached, Signed, Unique, Backed, Told, Unsent
<1>6. Charged
  <2> SUFFICES ASSUME NEW u \in Users
               PROVE  queryCount[u] <= Cardinality(ChargedFor(u))
    BY DEF Charged
  <2>1. ChargedFor(u) = {}
    BY <1>1 DEF ChargedFor
  <2>2. Cardinality(ChargedFor(u)) = 0
    BY <2>1, FS_EmptySet
  <2>3. queryCount[u] = 0
    BY DEF Init
  <2> QED
    BY <2>2, <2>3
<1> QED
  BY <1>3, <1>4, <1>5, <1>6 DEF DiscInv

LEMMA StutterKeeps == ASSUME DiscInv, UNCHANGED vars PROVE DiscInv'
<1> USE DEF vars
<1>1. TypeOK' /\ Filled' /\ Fresh' /\ Unique'
  BY DEF DiscInv, TypeOK, Filled, Fresh, Unique
<1>2. Calling' /\ Told' /\ Reached'
  BY DEF DiscInv, Calling, Told, Reached, QueryOf, NextPosition, Partial
<1>3. Signed' /\ Backed' /\ Charged'
  BY DEF DiscInv, Signed, Backed, Charged, ChargedFor, OfCall, QueryOf, Target
<1> QED
  BY <1>1, <1>2, <1>3 DEF DiscInv

LEMMA DiscNext == DiscInv /\ [Next]_vars => DiscInv'
<1> SUFFICES ASSUME DiscInv, [Next]_vars PROVE DiscInv'
  OBVIOUS
<1>1. CASE \E h \in Requests : PostQuery(h) \/ QueryCommits(h)
  BY <1>1, PostQueryKeeps, CommitKeeps
<1>2. CASE \E h \in Retries : PostRetry(h)
  BY <1>2, PostRetryKeeps
<1>3. ASSUME NEW h \in Handlers, GatewayStep(h)
      PROVE  DiscInv'
  <2>1. CASE QuerySubmitted(h)
    <3>1. pc[h] = "submitting" /\ h \in Requests
      BY <2>1 DEF QuerySubmitted, DiscInv, TypeOK
    <3> QED
      BY <2>1, <3>1, SubmittedKeeps
  <2>2. CASE QuerySubmitFails(h)
    BY <2>2, SubmitFailsKeeps
  <2>3. CASE CallAdapter(h)
    BY <2>3, CallKeeps
  <2>4. CASE AdapterAnswers(h)
    BY <2>4, AnswersKeeps
  <2>5. CASE AdapterTimesOut(h)
    BY <2>5, TimesOutKeeps
  <2>6. CASE Respond(h)
    BY <2>6, RespondKeeps
  <2> QED
    BY <1>3, <2>1, <2>2, <2>3, <2>4, <2>5, <2>6 DEF GatewayStep
<1>4. ASSUME NEW h \in Handlers, NEW i \in Positions,
             \/ Match(h, i) \/ AttestCommits(h, i)
             \/ AttestReturns(h, i) \/ MatchFails(h, i)
      PROVE  DiscInv'
  BY <1>4, MatchKeeps, AttestKeeps, ReturnsKeeps, FailsKeeps
<1>5. CASE GatewayRestarts
  BY <1>5, RestartKeeps
<1>6. CASE ResetDemo
  BY <1>6, ResetKeeps
<1>7. CASE UNCHANGED vars
  BY <1>7, StutterKeeps
<1> QED
  BY <1>1, <1>2, <1>3, <1>4, <1>5, <1>6, <1>7 DEF Next

(* The inductive invariant holds of every reachable state.                 *)
LEMMA DiscInvariance == Spec => []DiscInv
  BY DiscInit, DiscNext, PTL DEF Spec

(* Gateway, adapters and ledger keep to their types and bounds: a counter  *)
(* never passes the number of posts, a result list its provider list.      *)
THEOREM DiscoveryTypeCorrect == Spec => []TypeOK
<1>1. DiscInv => TypeOK
  BY DEF DiscInv
<1> QED
  BY <1>1, DiscInvariance, PTL

(* A 201 or 207 tells of attestations the ledger holds, each recorded by   *)
(* this handler's own call with this result.                               *)
THEOREM ToldIsRecorded == Spec => []AnswersAreOnLedger
<1>1. DiscInv => AnswersAreOnLedger
  <2> SUFFICES ASSUME DiscInv, NEW h \in Handlers, answer[h] \in {201, 207}
               PROVE
        /\ QueryOf(h) \in queries
        /\ \A i \in DOMAIN form[h].targets :
              \/ answer[h] = 207 /\ results[h][i] = "FAILED"
              \/ OfCall(h, i, results[h][i]) \in attestations
    BY DEF AnswersAreOnLedger, OfCall
  <2>1. /\ QueryOf(h) \in queries
        /\ DOMAIN results[h] = DOMAIN form[h].targets
        /\ answer[h] = 201 => ~Partial(h)
    BY DEF DiscInv, Told
  <2> QED
    BY <2>1 DEF Partial, DiscInv, Backed
<1> QED
  BY <1>1, DiscInvariance, PTL

(* Whatever late effects and retries race, a provider attests a query once *)
(* and one handler tells of it.                                            *)
THEOREM OneAttestationEach == Spec => []AttestedOnce
<1>1. DiscInv => AttestedOnce
  <2> SUFFICES ASSUME DiscInv PROVE AttestedOnce
    OBVIOUS
  <2>1. \A a, b \in attestations :
           a.query = b.query /\ a.provider = b.provider => a = b
    BY DEF DiscInv, Unique
  <2>2. ASSUME NEW h \in Handlers, NEW k \in Handlers,
               NEW i \in DOMAIN results[h], NEW j \in DOMAIN results[k],
               QueryOf(h) = QueryOf(k), Target(h, i) = Target(k, j),
               results[h][i] # "FAILED", results[k][j] # "FAILED"
        PROVE  h = k /\ i = j
    <3>1. /\ OfCall(h, i, results[h][i]) \in attestations
          /\ OfCall(k, j, results[k][j]) \in attestations
      BY <2>2 DEF DiscInv, Backed
    <3>2. OfCall(h, i, results[h][i]) = OfCall(k, j, results[k][j])
      BY <2>1, <2>2, <3>1 DEF OfCall
    <3>3. OfCall(h, i, results[h][i]).by = OfCall(k, j, results[k][j]).by
      BY <3>2
    <3> QED
      BY <3>3 DEF OfCall
  <2> QED
    BY <2>1, <2>2 DEF AttestedOnce
<1> QED
  BY <1>1, DiscInvariance, PTL

(* A restart, a lost answer or a late commit never charges a user for a    *)
(* query that is not on the ledger, nor twice for one that is.             *)
THEOREM ChargedOnlyIfRecorded == Spec => []OnlyRecordedQueriesCharged
<1>1. DiscInv => OnlyRecordedQueriesCharged
  <2> SUFFICES ASSUME DiscInv, NEW u \in Users
               PROVE  queryCount[u] <=
                         Cardinality({q \in queries : form[q].user = u})
    BY DEF OnlyRecordedQueriesCharged
  <2> DEFINE recorded == {q \in queries : form[q].user = u}
  <2>1. ChargedFor(u) \subseteq recorded
    BY DEF ChargedFor
  <2>2. IsFiniteSet(recorded)
    <3>1. recorded \subseteq Requests
      BY DEF DiscInv, TypeOK
    <3> QED
      BY <3>1, FormsAssumption, FS_Subset
  <2> HIDE DEF recorded
  <2>3. /\ Cardinality(ChargedFor(u)) \in Nat /\ Cardinality(recorded) \in Nat
        /\ Cardinality(ChargedFor(u)) <= Cardinality(recorded)
    BY <2>1, <2>2, MoreCharged
  <2>4. queryCount[u] <= Cardinality(ChargedFor(u)) /\ queryCount[u] \in Int
    BY DEF DiscInv, TypeOK, Charged
  <2>5. queryCount[u] <= Cardinality(recorded)
    BY <2>3, <2>4
  <2> QED
    BY <2>5 DEF recorded
<1> QED
  BY <1>1, DiscInvariance, PTL

-----------------------------------------------------------------------------
(* No submission without its charge.                                       *)

LEMMA SubmittedFinite ==
    ASSUME NEW u
    PROVE  IsFiniteSet(Submitted(u)) /\ Cardinality(Submitted(u)) \in Nat
<1>1. Submitted(u) \subseteq Requests
  BY DEF Submitted
<1> QED
  BY <1>1, FormsAssumption, FS_Subset, FS_CardinalityType

(* Steps that get no further query past its submit.                        *)
LEMMA NoneSubmitted ==
    ASSUME DiscInv, EverySubmissionIsCharged, queryCount' = queryCount,
           \A u \in Users : Submitted(u)' \subseteq Submitted(u)
    PROVE  EverySubmissionIsCharged'
<1> SUFFICES ASSUME NEW u \in Users
             PROVE  Cardinality(Submitted(u)') <= queryCount[u]
  BY DEF EverySubmissionIsCharged
<1>1. Cardinality(Submitted(u)) <= queryCount[u] /\ queryCount[u] \in Int
  BY DEF EverySubmissionIsCharged, DiscInv, TypeOK
<1>2. /\ Cardinality(Submitted(u)') \in Nat /\ Cardinality(Submitted(u)) \in Nat
      /\ Cardinality(Submitted(u)') <= Cardinality(Submitted(u))
  BY SubmittedFinite, MoreCharged
<1> QED
  BY <1>1, <1>2

(* The one step that does charges for it.                                  *)
LEMMA SubmittedIsCharged ==
    ASSUME DiscInv, EverySubmissionIsCharged, NEW h \in Requests,
           QuerySubmitted(h)
    PROVE  EverySubmissionIsCharged'
<1> SUFFICES ASSUME NEW u \in Users
             PROVE  Cardinality(Submitted(u)') <= queryCount'[u]
  BY DEF EverySubmissionIsCharged
<1>1. /\ pc[h] = "submitting" /\ h \in Handlers
      /\ queryCount' = [queryCount EXCEPT ![form[h].user] = @ + 1]
      /\ pc' = [pc EXCEPT ![h] = "calling"]
      /\ UNCHANGED <<form, answer, forgiven>>
  BY DEF QuerySubmitted, IncrementQueryCount, Work, Handlers
<1>2. /\ pc \in [Handlers -> Stages]
      /\ queryCount \in [Users -> 0..Cardinality(Requests)]
      /\ queryCount[u] \in Int
      /\ Cardinality(Submitted(u)) <= queryCount[u]
  BY DEF EverySubmissionIsCharged, DiscInv, TypeOK, Stages
<1>3. \A k \in Requests : k \in Handlers /\ (k # h => pc'[k] = pc[k])
  BY <1>1, <1>2 DEF Handlers
<1>4. CASE form[h].user = u
  <2>1. Submitted(u)' \subseteq Submitted(u) \cup {h}
    BY <1>1, <1>3 DEF Submitted
  <2>2. /\ IsFiniteSet(Submitted(u) \cup {h})
        /\ Cardinality(Submitted(u) \cup {h}) \in Nat
        /\ Cardinality(Submitted(u) \cup {h}) <= Cardinality(Submitted(u)) + 1
    <3>1. IsFiniteSet(Submitted(u)) /\ Cardinality(Submitted(u)) \in Nat
      BY SubmittedFinite
    <3>2. /\ IsFiniteSet(Submitted(u) \cup {h})
          /\ \/ Cardinality(Submitted(u) \cup {h}) = Cardinality(Submitted(u))
             \/ Cardinality(Submitted(u) \cup {h})
                    = Cardinality(Submitted(u)) + 1
      BY <3>1, FS_AddElement
    <3> QED
      BY <3>1, <3>2
  <2>3. /\ Cardinality(Submitted(u)') \in Nat
        /\ Cardinality(Submitted(u)') <= Cardinality(Submitted(u) \cup {h})
    BY <2>1, <2>2, MoreCharged
  <2>4. queryCount'[u] = queryCount[u] + 1
    BY <1>1, <1>2, <1>4
  <2> QED
    BY <1>2, <2>2, <2>3, <2>4, SubmittedFinite
<1>5. CASE form[h].user # u
  <2>1. Submitted(u)' \subseteq Submitted(u)
    BY <1>1, <1>3, <1>5 DEF Submitted
  <2>2. /\ Cardinality(Submitted(u)') \in Nat /\ Cardinality(Submitted(u)) \in Nat
        /\ Cardinality(Submitted(u)') <= Cardinality(Submitted(u))
    BY <2>1, SubmittedFinite, MoreCharged
  <2>3. queryCount'[u] = queryCount[u]
    BY <1>1, <1>2, <1>5
  <2> QED
    BY <1>2, <2>2, <2>3
<1> QED
  BY <1>4, <1>5

LEMMA ChargesNext ==
    ASSUME DiscInv, EverySubmissionIsCharged, [Next]_vars
    PROVE  EverySubmissionIsCharged'
<1>1. /\ pc \in [Handlers -> Stages] /\ answer \in [Handlers -> Statuses]
      /\ form \in [Handlers -> QueryForms \cup RetryForms \cup {None}]
      /\ \A h \in Requests : h \in Handlers
      /\ \A h \in Retries : h \notin Requests
      /\ \A h \in Handlers : answer[h] # 0 => pc[h] = "done"
  BY FormsAssumption DEF DiscInv, TypeOK, Filled, Told, Stages, Statuses,
       Handlers
<1>2. ASSUME UNCHANGED <<pc, form, answer, queryCount, forgiven>>
      PROVE  EverySubmissionIsCharged'
  BY <1>2 DEF EverySubmissionIsCharged, Submitted
<1>3. ASSUME NEW h \in Requests, PostQuery(h)
      PROVE  EverySubmissionIsCharged'
  <2>1. /\ pc[h] = "idle" /\ UNCHANGED <<queryCount, forgiven>>
        /\ \E f \in QueryForms : form' = [form EXCEPT ![h] = f]
        /\ \/ pc' = [pc EXCEPT ![h] = "submitting"] /\ answer' = answer
           \/ \E status \in {400, 403, 404, 409, 422, 429} :
                 Answer(h, status)
    <3>1. PICK f \in QueryForms :
             /\ form' = [form EXCEPT ![h] = f]
             /\ IF Refusal(f) # 0 THEN Answer(h, Refusal(f))
                ELSE /\ pc' = [pc EXCEPT ![h] = "submitting"]
                     /\ UNCHANGED answer
      BY <1>3 DEF PostQuery
    <3>2. f.caseError \in {0, 403, 404, 409}
      BY FormsAssumption
    <3>3. Refusal(f) \in {0, 400, 403, 404, 409, 422, 429}
      BY <3>2 DEF Refusal
    <3>4. pc[h] = "idle" /\ UNCHANGED <<queryCount, forgiven>>
      BY <1>3 DEF PostQuery
    <3>5. CASE Refusal(f) = 0
      <4>1. pc' = [pc EXCEPT ![h] = "submitting"] /\ answer' = answer
        BY <3>1, <3>5
      <4> QED
        BY <3>1, <3>4, <4>1
    <3>6. CASE Refusal(f) # 0
      <4>1. \E status \in {400, 403, 404, 409, 422, 429} : Answer(h, status)
        BY <3>1, <3>3, <3>6
      <4> QED
        BY <3>1, <3>4, <4>1
    <3> QED
      BY <3>5, <3>6
  <2>2. \A k \in Handlers : k # h =>
           /\ pc'[k] = pc[k] /\ form'[k] = form[k] /\ answer'[k] = answer[k]
    BY <1>1, <2>1 DEF Answer
  <2>3. pc'[h] \in {"submitting", "done"} /\ answer'[h] \notin {201, 207}
    BY <1>1, <2>1 DEF Answer
  <2> QED
    BY <1>1, <2>1, <2>2, <2>3, NoneSubmitted DEF Submitted
<1>4. ASSUME NEW h \in Retries, PostRetry(h)
      PROVE  EverySubmissionIsCharged'
  <2>1. UNCHANGED <<queryCount, forgiven>>
    BY <1>4 DEF PostRetry
  <2>2. \A k \in Requests :
           /\ pc'[k] = pc[k] /\ form'[k] = form[k] /\ answer'[k] = answer[k]
    BY <1>1, <1>4 DEF PostRetry, Answer
  <2> QED
    BY <2>1, <2>2, NoneSubmitted DEF Submitted
<1>5. ASSUME NEW h \in Handlers,
             \/ QuerySubmitFails(h) \/ CallAdapter(h) \/ AdapterAnswers(h)
             \/ AdapterTimesOut(h) \/ Respond(h)
      PROVE  EverySubmissionIsCharged'
  <2>1. /\ UNCHANGED <<form, queryCount, forgiven>>
        /\ \A k \in Handlers : k # h =>
              pc'[k] = pc[k] /\ answer'[k] = answer[k]
    BY <1>1, <1>5 DEF QuerySubmitFails, CallAdapter, AdapterAnswers,
         AdapterTimesOut, Respond, Answer, Work
  <2>2. \/ pc[h] \in {"calling", "waiting"}
        \/ pc'[h] = "done" /\ answer'[h] = 503
    BY <1>1, <1>5 DEF QuerySubmitFails, CallAdapter, AdapterAnswers,
         AdapterTimesOut, Respond, Answer
  <2> QED
    BY <1>1, <2>1, <2>2, NoneSubmitted DEF Submitted
<1>6. ASSUME NEW h \in Handlers, QuerySubmitted(h)
      PROVE  EverySubmissionIsCharged'
  <2>1. h \in Requests
    BY <1>6 DEF QuerySubmitted, DiscInv, TypeOK
  <2> QED
    BY <1>6, <2>1, SubmittedIsCharged
<1>7. CASE GatewayRestarts
  <2>1. /\ UNCHANGED <<form, answer, queryCount, forgiven>>
        /\ \A k \in Handlers : pc'[k] = pc[k] \/ pc'[k] = "aborted"
    BY <1>1, <1>7 DEF GatewayRestarts, Work
  <2> QED
    BY <1>1, <2>1, NoneSubmitted DEF Submitted
<1>8. CASE ResetDemo
  <2>1. /\ UNCHANGED <<pc, form, answer>>
        /\ forgiven' = {h \in Requests : pc[h] # "idle"}
        /\ \A u \in Users : queryCount'[u] = 0
    BY <1>8 DEF ResetDemo, Work
  <2>2. \A u \in Users : Submitted(u)' = {}
    BY <1>1, <2>1 DEF Submitted
  <2> QED
    BY <2>1, <2>2, FS_EmptySet DEF EverySubmissionIsCharged
<1>9. ASSUME NEW h \in Handlers, NEW i \in Positions,
             \/ Match(h, i) \/ AttestCommits(h, i)
             \/ AttestReturns(h, i) \/ MatchFails(h, i)
      PROVE  EverySubmissionIsCharged'
  BY <1>2, <1>9 DEF Match, AttestCommits, AttestReturns, MatchFails, Work
<1>10. CASE \E h \in Requests : QueryCommits(h)
  BY <1>2, <1>10 DEF QueryCommits, Work
<1>11. CASE UNCHANGED vars
  BY <1>2, <1>11 DEF vars
<1> QED
  BY <1>3, <1>4, <1>5, <1>6, <1>7, <1>8, <1>9, <1>10, <1>11
     DEF Next, GatewayStep

(* Whatever races with a demo reset, no query posted after it gets past    *)
(* its submit uncharged, for any number of queries of any number of users. *)
THEOREM SubmissionsAreCharged == Spec => []EverySubmissionIsCharged
<1>1. Init => EverySubmissionIsCharged
  <2> SUFFICES ASSUME Init, NEW u \in Users
               PROVE  Cardinality(Submitted(u)) <= queryCount[u]
    BY DEF EverySubmissionIsCharged
  <2>1. Submitted(u) = {}
    BY DEF Init, Submitted, Handlers
  <2> QED
    BY <2>1, FS_EmptySet DEF Init
<1>2. DiscInv /\ EverySubmissionIsCharged /\ [Next]_vars
          => EverySubmissionIsCharged'
  BY ChargesNext
<1> QED
  BY <1>1, <1>2, DiscInvariance, PTL DEF Spec

-----------------------------------------------------------------------------
(* What a handler was asked stays what it was asked.                       *)

LEMMA FormsStay ==
    ASSUME DiscInv, [Next]_vars, NEW k \in Handlers, pc[k] # "idle"
    PROVE  pc'[k] # "idle" /\ form'[k] = form[k]
<1>1. /\ pc \in [Handlers -> Stages]
      /\ form \in [Handlers -> QueryForms \cup RetryForms \cup {None}]
  BY DEF DiscInv, TypeOK, Filled, Stages
<1>2. ASSUME NEW h \in Handlers, PostQuery(h) \/ PostRetry(h)
      PROVE  pc'[k] # "idle" /\ form'[k] = form[k]
  BY <1>1, <1>2 DEF PostQuery, PostRetry, Answer
<1>3. ASSUME NEW h \in Handlers, GatewayStep(h)
      PROVE  pc'[k] # "idle" /\ form'[k] = form[k]
  BY <1>1, <1>3 DEF GatewayStep, QuerySubmitted, QuerySubmitFails, CallAdapter,
       AdapterAnswers, AdapterTimesOut, Respond, Answer, Work
<1>4. ASSUME NEW h \in Handlers, NEW i \in Positions,
             \/ QueryCommits(h) \/ Match(h, i) \/ AttestCommits(h, i)
             \/ AttestReturns(h, i) \/ MatchFails(h, i)
      PROVE  pc'[k] # "idle" /\ form'[k] = form[k]
  BY <1>4 DEF QueryCommits, Match, AttestCommits, AttestReturns, MatchFails, Work
<1>5. CASE \E h \in Requests : QueryCommits(h)
  BY <1>5 DEF QueryCommits, Work
<1>6. CASE GatewayRestarts \/ ResetDemo \/ UNCHANGED vars
  BY <1>6 DEF GatewayRestarts, ResetDemo, vars, Work
<1> QED
  BY <1>2, <1>3, <1>4, <1>5, <1>6 DEF Next, Handlers

(* A run that has begun is not taken back.                                 *)
LEMMA RunsStay ==
    ASSUME DiscInv, [Next]_vars,
           NEW k \in Handlers, NEW j \in Positions, job[k][j].pc # "unsent"
    PROVE  job'[k][j].pc # "unsent"
<1>1. job \in [Handlers -> [Positions -> Job]]
  BY JobsTyped
<1>2. ASSUME NEW h \in Handlers, CallAdapter(h)
      PROVE  job'[k][j].pc # "unsent"
  <2> DEFINE n == NextPosition(h)
  <2>1. job' = job \/ job' = [job EXCEPT ![h][n].pc = "sent"]
    BY <1>2 DEF CallAdapter
  <2>2. n \in Positions
    BY <1>2, FormFits DEF CallAdapter
  <2> HIDE DEF n
  <2>3. CASE job' = job
    BY <2>3
  <2>4. CASE job' = [job EXCEPT ![h][n].pc = "sent"]
    <3>1. job[h][n] \in Job /\ job[k][j] \in Job
      BY <1>1, <2>2
    <3>2. PICK c : c = [job[h][n] EXCEPT !.pc = "sent"]
      OBVIOUS
    <3>3. job' = [job EXCEPT ![h][n] = c]
      BY <2>4, <3>2
    <3>4. job'[k][j] = IF k = h /\ j = n THEN c ELSE job[k][j]
      BY <1>1, <2>2, <3>3
    <3> QED
      BY <3>1, <3>2, <3>4 DEF Job
  <2> QED
    BY <2>1, <2>3, <2>4
<1>3. ASSUME NEW h \in Handlers, NEW i \in Positions,
             AttestReturns(h, i) \/ MatchFails(h, i)
      PROVE  job'[k][j].pc # "unsent"
  <2>1. \E stage \in {"ok", "error"} : job' = [job EXCEPT ![h][i].pc = stage]
    BY <1>3 DEF AttestReturns, MatchFails
  <2> QED
    BY <1>1, <2>1 DEF Job
<1>4. ASSUME NEW h \in Handlers, NEW i \in Positions, Match(h, i)
      PROVE  job'[k][j].pc # "unsent"
  BY <1>1, <1>4 DEF Match
<1>5. ASSUME NEW h \in Handlers, NEW i \in Positions, AttestCommits(h, i)
      PROVE  job' = job
  BY <1>5 DEF AttestCommits, Adapters
<1>6. CASE GatewayRestarts \/ ResetDemo \/ UNCHANGED vars
  BY <1>6 DEF GatewayRestarts, ResetDemo, vars, Adapters
<1>7. ASSUME NEW h \in Handlers,
             \/ PostQuery(h) \/ QueryCommits(h) \/ PostRetry(h)
             \/ QuerySubmitted(h) \/ QuerySubmitFails(h)
             \/ AdapterAnswers(h) \/ AdapterTimesOut(h) \/ Respond(h)
      PROVE  job' = job
  BY <1>7 DEF PostQuery, QueryCommits, PostRetry, QuerySubmitted,
       QuerySubmitFails, AdapterAnswers, AdapterTimesOut, Respond, Adapters
<1> QED
  BY <1>2, <1>3, <1>4, <1>5, <1>6, <1>7 DEF Next, GatewayStep, Handlers

LEMMA AskedStays ==
    ASSUME DiscInv, [Next]_vars, NEW q, NEW p
    PROVE  TokensAsked(q, p) \subseteq TokensAsked(q, p)'
<1> SUFFICES ASSUME NEW k \in Handlers, NEW i \in Positions,
                    job[k][i].pc # "unsent",
                    QueryOf(k) = q, Target(k, i) = p
             PROVE  form[k].token \in TokensAsked(q, p)'
  BY DEF TokensAsked
<1>1. pc[k] # "idle"
  BY DEF DiscInv, Reached
<1>2. form'[k] = form[k]
  BY <1>1, FormsStay
<1>3. QueryOf(k)' = q /\ Target(k, i)' = p
  BY <1>2 DEF QueryOf, Target
<1>4. job'[k][i].pc # "unsent"
  BY RunsStay
<1> QED
  BY <1>2, <1>3, <1>4 DEF TokensAsked

-----------------------------------------------------------------------------
(* The mapping from query to record.                                       *)

(* A mapped token is one asked for, and whoever has a result has a mapping.*)
Mapped ==
    /\ \A p \in Orgs, q \in Requests :
          queryMatch[p][q] # None => queryMatch[p][q] \in TokensAsked(q, p)
    /\ \A h \in Handlers, i \in Positions :
          job[h][i].result # None => queryMatch[Target(h, i)][QueryOf(h)] # None

(* Only Match writes mappings and results.                                 *)
LEMMA ResultsStay ==
    ASSUME DiscInv, [Next]_vars,
           ~\E h \in Handlers, i \in Positions : Match(h, i)
    PROVE  /\ queryMatch' = queryMatch
           /\ \A h \in Handlers, i \in Positions :
                 job'[h][i].result = job[h][i].result
<1>1. job \in [Handlers -> [Positions -> Job]]
  BY JobsTyped
<1>2. ASSUME NEW h \in Handlers, CallAdapter(h)
      PROVE  /\ queryMatch' = queryMatch
             /\ \A k \in Handlers, i \in Positions :
                   job'[k][i].result = job[k][i].result
  <2>1. job' = job \/ job' = [job EXCEPT ![h][NextPosition(h)].pc = "sent"]
    BY <1>2 DEF CallAdapter
  <2> QED
    BY <1>1, <1>2, <2>1 DEF CallAdapter, Job
<1>3. ASSUME NEW h \in Handlers, NEW i \in Positions,
             AttestReturns(h, i) \/ MatchFails(h, i)
      PROVE  /\ queryMatch' = queryMatch
             /\ \A k \in Handlers, j \in Positions :
                   job'[k][j].result = job[k][j].result
  <2>1. /\ queryMatch' = queryMatch
        /\ \E stage \in {"ok", "error"} :
              job' = [job EXCEPT ![h][i].pc = stage]
    BY <1>3 DEF AttestReturns, MatchFails
  <2> PICK stage \in {"ok", "error"} : job' = [job EXCEPT ![h][i].pc = stage]
    BY <2>1
  <2>2. job[h][i] \in Job
    BY <1>1
  <2>3. \A k \in Handlers, j \in Positions :
           job'[k][j] = IF k = h /\ j = i THEN [job[k][j] EXCEPT !.pc = stage]
                                          ELSE job[k][j]
    BY <1>1
  <2>4. job'[h][i].result = job[h][i].result
    BY <2>2, <2>3 DEF Job
  <2> QED
    BY <2>1, <2>3, <2>4
<1>4. ASSUME NEW h \in Handlers, NEW i \in Positions,
             \/ PostQuery(h) \/ QueryCommits(h) \/ PostRetry(h)
             \/ QuerySubmitted(h) \/ QuerySubmitFails(h)
             \/ AdapterAnswers(h) \/ AdapterTimesOut(h) \/ Respond(h)
             \/ AttestCommits(h, i)
      PROVE  UNCHANGED <<job, queryMatch>>
  BY <1>4 DEF PostQuery, QueryCommits, PostRetry, QuerySubmitted,
       QuerySubmitFails, AdapterAnswers, AdapterTimesOut, Respond,
       AttestCommits, Adapters
<1>5. CASE GatewayRestarts \/ ResetDemo \/ UNCHANGED vars
  BY <1>5 DEF GatewayRestarts, ResetDemo, vars, Adapters
<1>6. CASE \E h \in Handlers :
              \/ PostQuery(h) \/ QueryCommits(h) \/ PostRetry(h)
              \/ QuerySubmitted(h) \/ QuerySubmitFails(h)
              \/ AdapterAnswers(h) \/ AdapterTimesOut(h) \/ Respond(h)
  BY <1>6 DEF PostQuery, QueryCommits, PostRetry, QuerySubmitted,
       QuerySubmitFails, AdapterAnswers, AdapterTimesOut, Respond, Adapters
<1> QED
  BY <1>2, <1>3, <1>4, <1>5, <1>6 DEF Next, GatewayStep, Handlers

LEMMA MappedNext ==
    ASSUME DiscInv, Mapped, [Next]_vars PROVE Mapped'
<1>1. \A h \in Handlers, i \in Positions : job[h][i].result # None =>
         /\ pc[h] # "idle"
         /\ QueryOf(h)' = QueryOf(h) /\ Target(h, i)' = Target(h, i)
  <2> SUFFICES ASSUME NEW h \in Handlers, NEW i \in Positions,
                      job[h][i].result # None
               PROVE  /\ pc[h] # "idle"
                      /\ QueryOf(h)' = QueryOf(h)
                      /\ Target(h, i)' = Target(h, i)
    OBVIOUS
  <2>1. pc[h] # "idle"
    BY DEF DiscInv, Backed, Reached
  <2> QED
    BY <2>1, FormsStay DEF QueryOf, Target
<1>2. CASE ~\E h \in Handlers, i \in Positions : Match(h, i)
  BY <1>1, <1>2, ResultsStay, AskedStays DEF Mapped
<1>3. ASSUME NEW h \in Handlers, NEW i \in Positions, Match(h, i)
      PROVE  Mapped'
  <2> DEFINE p == Target(h, i)
             q == QueryOf(h)
  <2>1. /\ job[h][i].pc = "sent"
        /\ queryMatch' = [queryMatch EXCEPT
               ![p][q] = IF @ = None THEN form[h].token ELSE @]
        /\ job' = [job EXCEPT ![h][i] =
               [pc |-> "submitting", result |-> Matched(p, form[h].token)]]
        /\ UNCHANGED <<pc, form>>
    BY <1>3 DEF Match, Work
  <2>2. pc[h] # "idle" /\ i \in DOMAIN form[h].targets
    BY <2>1 DEF DiscInv, Reached
  <2>3. /\ p \in Orgs /\ q \in Requests
        /\ form[h].token \in Tokens /\ form[h].token # None
    BY <2>2, FormFits, FormsAssumption DEF Target
  <2>4. /\ queryMatch \in [Orgs -> [Requests -> Tokens \cup {None}]]
        /\ job \in [Handlers -> [Positions -> Job]]
    BY JobsTyped DEF DiscInv, TypeOK
  <2>5. form[h].token \in TokensAsked(q, p)
    BY <2>1 DEF TokensAsked
  <2>6. \A o \in Orgs, r \in Requests :
           /\ \/ queryMatch'[o][r] = queryMatch[o][r]
              \/ o = p /\ r = q /\ queryMatch'[o][r] = form[h].token
           /\ queryMatch[o][r] # None => queryMatch'[o][r] = queryMatch[o][r]
    <3>1. \A o \in Orgs, r \in Requests :
             queryMatch'[o][r] =
                 IF o = p /\ r = q
                 THEN IF queryMatch[p][q] = None THEN form[h].token
                                                 ELSE queryMatch[p][q]
                 ELSE queryMatch[o][r]
      BY <2>1, <2>3, <2>4
    <3> QED
      BY <3>1
  <2>7. queryMatch'[p][q] # None
    BY <2>1, <2>3, <2>4
  <2>8. \A o \in Orgs, r \in Requests :
           queryMatch'[o][r] # None =>
               queryMatch'[o][r] \in TokensAsked(r, o)'
    <3>1. \A o, r : TokensAsked(r, o) \subseteq TokensAsked(r, o)'
      BY AskedStays
    <3> QED
      BY <2>5, <2>6, <3>1 DEF Mapped
  <2>9. ASSUME NEW k \in Handlers, NEW j \in Positions,
               job'[k][j].result # None
        PROVE  queryMatch'[Target(k, j)][QueryOf(k)] # None
    <3>1. CASE k = h /\ j = i
      BY <2>7, <3>1
    <3>2. CASE k # h \/ j # i
      <4>1. job[k][j].result # None
        BY <2>1, <2>4, <2>9, <3>2
      <4>2. pc[k] # "idle" /\ j \in DOMAIN form[k].targets
        BY <4>1 DEF DiscInv, Backed, Reached
      <4>3. Target(k, j) \in Orgs /\ QueryOf(k) \in Requests
        BY <4>2, FormFits DEF Target
      <4> QED
        BY <2>6, <4>1, <4>3 DEF Mapped
    <3> QED
      BY <3>1, <3>2
  <2>10. \A k \in Handlers, j \in Positions :
            Target(k, j)' = Target(k, j) /\ QueryOf(k)' = QueryOf(k)
    BY <2>1 DEF Target, QueryOf
  <2> QED
    BY <2>8, <2>9, <2>10 DEF Mapped
<1> QED
  BY <1>2, <1>3

(* A result is the lookup of the token that came with the call.            *)
LookedUp ==
    \A h \in Handlers, i \in Positions : job[h][i].result # None =>
        job[h][i].result = Matched(Target(h, i), form[h].token)

LEMMA LookedUpNext ==
    ASSUME DiscInv, LookedUp, [Next]_vars PROVE LookedUp'
<1>1. \A h \in Handlers, i \in Positions : job[h][i].pc # "unsent" =>
         form'[h] = form[h] /\ Target(h, i)' = Target(h, i)
  <2> SUFFICES ASSUME NEW h \in Handlers, NEW i \in Positions,
                      job[h][i].pc # "unsent"
               PROVE  form'[h] = form[h] /\ Target(h, i)' = Target(h, i)
    OBVIOUS
  <2>1. pc[h] # "idle"
    BY DEF DiscInv, Reached
  <2> QED
    BY <2>1, FormsStay DEF Target
<1>2. \A h \in Handlers, i \in Positions :
         job[h][i].result # None => job[h][i].pc # "unsent"
  BY DEF DiscInv, Backed
<1>3. CASE ~\E h \in Handlers, i \in Positions : Match(h, i)
  BY <1>1, <1>2, <1>3, ResultsStay DEF LookedUp, Matched
<1>4. ASSUME NEW h \in Handlers, NEW i \in Positions, Match(h, i)
      PROVE  LookedUp'
  <2>1. /\ job[h][i].pc = "sent"
        /\ job' = [job EXCEPT ![h][i] =
               [pc |-> "submitting",
                result |-> Matched(Target(h, i), form[h].token)]]
        /\ form' = form
    BY <1>4 DEF Match, Work
  <2>2. job \in [Handlers -> [Positions -> Job]]
    BY JobsTyped
  <2>3. job'[h][i].result = Matched(Target(h, i), form[h].token)
    BY <2>1, <2>2
  <2>4. \A k \in Handlers, j \in Positions :
           k # h \/ j # i => job'[k][j] = job[k][j]
    BY <2>1, <2>2
  <2>5. \A k \in Handlers, j \in Positions : Target(k, j)' = Target(k, j)
    BY <2>1 DEF Target
  <2> QED
    BY <2>1, <2>3, <2>4, <2>5 DEF LookedUp, Matched
<1> QED
  BY <1>3, <1>4

(* Whatever retries ask for: a provider attests to what its own call asked *)
(* about, and has mapped what a call of this query asked it about.         *)
THEOREM MappedToWhatWasAsked == Spec => []AttestedTokenIsMapped
<1>1. Init => Mapped /\ LookedUp
  BY DEF Init, Mapped, LookedUp, Unsent
<1>2. DiscInv /\ Mapped /\ LookedUp /\ [Next]_vars => Mapped' /\ LookedUp'
  BY MappedNext, LookedUpNext
<1>3. DiscInv /\ Mapped /\ LookedUp => AttestedTokenIsMapped
  <2> SUFFICES ASSUME DiscInv, Mapped, LookedUp, NEW a \in attestations
               PROVE  /\ a.result = Matched(a.provider, form[a.by[1]].token)
                      /\ form[a.by[1]].token
                             \in TokensAsked(a.query, a.provider)
                      /\ queryMatch[a.provider][a.query]
                             \in TokensAsked(a.query, a.provider)
    BY DEF AttestedTokenIsMapped
  <2>1. /\ a.by \in Handlers \X Positions
        /\ a.query \in Requests /\ a.provider \in Orgs
        /\ a.result \in Verdicts
    BY DEF DiscInv, TypeOK, Verdicts
  <2> PICK h \in Handlers, i \in Positions : a.by = <<h, i>>
    BY <2>1
  <2>2. /\ a = OfCall(h, i, job[h][i].result)
        /\ job[h][i].pc # "unsent"
    BY DEF DiscInv, Signed
  <2>3. /\ a.query = QueryOf(h) /\ a.provider = Target(h, i)
        /\ a.result = job[h][i].result
    BY <2>2 DEF OfCall
  <2>4. job[h][i].result # None
    BY <2>1, <2>3, FormsAssumption DEF Verdicts
  <2>5. form[h].token \in TokensAsked(a.query, a.provider)
    BY <2>2, <2>3 DEF TokensAsked
  <2>6. a.result = Matched(a.provider, form[h].token)
    BY <2>3, <2>4 DEF LookedUp
  <2>7. queryMatch[a.provider][a.query] \in TokensAsked(a.query, a.provider)
    BY <2>1, <2>3, <2>4 DEF Mapped
  <2> QED
    BY <2>5, <2>6, <2>7
<1> QED
  BY <1>1, <1>2, <1>3, DiscInvariance, PTL DEF Spec

(* Every retry so far has repeated the identifier of its query.            *)
SameIdentifier ==
    \A h \in Retries : pc[h] # "idle" /\ form[h].query \in queries =>
        form[h].token = form[form[h].query].token

(* What is on the ledger is what the mapped record says: a disclosure is   *)
(* about the very record the provider attested to.                         *)
AttestedIsMapped ==
    \A a \in attestations :
        /\ queryMatch[a.provider][a.query] = form[a.query].token
        /\ a.result = Matched(a.provider, queryMatch[a.provider][a.query])

(* As long as nobody retries with another identifier, the record a         *)
(* provider attested to is the one it would disclose.                      *)
THEOREM RepeatedIdentifierIsMapped ==
    Spec /\ []SameIdentifier => []AttestedIsMapped
<1>1. DiscInv /\ AttestedTokenIsMapped /\ SameIdentifier => AttestedIsMapped
  <2> SUFFICES ASSUME DiscInv, AttestedTokenIsMapped, SameIdentifier,
                      NEW a \in attestations
               PROVE  /\ queryMatch[a.provider][a.query] = form[a.query].token
                      /\ a.result = Matched(a.provider, form[a.query].token)
    BY DEF AttestedIsMapped
  <2>1. \A t \in TokensAsked(a.query, a.provider) : t = form[a.query].token
    <3> SUFFICES ASSUME NEW k \in Handlers, NEW i \in Positions,
                        job[k][i].pc # "unsent", QueryOf(k) = a.query
                 PROVE  form[k].token = form[a.query].token
      BY DEF TokensAsked
    <3>1. pc[k] # "idle" /\ a.query \in queries
      BY DEF DiscInv, Reached
    <3> QED
      BY <3>1 DEF SameIdentifier, QueryOf, Handlers
  <2>2. /\ a.result = Matched(a.provider, form[a.by[1]].token)
        /\ form[a.by[1]].token \in TokensAsked(a.query, a.provider)
        /\ queryMatch[a.provider][a.query]
               \in TokensAsked(a.query, a.provider)
    BY DEF AttestedTokenIsMapped
  <2> QED
    BY <2>1, <2>2
<1> QED
  BY <1>1, DiscInvariance, MappedToWhatWasAsked, PTL

-----------------------------------------------------------------------------
(* The ledger under discovery.                                             *)

(* A call that was made is to a provider that its query targeted.          *)
Targeted ==
    \A h \in Handlers, i \in Positions :
        job[h][i].pc # "unsent" => Target(h, i) \in Targets(QueryOf(h))

(* A recorded query keeps its form.                                        *)
LEMMA RecordedStay ==
    ASSUME DiscInv, [Next]_vars, NEW q \in queries
    PROVE  /\ form'[q] = form[q]
           /\ Targets(q)' = Targets(q)
           /\ QueryRecord(q)' = QueryRecord(q)
<1>1. q \in Handlers /\ pc[q] # "idle"
  BY DEF DiscInv, TypeOK, Fresh, Handlers
<1>2. form'[q] = form[q]
  BY <1>1, FormsStay
<1> QED
  BY <1>2 DEF Targets, QueryRecord, Record

(* A call gets under way only in CallAdapter, which looks at the targets.  *)
LEMMA CallsStart ==
    ASSUME DiscInv, [Next]_vars, NEW k \in Handlers, NEW j \in Positions,
           job'[k][j].pc # "unsent"
    PROVE  \/ job[k][j].pc # "unsent"
           \/ /\ pc[k] = "calling" /\ j \in DOMAIN form[k].targets
              /\ RetryRefusal(k, Target(k, j)) = 0
<1>1. job \in [Handlers -> [Positions -> Job]]
  BY JobsTyped
<1>2. ASSUME NEW h \in Handlers, CallAdapter(h)
      PROVE  \/ job[k][j].pc # "unsent"
             \/ /\ pc[k] = "calling" /\ j \in DOMAIN form[k].targets
                /\ RetryRefusal(k, Target(k, j)) = 0
  <2>1. CASE job' = job
    BY <2>1
  <2>2. CASE job' # job
    <3>1. /\ pc[h] = "calling" /\ NextPosition(h) \in DOMAIN form[h].targets
          /\ RetryRefusal(h, Target(h, NextPosition(h))) = 0
          /\ job' = [job EXCEPT ![h][NextPosition(h)].pc = "sent"]
      BY <1>2, <2>2 DEF CallAdapter
    <3>2. k # h \/ j # NextPosition(h) => job'[k][j] = job[k][j]
      BY <1>1, <3>1
    <3> QED
      BY <3>1, <3>2
  <2> QED
    BY <2>1, <2>2
<1>3. ASSUME NEW h \in Handlers, NEW i \in Positions,
             Match(h, i) \/ AttestReturns(h, i) \/ MatchFails(h, i)
      PROVE  job[k][j].pc # "unsent"
  <2>1. /\ job[h][i].pc # "unsent"
        /\ \E new : job' = [job EXCEPT ![h][i] = new]
    BY <1>3 DEF Match, AttestReturns, MatchFails
  <2>2. k # h \/ j # i => job'[k][j] = job[k][j]
    BY <1>1, <2>1
  <2> QED
    BY <2>1, <2>2
<1>4. CASE UNCHANGED job
  BY <1>4
<1>5. ASSUME NEW h \in Handlers, NEW i \in Positions, AttestCommits(h, i)
      PROVE  UNCHANGED job
  BY <1>5 DEF AttestCommits, Adapters
<1>6. CASE GatewayRestarts \/ ResetDemo \/ UNCHANGED vars
  BY <1>6 DEF GatewayRestarts, ResetDemo, vars, Adapters
<1>7. CASE \E h \in Handlers :
              \/ PostQuery(h) \/ QueryCommits(h) \/ PostRetry(h)
              \/ QuerySubmitted(h) \/ QuerySubmitFails(h)
              \/ AdapterAnswers(h) \/ AdapterTimesOut(h) \/ Respond(h)
  BY <1>7 DEF PostQuery, QueryCommits, PostRetry, QuerySubmitted,
       QuerySubmitFails, AdapterAnswers, AdapterTimesOut, Respond, Adapters
<1> QED
  BY <1>2, <1>3, <1>4, <1>5, <1>6, <1>7 DEF Next, GatewayStep, Handlers

LEMMA TargetedNext ==
    ASSUME DiscInv, Targeted, [Next]_vars PROVE Targeted'
<1> SUFFICES ASSUME NEW h \in Handlers, NEW i \in Positions,
                    job'[h][i].pc # "unsent"
             PROVE  Target(h, i)' \in Targets(QueryOf(h))'
  BY DEF Targeted
<1>1. Target(h, i) \in Targets(QueryOf(h)) /\ QueryOf(h) \in queries
  <2>1. CASE job[h][i].pc # "unsent"
    BY <2>1 DEF Targeted, DiscInv, Reached
  <2>2. CASE /\ pc[h] = "calling" /\ i \in DOMAIN form[h].targets
             /\ RetryRefusal(h, Target(h, i)) = 0
    <3>1. QueryOf(h) \in queries
      BY <2>2 DEF DiscInv, Calling
    <3>2. CASE h \in Requests
      BY <2>2, <3>1, <3>2 DEF QueryOf, Targets, Target
    <3>3. CASE h \notin Requests
      BY <2>2, <3>1, <3>3 DEF RetryRefusal, QueryOf
    <3> QED
      BY <3>1, <3>2, <3>3
  <2> QED
    BY <2>1, <2>2, CallsStart
<1>2. pc[h] # "idle"
  BY CallsStart DEF DiscInv, Reached
<1>3. form'[h] = form[h]
  BY <1>2, FormsStay
<1>4. QueryOf(h)' = QueryOf(h) /\ Target(h, i)' = Target(h, i)
  BY <1>3 DEF QueryOf, Target
<1>5. PICK q \in queries : q = QueryOf(h)
  BY <1>1
<1>6. Targets(q)' = Targets(q)
  BY RecordedStay
<1>7. Targets(QueryOf(h))' = Targets(q)'
  BY <1>4, <1>5 DEF Targets
<1> QED
  BY <1>1, <1>4, <1>5, <1>6, <1>7

(* The records are told apart by what the chaincode's keys are made of.    *)
LEMMA KeysTellApart ==
    /\ \A q, r : Chaincode!Key(QueryRecord(q)) = Chaincode!Key(QueryRecord(r))
                     => q = r
    /\ \A q, a : Chaincode!Key(QueryRecord(q)) # Chaincode!Key(MatchRecord(a))
    /\ \A a, b : Chaincode!Key(MatchRecord(a)) = Chaincode!Key(MatchRecord(b))
                     => a.query = b.query /\ a.provider = b.provider
  BY DEF Chaincode!Key, Chaincode!QueryKey, Chaincode!MatchKey, QueryRecord,
         MatchRecord, Record

(* A record under a key of its own is put beside the others.               *)
LEMMA FreshlyPut ==
    ASSUME NEW r, \A x \in World : Chaincode!Key(x) # Chaincode!Key(r),
           World' = World \cup {r}
    PROVE  Chaincode!PutImmutable(r)
  BY DEF Chaincode!PutImmutable, Chaincode!KeyFree, Chaincode!Get,
         Chaincode!PutState

LEMMA QueryIsTransaction ==
    ASSUME DiscInv, NEW h \in Requests, QueryCommits(h)
    PROVE  Chaincode!Next
<1>1. /\ pc[h] \in {"submitting", "aborted"} \/ answer[h] = 503
      /\ h \notin queries
      /\ queries' = queries \cup {h}
      /\ form' = form /\ attestations' = attestations
  BY DEF QueryCommits, Work
<1>2. h \in Handlers /\ pc[h] # "idle"
  BY <1>1 DEF Handlers, DiscInv, Told
<1>3. form[h] \in QueryForms
  BY <1>2 DEF DiscInv, TypeOK
<1>4. form[h].user \in Users /\ form[h].targets \in Seq(Orgs) \ {<<>>}
  BY <1>3, FormsAssumption
<1> DEFINE r == QueryRecord(h)
           msp == OrgOf[form[h].user]
<1>5. Targets(h) \in SUBSET Orgs /\ Targets(h) # {}
  <2>1. Len(form[h].targets) \in Nat \ {0}
    BY <1>4
  <2>2. 1 \in DOMAIN form[h].targets
    BY <1>4, <2>1
  <2>3. \A i \in DOMAIN form[h].targets : form[h].targets[i] \in Orgs
    BY <1>4
  <2> QED
    BY <2>2, <2>3 DEF Targets
<1>6. msp \in Orgs
  BY <1>4, FormsAssumption
<1>7. r \in Chaincode!QueryRequest
  BY <1>5, <1>6 DEF QueryRecord, Record, Chaincode!QueryRequest,
     Chaincode!RecordOf, Chaincode!QueryInput, Chaincode!NonEmptySubsets
<1>8. World' = World \cup {r}
  BY <1>1 DEF World, QueryRecord, MatchRecord, Record, Targets
<1>9. \A x \in World : Chaincode!Key(x) # Chaincode!Key(r)
  BY <1>1, KeysTellApart DEF World
<1>10. Chaincode!PutImmutable(r)
  BY <1>8, <1>9, FreshlyPut
<1>11. Chaincode!QueryAccepted(World, msp, r)
  BY DEF Chaincode!QueryAccepted, QueryRecord, Record
<1> QED
  BY <1>6, <1>7, <1>10, <1>11 DEF Chaincode!Next, Chaincode!CreateQueryRequest

LEMMA AttestationIsTransaction ==
    ASSUME DiscInv, Targeted, NEW h \in Handlers, NEW i \in Positions,
           AttestCommits(h, i)
    PROVE  Chaincode!Next
<1> DEFINE new == OfCall(h, i, job[h][i].result)
           p == Target(h, i)
           q == QueryOf(h)
           r == MatchRecord(new)
<1>1. /\ job[h][i].pc \in {"submitting", "error"}
      /\ job[h][i].result # None
      /\ q \in queries
      /\ p \notin Attested(q)
      /\ attestations' = attestations \cup {new}
      /\ form' = form /\ queries' = queries
  BY DEF AttestCommits, Work, OfCall
<1>2. pc[h] # "idle" /\ i \in DOMAIN form[h].targets
  BY <1>1 DEF DiscInv, Reached
<1>3. p \in Orgs /\ q \in Requests
  BY <1>2, FormFits DEF Target
<1>4. job[h][i].result \in Verdicts
  BY <1>1, JobsTyped DEF Job, Verdicts
<1>5. new.query = q /\ new.provider = p /\ new.result = job[h][i].result
  BY DEF OfCall
<1>6. r \in Chaincode!MatchAttestation
  BY <1>3, <1>4, <1>5 DEF MatchRecord, Record, Verdicts,
     Chaincode!MatchAttestation, Chaincode!RecordOf, Chaincode!MatchInput
<1>7. World' = World \cup {r}
  BY <1>1 DEF World, QueryRecord, MatchRecord, Record, Targets
<1>8. \A x \in World : Chaincode!Key(x) # Chaincode!Key(r)
  <2>1. \A a \in attestations : ~(a.query = new.query /\ a.provider = new.provider)
    BY <1>1, <1>5 DEF Attested
  <2> HIDE DEF r, new
  <2>2. \A a \in attestations : Chaincode!Key(MatchRecord(a)) # Chaincode!Key(r)
    BY <2>1, KeysTellApart DEF r
  <2>3. \A k \in queries : Chaincode!Key(QueryRecord(k)) # Chaincode!Key(r)
    BY KeysTellApart DEF r
  <2> QED
    BY <2>2, <2>3 DEF World
<1>9. Chaincode!PutImmutable(r)
  BY <1>7, <1>8, FreshlyPut
<1>10. Chaincode!MatchAccepted(World, p, r)
  <2>1. r.input.queryId = q /\ r.input.providerOrg = p
    BY <1>5 DEF MatchRecord, Record
  <2>2. QueryRecord(q) \in Chaincode!Get(World, Chaincode!QueryKey(q))
    BY <1>1 DEF World, Chaincode!Get, Chaincode!Key, QueryRecord, Record
  <2>3. p \in QueryRecord(q).input.targetOrganizations
    BY <1>1 DEF Targeted, QueryRecord, Record
  <2> HIDE DEF r
  <2> QED
    BY <2>1, <2>2, <2>3 DEF Chaincode!MatchAccepted
<1> HIDE DEF r
<1> QED
  BY <1>3, <1>6, <1>9, <1>10
     DEF Chaincode!Next, Chaincode!CreateMatchAttestation

(* Nothing else moves the ledger.                                          *)
LEMMA OthersLeaveWorld ==
    ASSUME DiscInv, [Next]_vars, UNCHANGED <<queries, attestations>>
    PROVE  World' = World
<1>1. \A q \in queries : QueryRecord(q)' = QueryRecord(q)
  BY RecordedStay
<1>2. \A a \in attestations : MatchRecord(a)' = MatchRecord(a)
  BY DEF MatchRecord, Record
<1> QED
  BY <1>1, <1>2 DEF World

LEMMA StepIsTransaction ==
    ASSUME DiscInv, Targeted, [Next]_vars
    PROVE  World' = World \/ Chaincode!Next
<1>1. CASE \E h \in Requests : QueryCommits(h)
  BY <1>1, QueryIsTransaction
<1>2. CASE \E h \in Handlers, i \in Positions : AttestCommits(h, i)
  BY <1>2, AttestationIsTransaction
<1>3. ASSUME NEW h \in Handlers, NEW i \in Positions,
             Match(h, i) \/ AttestReturns(h, i) \/ MatchFails(h, i)
      PROVE  UNCHANGED <<queries, attestations>>
  BY <1>3 DEF Match, AttestReturns, MatchFails, Chain
<1>4. CASE \E h \in Handlers : PostQuery(h) \/ PostRetry(h) \/ GatewayStep(h)
  <2>1. UNCHANGED <<queries, attestations>>
    BY <1>4 DEF PostQuery, PostRetry, GatewayStep, QuerySubmitted,
         QuerySubmitFails, CallAdapter, AdapterAnswers, AdapterTimesOut,
         Respond, Chain
  <2> QED
    BY <2>1, OthersLeaveWorld
<1>5. CASE GatewayRestarts \/ ResetDemo \/ UNCHANGED vars
  <2>1. UNCHANGED <<queries, attestations>>
    BY <1>5 DEF GatewayRestarts, ResetDemo, vars, Chain
  <2> QED
    BY <2>1, OthersLeaveWorld
<1> QED
  BY <1>1, <1>2, <1>3, <1>4, <1>5, OthersLeaveWorld DEF Next, Handlers

LEMMA TargetedInvariance == Spec => []Targeted
<1>1. Init => Targeted
  BY DEF Init, Targeted, Unsent
<1>2. DiscInv /\ Targeted /\ [Next]_vars => Targeted'
  BY TargetedNext
<1> QED
  BY <1>1, <1>2, DiscInvariance, PTL DEF Spec

(* Gateway and adapters, whatever they retry, lose or forget, move the     *)
(* ledger by transactions of the chaincode only: nobody attests twice, nor *)
(* for a query that did not ask.                                           *)
THEOREM DiscoveryIsTransactions == Spec => ImplementsLedger
<1>1. Init => Chaincode!Init
  BY DEF Init, Chaincode!Init, World
<1>2. DiscInv /\ Targeted /\ [Next]_vars =>
          [World' = World \/ Chaincode!Next]_vars
  BY StepIsTransaction
<1> QED
  BY <1>1, <1>2, DiscInvariance, TargetedInvariance, PTL
     DEF Spec, ImplementsLedger

(* The same, as the specification that the chaincode's theorems are about. *)
THEOREM DiscoveryImplementsLedger == Spec => Chaincode!Spec
<1>1. Init => Chaincode!Init
  BY DEF Init, Chaincode!Init, World
<1>2. DiscInv /\ Targeted /\ [Next]_vars => [Chaincode!Next]_World
  BY StepIsTransaction
<1> QED
  BY <1>1, <1>2, DiscInvariance, TargetedInvariance, PTL
     DEF Spec, Chaincode!Spec

-----------------------------------------------------------------------------
(* The query budget.                                                       *)

Submitting(u) == {h \in Requests : pc[h] = "submitting" /\ form[h].user = u}

(* No user has two queries on their way to the ledger.                     *)
OneQueryEach ==
    \A u \in Users : \A h, k \in Submitting(u) : h = k

(* Whoever was let past the check can still be charged.                    *)
Affordable ==
    \A u \in Users :
        queryCount[u] <= Budget
        /\ (Submitting(u) # {} => queryCount[u] < Budget)

(* Posts that pass the check leave the counter as they found it.           *)
LEMMA PostIsAffordable ==
    ASSUME DiscInv, Affordable, OneQueryEach', NEW h \in Requests, PostQuery(h)
    PROVE  Affordable'
<1>1. /\ pc[h] = "idle" /\ UNCHANGED queryCount
      /\ pc \in [Handlers -> Stages] /\ h \in Handlers
      /\ form \in [Handlers -> QueryForms \cup RetryForms \cup {None}]
  BY DEF PostQuery, DiscInv, TypeOK, Filled, Stages, Handlers
<1> PICK f \in QueryForms :
          /\ form' = [form EXCEPT ![h] = f]
          /\ IF Refusal(f) # 0
             THEN Answer(h, Refusal(f))
             ELSE /\ pc' = [pc EXCEPT ![h] = "submitting"]
                  /\ UNCHANGED answer
  BY DEF PostQuery
<1>2. f.user \in Users /\ queryCount[f.user] \in Int /\ Budget \in Nat
  BY FormsAssumption DEF DiscInv, TypeOK
<1>3. Refusal(f) = 0 => queryCount[f.user] < Budget
  BY <1>2 DEF Refusal
<1>4. form'[h] = f
  BY <1>1
<1>5. \A k \in Requests : k # h => pc'[k] = pc[k] /\ form'[k] = form[k]
  BY <1>1 DEF Answer, Handlers
<1>6. pc'[h] = "submitting" => Refusal(f) = 0
  BY <1>1 DEF Answer
<1> SUFFICES ASSUME NEW u \in Users, NEW k \in Submitting(u)'
             PROVE  queryCount[u] < Budget
  BY <1>1 DEF Affordable
<1>7. CASE k = h
  BY <1>3, <1>4, <1>6, <1>7 DEF Submitting
<1>8. CASE k # h
  BY <1>5, <1>8 DEF Submitting, Affordable
<1> QED
  BY <1>7, <1>8

(* A charge goes to the only query of its user that was under way.         *)
LEMMA ChargeIsAffordable ==
    ASSUME DiscInv, Affordable, OneQueryEach, NEW h \in Requests,
           QuerySubmitted(h)
    PROVE  Affordable'
<1>1. /\ pc[h] = "submitting" /\ h \in Handlers /\ UNCHANGED form
      /\ queryCount' = [queryCount EXCEPT ![form[h].user] = @ + 1]
      /\ pc' = [pc EXCEPT ![h] = "calling"]
      /\ queryCount \in [Users -> 0..Cardinality(Requests)]
      /\ pc \in [Handlers -> Stages]
  BY DEF QuerySubmitted, IncrementQueryCount, Work, DiscInv, TypeOK, Stages,
         Handlers
<1>2. form[h].user \in Users
  BY <1>1, FormFits
<1>3. h \in Submitting(form[h].user)
  BY <1>1 DEF Submitting
<1> SUFFICES ASSUME NEW u \in Users
             PROVE  /\ queryCount'[u] <= Budget
                    /\ Submitting(u)' # {} => queryCount'[u] < Budget
  BY DEF Affordable
<1>4. Submitting(u)' \subseteq Submitting(u) \ {h}
  BY <1>1 DEF Submitting, Handlers
<1>5. queryCount[u] \in Int /\ Budget \in Int
  BY <1>1, FormsAssumption, FS_CardinalityType
<1>6. CASE u = form[h].user
  <2>1. Submitting(u)' = {}
    BY <1>3, <1>4, <1>6 DEF OneQueryEach
  <2>2. queryCount[u] < Budget
    BY <1>3, <1>6 DEF Affordable
  <2>3. queryCount'[u] = queryCount[u] + 1
    BY <1>1, <1>2, <1>6
  <2> QED
    BY <1>5, <2>1, <2>2, <2>3
<1>7. CASE u # form[h].user
  <2>1. queryCount'[u] = queryCount[u]
    BY <1>1, <1>7
  <2> QED
    BY <1>4, <2>1 DEF Affordable
<1> QED
  BY <1>6, <1>7

LEMMA AffordableNext ==
    ASSUME DiscInv, Affordable, OneQueryEach, OneQueryEach', [Next]_vars
    PROVE  Affordable'
<1>1. ASSUME UNCHANGED queryCount,
             \A u \in Users : Submitting(u)' \subseteq Submitting(u)
      PROVE  Affordable'
  BY <1>1 DEF Affordable
<1>2. ASSUME UNCHANGED <<pc, form, queryCount>>
      PROVE  Affordable'
  BY <1>2 DEF Affordable, Submitting
<1>3. pc \in [Handlers -> Stages] /\ Requests \subseteq Handlers
  BY DEF DiscInv, TypeOK, Stages, Handlers
<1>4. ASSUME NEW h \in Handlers, NEW stage \in Stages \ {"submitting"},
             pc' = [pc EXCEPT ![h] = stage], UNCHANGED <<form, queryCount>>
      PROVE  Affordable'
  <2>1. \A u \in Users : Submitting(u)' \subseteq Submitting(u)
    BY <1>3, <1>4 DEF Submitting
  <2> QED
    BY <1>1, <1>4, <2>1
<1>5. \A h \in Requests : PostQuery(h) => Affordable'
  BY PostIsAffordable
<1>6. ASSUME NEW h \in Retries, PostRetry(h) PROVE Affordable'
  <2>1. /\ h \in Handlers /\ h \notin Requests /\ UNCHANGED queryCount
        /\ form \in [Handlers -> QueryForms \cup RetryForms \cup {None}]
    BY <1>6, FormsAssumption DEF Handlers, PostRetry, DiscInv, Filled
  <2>2. \A k \in Requests : pc'[k] = pc[k] /\ form'[k] = form[k]
    BY <1>3, <1>6, <2>1 DEF PostRetry, Answer
  <2>3. \A u \in Users : Submitting(u)' \subseteq Submitting(u)
    BY <2>2 DEF Submitting
  <2> QED
    BY <1>1, <2>1, <2>3
<1>7. ASSUME NEW h \in Handlers, GatewayStep(h) PROVE Affordable'
  <2>1. CASE QuerySubmitted(h)
    <3>1. h \in Requests
      BY <2>1 DEF QuerySubmitted, DiscInv, TypeOK
    <3> QED
      BY <2>1, <3>1, ChargeIsAffordable
  <2>2. CASE ~QuerySubmitted(h)
    <3>1. /\ \E stage \in Stages \ {"submitting"} :
                pc' = [pc EXCEPT ![h] = stage]
          /\ UNCHANGED <<form, queryCount>>
      BY <1>7, <2>2 DEF GatewayStep, QuerySubmitFails, CallAdapter,
           AdapterAnswers, AdapterTimesOut, Respond, Answer, Work, Stages
    <3> QED
      BY <1>4, <3>1
  <2> QED
    BY <2>1, <2>2
<1>8. ASSUME NEW h \in Handlers, NEW i \in Positions,
             \/ Match(h, i) \/ AttestCommits(h, i)
             \/ AttestReturns(h, i) \/ MatchFails(h, i)
      PROVE  UNCHANGED <<pc, form, queryCount>>
  BY <1>8 DEF Match, AttestCommits, AttestReturns, MatchFails, Work
<1>9. CASE \E h \in Requests : QueryCommits(h)
  BY <1>2, <1>9 DEF QueryCommits, Work
<1>10. CASE GatewayRestarts
  <2>1. \A k \in Requests : pc'[k] # "submitting"
    BY <1>3, <1>10 DEF GatewayRestarts
  <2>2. \A u \in Users : Submitting(u)' \subseteq Submitting(u)
    BY <2>1 DEF Submitting
  <2> QED
    BY <1>1, <1>10, <2>2 DEF GatewayRestarts
<1>11. CASE ResetDemo
  <2>1. UNCHANGED <<pc, form>> /\ \A u \in Users : queryCount'[u] = 0
    BY <1>11 DEF ResetDemo, Work
  <2>2. Budget \in Nat /\ \A u \in Users : queryCount[u] \in Nat
    BY FormsAssumption, FS_CardinalityType DEF DiscInv, TypeOK
  <2>3. \A u \in Users : Submitting(u)' = Submitting(u)
    BY <2>1 DEF Submitting
  <2> QED
    BY <2>1, <2>2, <2>3 DEF Affordable
<1>12. CASE UNCHANGED vars
  BY <1>2, <1>12 DEF vars
<1> QED
  BY <1>2, <1>5, <1>6, <1>7, <1>8, <1>9, <1>10, <1>11, <1>12 DEF Next

(* The budget is overspent by concurrent queries of one user and by them   *)
(* alone: where a user's queries reach the ledger one after the other, no  *)
(* timeout, restart, late commit or reset takes the counter past it.       *)
THEOREM BudgetHoldsInTurn == Spec /\ []OneQueryEach => []BudgetHolds
<1>1. DiscInv /\ Init => Affordable
  BY FormsAssumption DEF Init, Affordable, Submitting, Handlers
<1>2. /\ DiscInv /\ Affordable /\ OneQueryEach /\ OneQueryEach' /\ [Next]_vars
      => Affordable'
  BY AffordableNext
<1>3. Affordable => BudgetHolds
  BY DEF Affordable, BudgetHolds
<1> QED
  BY <1>1, <1>2, <1>3, DiscInvariance, PTL DEF Spec
=============================================================================
