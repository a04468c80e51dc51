----------------------------- MODULE WebSession -----------------------------
(***************************************************************************)
(* One browser tab of the web application and the actors who take turns at *)
(* it: who is shown, whose token the calls carry, what the pages show and  *)
(* which query identifier localStorage hands from page to page.  Calls are *)
(* answered late, in any order and after their page was left, an actor may *)
(* switch while they are in flight, and the page may be reloaded.          *)
(*                                                                         *)
(* A token stands for the user it was signed for; a call may always be     *)
(* refused, which covers an expired token, a revoked user, a missing role  *)
(* and every failure behind the gateway.  The ledger is reduced to who     *)
(* owns which query: what the routes do with it is Discovery's and         *)
(* Disclosure's.  The inbox page is ProviderDesk's.                        *)
(***************************************************************************)
EXTENDS Integers, Sequences, FiniteSets, SequencesExt

CONSTANTS
    Users,        \* actors, each of an organization of its own
    None,         \* no user, no token, no query
    MaxQueries,   \* bound on the queries created
    MaxInFlight   \* bound on the calls in flight

ASSUME SessionAssumption ==
    /\ None \notin Users /\ None \notin Nat
    /\ MaxQueries \in Nat /\ MaxInFlight \in Nat

VARIABLES
    token,       \* localStorage defchain_token: the user it is for, or None
    saved,       \* localStorage defchain_query_id; `by` records who saved it
    user,        \* who is shown as signed in, or None
    busy,        \* busy of the sign-in cards
    view,        \* the page shown once a user is
    draft,       \* accessDraft, as a query or None
    panel,       \* queryId, history and output of the page that is mounted
    calls,       \* calls in flight, in the order they were sent
    owner,       \* queries on the ledger: who owns each, in their order
    overlapped    \* whether a sign-in was sent before the restore ended, in
                  \* this document and since the last switch of actor

Store == <<token, saved>>
App == <<user, busy, view, draft>>

vars == <<Store, App, panel, calls, owner, overlapped>>

Views == {"dashboard", "discovery", "disclosure", "audit"}
Queries == 1..MaxQueries
Nothing == [query |-> None, by |-> None]

(* request reads the token when the call is made.  A call is of the        *)
(* application, of the mounted page, of a page that was left (its answer   *)
(* is still processed), or of a document that is no more.                  *)
Call(kind, from, as, query) ==
    [kind |-> kind, from |-> from, as |-> as, query |-> query,
     stage |-> "sent", listed |-> {}]

(* Page state after mounting v; Disclosure prefers the draft.              *)
Mounted(v, d, s) ==
    [queryId |-> CASE v = "disclosure" /\ d # None -> d
                   [] v \in {"disclosure", "audit"} -> s.query
                   [] OTHER -> None,
     history |-> {}, output |-> Nothing]

(* Variant: pages keep acting on answers after they were left.             *)
LeavePageMounted(S) == S

(* Unmounting: no state of the page can be set any more.                   *)
LeavePage(S) ==
    [i \in DOMAIN S |->
        IF S[i].from = "page" THEN [S[i] EXCEPT !.from = "left"] ELSE S[i]]

Restore(S) == Append(S, Call("me", "app", token, None))

(* The token and the saved query may be left from an earlier visit.        *)
Init ==
    /\ token \in Users \cup {None}
    /\ saved = Nothing
    /\ user = None
    /\ busy = FALSE
    /\ view = "dashboard"
    /\ draft = None
    /\ panel = Mounted("dashboard", None, Nothing)
    /\ calls = Restore(<<>>)
    /\ owner = <<>>
    /\ overlapped = FALSE

-----------------------------------------------------------------------------
(* What the actor does.                                                    *)

Room == Len(calls) < MaxInFlight

(* A card of the sign-in page.                                             *)
SignIn(u) ==
    /\ user = None /\ ~busy /\ Room
    /\ busy' = TRUE
    /\ calls' = Append(calls, Call("login", "app", u, None))
    /\ overlapped' = (overlapped \/ \E i \in DOMAIN calls :
                        calls[i].kind = "me" /\ calls[i].from = "app")
    /\ UNCHANGED <<token, saved, user, view, draft, panel, owner>>

(* A switch of actor with no restore and no sign-in in flight ends the     *)
(* confusion that two of them at once may have left.                       *)
StillOverlapped ==
    overlapped /\ \E i \in DOMAIN calls : calls[i].from = "app"

(* Variant: the page of the actor who leaves is hidden, not left.          *)
LogoutHidesPage ==
    /\ user # None
    /\ token' = None
    /\ saved' = Nothing
    /\ draft' = None
    /\ user' = None
    /\ overlapped' = StillOverlapped
    /\ UNCHANGED <<busy, view, panel, calls, owner>>

(* Switch actor.                                                           *)
Logout ==
    /\ user # None
    /\ token' = None
    /\ saved' = Nothing
    /\ draft' = None
    /\ user' = None
    /\ view' = "dashboard"
    /\ panel' = Mounted("dashboard", None, Nothing)
    /\ calls' = LeavePage(calls)
    /\ overlapped' = StillOverlapped
    /\ UNCHANGED <<busy, owner>>

(* Entering page v with draft d and s saved; Disclosure loads its history. *)
Enter(v, d, s) ==
    /\ view' = v
    /\ panel' = Mounted(v, d, s)
    /\ IF v = "disclosure"
       THEN /\ Room
            /\ calls' = Append(LeavePage(calls),
                               Call("history", "page", token, None))
       ELSE calls' = LeavePage(calls)

Navigate(v) ==
    /\ user # None /\ v # view
    /\ Enter(v, draft, saved)
    /\ UNCHANGED <<token, saved, user, busy, draft, owner, overlapped>>

(* Discovery's form; its button is disabled while a query is on its way.   *)
SubmitQuery ==
    /\ user # None /\ view = "discovery" /\ Room
    /\ \A i \in DOMAIN calls :
          calls[i].from = "page" => calls[i].kind # "create"
    /\ calls' = Append(calls, Call("create", "page", token, None))
    /\ UNCHANGED <<Store, App, panel, owner, overlapped>>

(* onRequestAccess, at a match of the query that was just created.         *)
RequestAccess ==
    LET q == panel.output.query IN
    /\ user # None /\ view = "discovery" /\ q # None
    /\ draft' = q
    /\ saved' = [query |-> q, by |-> user]
    /\ Enter("disclosure", q, saved')
    /\ UNCHANGED <<token, user, busy, owner, overlapped>>

(* useHistoricalQuery.                                                     *)
UseHistoricalQuery(q) ==
    /\ user # None /\ view = "disclosure" /\ q \in panel.history
    /\ panel' = [panel EXCEPT !.queryId = q, !.output = Nothing]
    /\ saved' = [query |-> q, by |-> user]
    /\ UNCHANGED <<token, user, busy, view, draft, calls, owner, overlapped>>

(* Disclosure's form, a request for access or for the disclosure itself.   *)
(* Nothing disables it while an earlier submission is on its way.          *)
SubmitDisclosure ==
    /\ user # None /\ view = "disclosure" /\ panel.queryId # None /\ Room
    /\ panel' = [panel EXCEPT !.output = Nothing]
    /\ saved' = [query |-> panel.queryId, by |-> user]
    /\ calls' = Append(calls, Call("act", "page", token, panel.queryId))
    /\ UNCHANGED <<token, user, busy, view, draft, owner, overlapped>>

(* Audit's button.                                                         *)
VerifyWorkflow ==
    /\ user # None /\ view = "audit" /\ panel.queryId # None /\ Room
    /\ calls' = Append(calls, Call("audit", "page", token, panel.queryId))
    /\ UNCHANGED <<Store, App, panel, owner, overlapped>>

(* The document is loaded again: its state is lost, localStorage is not.   *)
Reload ==
    /\ user' = None /\ busy' = FALSE /\ view' = "dashboard" /\ draft' = None
    /\ panel' = Mounted("dashboard", None, Nothing)
    /\ Room
    /\ calls' = Restore([i \in DOMAIN calls |->
                            [calls[i] EXCEPT !.from = "gone"]])
    /\ overlapped' = FALSE
    /\ UNCHANGED <<token, saved, owner>>

-----------------------------------------------------------------------------
(* What the gateway does with call i.                                      *)

(* Variant: a route without requireAuth.                                   *)
RequireAuthSkipped(c) == TRUE

(* requireAuth: the user of the token, whom the database still knows.      *)
RequireAuth(c) == c.as # None

Arrived(i, kinds) == calls[i].stage = "sent" /\ calls[i].kind \in kinds

Respond(i) ==
    /\ calls' = [calls EXCEPT ![i].stage = "answered"]
    /\ UNCHANGED <<Store, App, panel, owner, overlapped>>

(* POST /auth/login, with the right password.                              *)
LoginServed(i) == Arrived(i, {"login"}) /\ Respond(i)

(* GET /auth/me.                                                           *)
MeServed(i) == Arrived(i, {"me"}) /\ RequireAuth(calls[i]) /\ Respond(i)

(* GET /workflows/:queryId, which any organization may read.               *)
WorkflowServed(i) ==
    /\ Arrived(i, {"workflows", "audit"})
    /\ RequireAuth(calls[i])
    /\ Respond(i)

(* A request for access, or for the disclosure itself.                     *)
ActServed(i) == Arrived(i, {"act"}) /\ RequireAuth(calls[i]) /\ Respond(i)

(* GET /queries: those of the user's organization.                         *)
QueriesServed(i) ==
    /\ Arrived(i, {"history"})
    /\ RequireAuth(calls[i])
    /\ calls' = [calls EXCEPT
          ![i].stage = "answered",
          ![i].listed = {q \in DOMAIN owner : owner[q] = calls[i].as}]
    /\ UNCHANGED <<Store, App, panel, owner, overlapped>>

(* POST /queries: the user's organization is the requester of a new query. *)
QueryServed(i) ==
    LET new == Len(owner) + 1 IN
    /\ Arrived(i, {"create"})
    /\ RequireAuth(calls[i])
    /\ new <= MaxQueries
    /\ owner' = Append(owner, calls[i].as)
    /\ calls' = [calls EXCEPT ![i].stage = "answered", ![i].query = new]
    /\ UNCHANGED <<Store, App, panel, overlapped>>

Serve(i) ==
    \/ LoginServed(i) \/ MeServed(i) \/ WorkflowServed(i) \/ ActServed(i)
    \/ QueriesServed(i) \/ QueryServed(i)

(* requireAuth without a token, or any other refusal or failure.           *)
Refuse(i) ==
    /\ calls[i].stage = "sent"
    /\ calls' = [calls EXCEPT ![i].stage = "refused"]
    /\ UNCHANGED <<Store, App, panel, owner, overlapped>>

-----------------------------------------------------------------------------
(* What the tab does with an answer.                                       *)

Answered(i, kind) ==
    /\ calls[i].stage = "answered"
    /\ calls[i].kind = kind
    /\ calls[i].from # "gone"

Done(i) == calls' = RemoveAt(calls, i)

OnPage(i) == calls[i].from = "page"

(* The restore of the session when the document was loaded.                *)
Restored(i) ==
    /\ Answered(i, "me")
    /\ user' = calls[i].as
    /\ Done(i)
    /\ UNCHANGED <<token, saved, busy, view, draft, panel, owner, overlapped>>

(* login stores the token, then signIn shows the user.                     *)
SignedIn(i) ==
    /\ Answered(i, "login")
    /\ token' = calls[i].as
    /\ user' = calls[i].as
    /\ busy' = FALSE
    /\ Done(i)
    /\ UNCHANGED <<saved, view, draft, panel, owner, overlapped>>

(* Discovery saves the new query's identifier even if the page was left.   *)
QueryCreated(i) ==
    LET q == [query |-> calls[i].query, by |-> calls[i].as] IN
    /\ Answered(i, "create")
    /\ panel' = IF OnPage(i) THEN [panel EXCEPT !.output = q] ELSE panel
    /\ saved' = q
    /\ Done(i)
    /\ UNCHANGED <<token, user, busy, view, draft, owner, overlapped>>

(* loadHistory goes on to read each workflow, with the token there is now. *)
HistoryListed(i) ==
    /\ Answered(i, "history")
    /\ calls' = [calls EXCEPT ![i].kind = "workflows", ![i].as = token,
                              ![i].stage = "sent"]
    /\ UNCHANGED <<Store, App, panel, owner, overlapped>>

(* The history is shown, and its newest query chosen if there was none.    *)
HistoryRead(i) ==
    LET listed == calls[i].listed
        q == IF panel.queryId # None THEN panel.queryId
             ELSE IF listed = {} THEN None ELSE Max(listed) IN
    /\ Answered(i, "workflows")
    /\ IF OnPage(i)
       THEN /\ panel' = [panel EXCEPT !.history = listed, !.queryId = q]
            /\ saved' = IF q = None THEN saved ELSE [query |-> q, by |-> user]
       ELSE UNCHANGED <<panel, saved>>
    /\ Done(i)
    /\ UNCHANGED <<token, user, busy, view, draft, owner, overlapped>>

(* Disclosure's answer is shown, and the history loaded again.             *)
Acted(i) ==
    /\ Answered(i, "act")
    /\ panel' = IF OnPage(i)
                THEN [panel EXCEPT !.output = [query |-> calls[i].query,
                                               by |-> calls[i].as]]
                ELSE panel
    /\ calls' = Append(RemoveAt(calls, i),
                       Call("history", calls[i].from, token, None))
    /\ UNCHANGED <<Store, App, owner, overlapped>>

Verified(i) ==
    /\ Answered(i, "audit")
    /\ panel' = IF OnPage(i)
                THEN [panel EXCEPT !.output = [query |-> calls[i].query,
                                               by |-> calls[i].as]]
                ELSE panel
    /\ Done(i)
    /\ UNCHANGED <<Store, App, owner, overlapped>>

(* Variant: signIn without its finally.                                    *)
RefusedStaysBusy(i) ==
    /\ calls[i].stage = "refused" /\ calls[i].from # "gone"
    /\ token' = IF calls[i].kind = "me" THEN None ELSE token
    /\ Done(i)
    /\ UNCHANGED <<saved, user, busy, view, draft, panel, owner, overlapped>>

(* A failed restore removes the token there is, a failed sign-in frees the *)
(* cards, anything else leaves a message.                                  *)
Refused(i) ==
    /\ calls[i].stage = "refused" /\ calls[i].from # "gone"
    /\ token' = IF calls[i].kind = "me" THEN None ELSE token
    /\ busy' = (busy /\ calls[i].kind # "login")
    /\ Done(i)
    /\ UNCHANGED <<saved, user, view, draft, panel, owner, overlapped>>

(* A call of a document that is no more ends, served or not.               *)
Vanish(i) ==
    /\ calls[i].from = "gone"
    /\ Done(i)
    /\ UNCHANGED <<Store, App, panel, owner, overlapped>>

Gateway(i) == Serve(i) \/ Refuse(i)

Tab(i) ==
    \/ Restored(i) \/ SignedIn(i) \/ QueryCreated(i) \/ HistoryListed(i)
    \/ HistoryRead(i) \/ Acted(i) \/ Verified(i) \/ Refused(i) \/ Vanish(i)

Next ==
    \/ \E u \in Users : SignIn(u)
    \/ \E v \in Views : Navigate(v)
    \/ \E q \in panel.history : UseHistoricalQuery(q)
    \/ Logout \/ SubmitQuery \/ RequestAccess \/ SubmitDisclosure
    \/ VerifyWorkflow \/ Reload
    \/ \E i \in DOMAIN calls : Gateway(i) \/ Tab(i)

Spec == Init /\ [][Next]_vars

(* fetch settles, and the browser runs what waits for it.                  *)
FairSpec ==
    /\ Spec
    /\ WF_vars(\E i \in DOMAIN calls : calls[i].kind = "login" /\ Gateway(i))
    /\ WF_vars(\E i \in DOMAIN calls : calls[i].kind = "login" /\ Tab(i))

-----------------------------------------------------------------------------
(* Properties.                                                             *)

Origin == [query : Queries \cup {None}, by : Users \cup {None}]

TypeOK ==
    /\ token \in Users \cup {None}
    /\ user \in Users \cup {None}
    /\ saved \in Origin
    /\ busy \in BOOLEAN
    /\ view \in Views
    /\ draft \in Queries \cup {None}
    /\ panel \in [queryId : Queries \cup {None}, history : SUBSET Queries,
                  output : Origin]
    /\ owner \in Seq(Users)
    /\ \A i \in DOMAIN calls :
          /\ calls[i].as \in Users \cup {None}
          /\ calls[i].query \in Queries \cup {None}
    /\ overlapped \in BOOLEAN

(* Unless a sign-in was sent before the restore of an older session was    *)
(* answered (App.tsx:139-146 and 158-168 do not wait for each other), and  *)
(* again from the next quiet switch of actor on, the user who is shown is  *)
(* the one the calls are made for, those in flight for the page included.  *)
ActsAsShown ==
    user # None /\ ~overlapped =>
        /\ token = user
        /\ \A i \in DOMAIN calls : OnPage(i) => calls[i].as = user

(* With the same exception, a page shows only what was asked for by the    *)
(* user who is shown: the late answers of the actor before do not reach    *)
(* the pages of the next one, and a history lists own queries only.        *)
ShowsOwnAnswers ==
    user # None /\ ~overlapped =>
        /\ panel.output.by \in {user, None}
        /\ \A q \in panel.history : owner[q] = user

(* The sign-in cards are usable again, whatever becomes of a sign-in.      *)
SignInSettles == busy ~> ~busy

(* docs/TEST_RESULTS.md:47: "Actor switching clears cross-user browser     *)
(* state."  Whoever is shown finds no query saved by somebody else.        *)
SwitchingClears ==
    user # None /\ ~overlapped => saved.by \in {user, None}
=============================================================================
