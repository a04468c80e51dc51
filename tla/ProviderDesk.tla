---------------------------- MODULE ProviderDesk ----------------------------
(***************************************************************************)
(* A provider's officers at work: the inbox page of the web application,   *)
(* the gateway's inbox and decision routes, the adapter's decision route   *)
(* and the chaincode's last word.  Several desks show the same requests,   *)
(* inboxes are read workflow by workflow while decisions are made, answers *)
(* come back in any order, a call to the adapter may time out although its *)
(* decision is recorded, a button may be clicked twice, and other clients  *)
(* of the API post whatever body they like.                                *)
(*                                                                         *)
(* A decision of the provider is read where it was committed, at the       *)
(* provider's own peer, so one `decided` stands for that peer and the      *)
(* ledger.  The officers' sessions are WebSession's, signatures and        *)
(* timestamps of the internal call InternalAuth's, expiry Ledger's.        *)
(***************************************************************************)
EXTENDS Integers, Sequences, FiniteSets, SequencesExt

CONSTANTS
    Scopes,     \* what can be asked for at all
    Requests,   \* access requests, of every provider
    Ours,       \* those addressed to this provider
    QueryOf,    \* the query each belongs to
    Requested,  \* requestedScopes of each, a sequence
    Desks,      \* inbox pages, each opened once, of this provider's officers
    Client,     \* another client of the API, signed in as an officer
    Calls,      \* what Client posts: [request, body]
    MaxLoads,   \* bound on the inbox loads
    MaxPosts,   \* bound on the decision posts
    None

Decision == {"APPROVE", "PARTIAL", "DENY"}

Body == [decision : Decision, approvedScopes : Seq(Scopes)]

AuthorizationDecision ==
    [decisionId : Nat, request : Requests, decision : Decision,
     approvedScopes : Seq(Scopes)]

ASSUME DeskAssumption ==
    /\ Ours \subseteq Requests
    /\ Requested \in [Requests -> Seq(Scopes)]
    /\ \A r \in Requests : IsInjective(Requested[r]) /\ Requested[r] # <<>>
    /\ Calls \subseteq [request : Requests, body : Body]
    /\ Client \notin Desks
    /\ None \notin AuthorizationDecision

VARIABLES
    arrived,       \* access requests on the ledger
    decided,       \* AuthorizationDecision of each request, or None
    items,         \* items of each desk, as the requests they are
    confirmation,  \* confirmation of each desk: a decision record or None
    loads,         \* GET /provider/inbox calls, in the order they were sent
    posts          \* POST decision calls, in the order they were sent

vars == <<arrived, decided, items, confirmation, loads, posts>>

Desk == <<items, confirmation>>

Init ==
    /\ arrived = {}
    /\ decided = [r \in Requests |-> None]
    /\ items = [d \in Desks |-> {}]
    /\ confirmation = [d \in Desks |-> None]
    /\ loads = <<>>
    /\ posts = <<>>

-----------------------------------------------------------------------------
(* What each layer accepts of a decision and its scopes.                   *)

(* partialScopeValidationMessage is empty: ticked scopes that were asked   *)
(* for, at least one, and fewer than all.                                  *)
PartialAllowed(ticked, requested) ==
    /\ ticked \subseteq ToSet(requested)
    /\ ticked # {}
    /\ Cardinality(ticked) < Cardinality(ToSet(requested))

(* apiDecisionSchema.                                                      *)
BodyParses(b) ==
    /\ IsInjective(b.approvedScopes)
    /\ b.decision = "DENY" <=> b.approvedScopes = <<>>

(* The gateway settles the scopes of APPROVE and DENY itself.              *)
ScopesToRecord(b, requested) ==
    CASE b.decision = "APPROVE" -> requested
      [] b.decision = "DENY"    -> <<>>
      [] OTHER                  -> b.approvedScopes

(* Variant: PARTIAL may list everything that was asked for.                *)
DecisionScopesValidLoose(decision, approved, requested) ==
    /\ IsInjective(approved)
    /\ ToSet(approved) \subseteq ToSet(requested)
    /\ decision = "DENY" => approved = <<>>
    /\ decision = "APPROVE" => ToSet(approved) = ToSet(requested)
    /\ decision = "PARTIAL" => approved # <<>>

(* validateDecisionScopes, which gateway and adapter both call.            *)
DecisionScopesValid(decision, approved, requested) ==
    /\ IsInjective(approved)
    /\ ToSet(approved) \subseteq ToSet(requested)
    /\ decision = "DENY" => approved = <<>>
    /\ decision = "APPROVE" => ToSet(approved) = ToSet(requested)
    /\ decision = "PARTIAL" =>
          Len(approved) \in 1..(Cardinality(ToSet(requested)) - 1)

(* decisionInputSchema of the shared package, and the chaincode's copy.    *)
DecisionParses(decision, approved) ==
    /\ IsInjective(approved)
    /\ decision = "DENY" <=> approved = <<>>

(* RecordAuthorizationDecision's own test.                                 *)
ChaincodeAccepts(decision, approved, requested) ==
    /\ DecisionParses(decision, approved)
    /\ ToSet(approved) \subseteq ToSet(requested)
    /\ decision = "APPROVE" =>
          /\ Len(approved) = Len(requested)
          /\ ToSet(requested) \subseteq ToSet(approved)
    /\ decision = "PARTIAL" => Len(approved) \in 1..(Len(requested) - 1)

-----------------------------------------------------------------------------
(* The inbox.                                                              *)

(* An access request is committed.                                         *)
Arrive(r) ==
    /\ arrived' = arrived \cup {r}
    /\ UNCHANGED <<decided, Desk, loads, posts>>

(* Variant: workflows that ask another provider, too, are left out.        *)
ListWorkflowsOursOnly ==
    {QueryOf[r] : r \in arrived} \ {QueryOf[r] : r \in arrived \ Ours}

(* The queries the gateway lists (those without requests do not matter).   *)
ListWorkflows == {QueryOf[r] : r \in arrived}

(* A load from the moment the gateway lists its queries; what happens      *)
(* between the click and that moment is as if the click came later.        *)
(* `before` and `gone` only record which requests had arrived and which    *)
(* were decided at that moment.                                            *)
NewLoad(d) ==
    [desk |-> d, stage |-> "reading", unread |-> ListWorkflows, found |-> {},
     before |-> arrived \cap Ours,
     gone |-> {r \in Requests : decided[r] # None}]

(* A load that is over, with nothing more to record.                       *)
Over(l) ==
    [desk |-> loads[l].desk, stage |-> "over", unread |-> {}, found |-> {},
     before |-> {}, gone |-> {}]

(* load, when the page is opened.                                          *)
Open(d) ==
    /\ Len(loads) < MaxLoads
    /\ \A l \in DOMAIN loads : loads[l].desk # d
    /\ loads' = Append(loads, NewLoad(d))
    /\ UNCHANGED <<arrived, decided, Desk, posts>>

(* Variant: requests of other providers are not left out.                  *)
ReadWorkflowOfAll(l, q) ==
    /\ q \in loads[l].unread
    /\ loads' = [loads EXCEPT
          ![l].unread = @ \ {q},
          ![l].found = @ \cup {r \in arrived :
                                  QueryOf[r] = q /\ decided[r] = None}]
    /\ UNCHANGED <<arrived, decided, Desk, posts>>

(* GetWorkflow of one query: its requests and decisions as they now are.   *)
ReadWorkflow(l, q) ==
    /\ q \in loads[l].unread
    /\ loads' = [loads EXCEPT
          ![l].unread = @ \ {q},
          ![l].found = @ \cup {r \in arrived \cap Ours :
                                  QueryOf[r] = q /\ decided[r] = None}]
    /\ UNCHANGED <<arrived, decided, Desk, posts>>

(* The answer of a load, which may overtake an earlier one or be overtaken.*)
ShowInbox(l) ==
    /\ loads[l].stage = "reading"
    /\ loads[l].unread = {}
    /\ loads' = [loads EXCEPT ![l] = Over(l)]
    /\ items' = [items EXCEPT ![loads[l].desk] = loads[l].found]
    /\ UNCHANGED <<arrived, decided, confirmation, posts>>

(* A read or the call fails: the desk keeps what it shows.                 *)
LoadFails(l) ==
    /\ loads[l].stage = "reading"
    /\ loads' = [loads EXCEPT ![l] = Over(l)]
    /\ UNCHANGED <<arrived, decided, Desk, posts>>

-----------------------------------------------------------------------------
(* The decision.                                                           *)

(* Where a post is: "sent", at the adapter, submitted, or at its end; and  *)
(* what its sender has been told.                                          *)
NewPost(d, r, b) ==
    [from |-> d, request |-> r, body |-> b, approved |-> <<>>,
     stage |-> "sent", told |-> "nothing"]

(* The record of a decision, with the post it comes from as its id.        *)
RecordOf(p) ==
    [decisionId |-> p, request |-> posts[p].request,
     decision |-> posts[p].body.decision, approvedScopes |-> posts[p].approved]

(* The bodies the three buttons of an item make; Partial is disabled while *)
(* its ticked scopes, which the officer toggles at will, are not allowed.  *)
ButtonBodies(r) ==
    {[decision |-> "DENY", approvedScopes |-> <<>>],
     [decision |-> "APPROVE", approvedScopes |-> Requested[r]]}
    \cup {[decision |-> "PARTIAL", approvedScopes |-> SetToSeq(ticked)] :
             ticked \in {t \in SUBSET ToSet(Requested[r]) :
                            PartialAllowed(t, Requested[r])}}

(* decide.  Nothing disables the buttons while an earlier click is pending.*)
Decide(d, r, b) ==
    /\ Len(posts) < MaxPosts
    /\ r \in items[d]
    /\ b \in ButtonBodies(r)
    /\ posts' = Append(posts, NewPost(d, r, b))
    /\ UNCHANGED <<arrived, decided, Desk, loads>>

ClientPosts(call) ==
    /\ Len(posts) < MaxPosts
    /\ posts' = Append(posts, NewPost(Client, call.request, call.body))
    /\ UNCHANGED <<arrived, decided, Desk, loads>>

(* A post moves on; its sender is told, unless it was told before.         *)
Goes(p, stage, told) ==
    posts' = [posts EXCEPT ![p].stage = stage,
                           ![p].told = IF @ = "nothing" THEN told ELSE @]

(* POST /provider/requests/:requestId/decision, up to the adapter call.    *)
HandleDecision(p) ==
    LET post == posts[p]
        requested == Requested[post.request]
        approved == ScopesToRecord(post.body, requested)
        known == BodyParses(post.body) /\ post.request \in arrived \cap Ours
        valid == DecisionScopesValid(post.body.decision, approved, requested) IN
    /\ post.stage = "sent"
    /\ \/ ~known /\ Goes(p, "turned_away", "failed")
       \/ known /\ ~valid /\ Goes(p, "invalid_scopes", "failed")
       \/ /\ known /\ valid
          /\ posts' = [posts EXCEPT ![p].stage = "at_adapter",
                                    ![p].approved = approved]
    /\ UNCHANGED <<arrived, decided, Desk, loads>>

(* POST /internal/decisions, up to the submission.                         *)
AdapterChecks(p) ==
    LET post == posts[p]
        passes == /\ DecisionParses(post.body.decision, post.approved)
                  /\ DecisionScopesValid(post.body.decision, post.approved,
                                         Requested[post.request]) IN
    /\ post.stage = "at_adapter"
    /\ \/ passes /\ Goes(p, "submitted", "nothing")
       \/ ~passes /\ Goes(p, "adapter_refused", "failed")
    /\ UNCHANGED <<arrived, decided, Desk, loads>>

(* Variant: a second decision replaces the first.                          *)
RecordOverwriting(p) ==
    /\ posts[p].stage = "submitted"
    /\ Goes(p, "committed", "created")
    /\ decided' = [decided EXCEPT ![posts[p].request] = RecordOf(p)]
    /\ UNCHANGED <<arrived, Desk, loads>>

(* RecordAuthorizationDecision: one decision for a request, the first.     *)
RecordAuthorizationDecision(p) ==
    LET post == posts[p]
        accepted == ChaincodeAccepts(post.body.decision, post.approved,
                                     Requested[post.request])
        free == decided[post.request] = None IN
    /\ post.stage = "submitted"
    /\ \/ /\ accepted /\ free
          /\ Goes(p, "committed", "created")
          /\ decided' = [decided EXCEPT ![post.request] = RecordOf(p)]
       \/ /\ accepted /\ ~free
          /\ Goes(p, "already_decided", "failed")
          /\ UNCHANGED decided
       \/ /\ ~accepted
          /\ Goes(p, "chaincode_refused", "failed")
          /\ UNCHANGED decided
    /\ UNCHANGED <<arrived, Desk, loads>>

(* The gateway stops waiting for the adapter (AbortSignal.timeout), or the *)
(* call fails on its way; the adapter goes on.                             *)
AdapterTimesOut(p) ==
    /\ posts[p].stage \in {"at_adapter", "submitted"}
    /\ posts[p].told = "nothing"
    /\ posts' = [posts EXCEPT ![p].told = "failed"]
    /\ UNCHANGED <<arrived, decided, Desk, loads>>

(* The answer reaches the desk: a confirmation and a new load, or an error.*)
DecisionAnswered(p) ==
    LET d == posts[p].from IN
    /\ d \in Desks
    /\ posts' = [posts EXCEPT ![p].told = "shown"]
    /\ \/ /\ posts[p].told = "created"
          /\ Len(loads) < MaxLoads
          /\ confirmation' = [confirmation EXCEPT ![d] = RecordOf(p)]
          /\ loads' = Append(loads, NewLoad(d))
       \/ posts[p].told = "failed" /\ UNCHANGED <<confirmation, loads>>
    /\ UNCHANGED <<arrived, decided, items>>

LoadStep(l) ==
    \/ ShowInbox(l) \/ LoadFails(l)
    \/ \E q \in loads[l].unread : ReadWorkflow(l, q)

PostStep(p) ==
    \/ HandleDecision(p) \/ AdapterChecks(p) \/ AdapterTimesOut(p)
    \/ RecordAuthorizationDecision(p) \/ DecisionAnswered(p)

Next ==
    \/ \E r \in Requests \ arrived : Arrive(r)
    \/ \E d \in Desks : Open(d)
    \/ \E d \in Desks : \E r \in items[d] : \E b \in ButtonBodies(r) :
          Decide(d, r, b)
    \/ \E call \in Calls : ClientPosts(call)
    \/ \E l \in DOMAIN loads : LoadStep(l)
    \/ \E p \in DOMAIN posts : PostStep(p)

Spec == Init /\ [][Next]_vars

-----------------------------------------------------------------------------
(* Properties.                                                             *)

Load ==
    [desk : Desks, stage : {"reading", "over"},
     unread : SUBSET {QueryOf[r] : r \in Requests},
     found : SUBSET Ours, before : SUBSET Ours, gone : SUBSET Requests]

Post ==
    [from : Desks \cup {Client}, request : Requests, body : Body,
     approved : Seq(Scopes),
     stage : {"sent", "turned_away", "invalid_scopes", "at_adapter",
              "adapter_refused", "submitted", "chaincode_refused",
              "already_decided", "committed"},
     told : {"nothing", "created", "failed", "shown"}]

TypeOK ==
    /\ arrived \subseteq Requests
    /\ decided \in [Requests -> AuthorizationDecision \cup {None}]
    /\ items \in [Desks -> SUBSET Ours]
    /\ confirmation \in [Desks -> AuthorizationDecision \cup {None}]
    /\ loads \in Seq(Load)
    /\ posts \in Seq(Post)

(* The three layers that judge a decision's scopes agree: what the gateway *)
(* lets through is refused for its scopes neither by the adapter nor by    *)
(* the chaincode, and no button makes a body that is refused for them.     *)
LayersAgree ==
    \A p \in DOMAIN posts :
        /\ posts[p].stage \notin {"adapter_refused", "chaincode_refused"}
        /\ posts[p].from \in Desks =>
              posts[p].stage \notin {"turned_away", "invalid_scopes"}

(* A confirmation on a desk is the one decision that stands, made by that  *)
(* desk: neither a second click, nor another officer's decision, nor one   *)
(* that was answered by a timeout is ever confirmed in its place.          *)
ConfirmationStands ==
    \A d \in Desks : confirmation[d] # None =>
        /\ confirmation[d] = decided[confirmation[d].request]
        /\ posts[confirmation[d].decisionId].from = d

(* An inbox read in pieces while requests arrive and are decided neither   *)
(* loses one that was waiting all the time, nor shows one that had been    *)
(* decided before it was asked for, nor one of another provider.           *)
InboxComplete ==
    \A l \in DOMAIN loads :
        loads[l].stage = "reading" /\ loads[l].unread = {} =>
            /\ \A r \in loads[l].before :
                  decided[r] = None => r \in loads[l].found
            /\ loads[l].found \subseteq Ours \ loads[l].gone

(* docs/API.md:40: "Duplicate and unrequested scopes are rejected."  A     *)
(* post that is recorded listed only scopes that were asked for.           *)
UnrequestedScopesRejected ==
    \A p \in DOMAIN posts : posts[p].stage = "committed" =>
        ToSet(posts[p].body.approvedScopes)
            \subseteq ToSet(Requested[posts[p].request])
=============================================================================
