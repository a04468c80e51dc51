------------------------- MODULE ProviderDeskProofs -------------------------
(* For every provider, number of desks, clicks and clients: the layers     *)
(* that judge a decision agree, what a desk confirms stands, and an inbox  *)
(* is complete.                                                            *)
EXTENDS ProviderDesk, FiniteSetTheorems, TLAPS

-----------------------------------------------------------------------------
(* Sequences without repetition.                                           *)

(* Such a sequence is as long as the set of its elements is large.         *)
LEMMA CountOfInjective ==
    ASSUME NEW S, NEW s \in Seq(S), IsInjective(s)
    PROVE  /\ IsFiniteSet(ToSet(s))
           /\ Cardinality(ToSet(s)) = Len(s)
<1>1. s \in [1..Len(s) -> ToSet(s)] /\ Len(s) \in Nat
  BY DEF ToSet
<1>2. s \in Bijection(1..Len(s), ToSet(s))
  BY <1>1 DEF Bijection, Injection, Surjection, ToSet
<1>3. ExistsBijection(1..Len(s), ToSet(s))
  BY <1>2 DEF ExistsBijection
<1> QED
  BY <1>1, <1>3, FS_CountingElements, FS_NatBijection

(* One element replaced.                                                   *)
LEMMA OneChanged ==
    ASSUME NEW S, NEW s \in Seq(S), NEW i \in DOMAIN s, NEW e \in S
    PROVE  LET t == [s EXCEPT ![i] = e] IN
           /\ t \in Seq(S) /\ DOMAIN t = DOMAIN s /\ t[i] = e
           /\ \A k \in DOMAIN s : k # i => t[k] = s[k]
  OBVIOUS

(* SetToSeq lists a finite set once.                                       *)
LEMMA SetAsSequence ==
    ASSUME NEW S, IsFiniteSet(S)
    PROVE  /\ SetToSeq(S) \in Seq(S)
           /\ Len(SetToSeq(S)) = Cardinality(S)
           /\ IsInjective(SetToSeq(S))
           /\ ToSet(SetToSeq(S)) = S
<1> DEFINE n == Cardinality(S)
           s == SetToSeq(S)
<1>1. n \in Nat /\ ExistsBijection(1..n, S)
  BY FS_CardinalityType
<1>2. \E f \in [1..n -> S] : IsInjective(f)
  BY <1>1 DEF ExistsBijection, Bijection, Injection
<1>3. s \in [1..n -> S] /\ IsInjective(s)
  BY <1>2 DEF SetToSeq
<1>4. s \in Seq(S) /\ Len(s) = n
  BY <1>1, <1>3
<1>5. ToSet(s) \subseteq S
  BY <1>3 DEF ToSet
<1>6. Cardinality(ToSet(s)) = Cardinality(S)
  BY <1>3, <1>4, CountOfInjective
<1>7. ToSet(s) = S
  BY <1>5, <1>6, FS_Subset
<1> QED
  BY <1>3, <1>4, <1>7

-----------------------------------------------------------------------------
(* What the layers accept.                                                 *)

RequestedOk(r) ==
    /\ Requested[r] \in Seq(Scopes)
    /\ IsInjective(Requested[r])
    /\ Requested[r] # <<>>
    /\ IsFiniteSet(ToSet(Requested[r]))
    /\ Cardinality(ToSet(Requested[r])) = Len(Requested[r])

LEMMA RequestedFit == ASSUME NEW r \in Requests PROVE RequestedOk(r)
  BY DeskAssumption, CountOfInjective DEF RequestedOk

(* The gateway lets p through.                                             *)
Passes(b, r) ==
    /\ BodyParses(b)
    /\ DecisionScopesValid(b.decision, ScopesToRecord(b, Requested[r]),
                           Requested[r])

LEMMA ScopesAreSequence ==
    ASSUME NEW r \in Requests, NEW b \in Body
    PROVE  ScopesToRecord(b, Requested[r]) \in Seq(Scopes)
  BY RequestedFit DEF RequestedOk, ScopesToRecord, Body

(* What the gateway lets through, adapter and chaincode accept.            *)
LEMMA PassedIsAccepted ==
    ASSUME NEW r \in Requests, NEW b \in Body, Passes(b, r)
    PROVE  LET approved == ScopesToRecord(b, Requested[r]) IN
           /\ DecisionParses(b.decision, approved)
           /\ ChaincodeAccepts(b.decision, approved, Requested[r])
<1> DEFINE approved == ScopesToRecord(b, Requested[r])
<1>1. RequestedOk(r) /\ approved \in Seq(Scopes)
  BY RequestedFit, ScopesAreSequence
<1>2. b.decision \in Decision
  BY DEF Body
<1>3. DecisionParses(b.decision, approved)
  BY <1>1, <1>2 DEF Passes, DecisionParses, DecisionScopesValid, BodyParses,
                    ScopesToRecord, Decision, RequestedOk
<1>4. b.decision = "APPROVE" => approved = Requested[r]
  BY DEF ScopesToRecord
<1>5. b.decision = "PARTIAL" => Len(approved) \in 1..(Len(Requested[r]) - 1)
  BY <1>1 DEF Passes, DecisionScopesValid, RequestedOk
<1> QED
  BY <1>3, <1>4, <1>5 DEF ChaincodeAccepts, Passes, DecisionScopesValid

(* What a button sends, the gateway lets through.                          *)
LEMMA ButtonPasses ==
    ASSUME NEW r \in Requests, NEW b \in ButtonBodies(r)
    PROVE  b \in Body /\ Passes(b, r)
<1>0. RequestedOk(r)
  BY RequestedFit
<1>1. CASE b = [decision |-> "DENY", approvedScopes |-> <<>>]
  <2>1. b.decision = "DENY" /\ b.approvedScopes = <<>>
    BY <1>1
  <2>2. b \in Body
    BY <1>1 DEF Body, Decision
  <2>3. IsInjective(<<>>) /\ ToSet(<<>>) = {}
    BY DEF IsInjective, ToSet
  <2> QED
    BY <2>1, <2>2, <2>3
       DEF Passes, BodyParses, DecisionScopesValid, ScopesToRecord
<1>2. CASE b = [decision |-> "APPROVE", approvedScopes |-> Requested[r]]
  <2>1. b.decision = "APPROVE" /\ b.approvedScopes = Requested[r]
    BY <1>2
  <2>2. b \in Body
    BY <1>0, <1>2 DEF Body, Decision, RequestedOk
  <2> QED
    BY <1>0, <2>1, <2>2
       DEF Passes, BodyParses, DecisionScopesValid, ScopesToRecord, RequestedOk
<1>3. ASSUME NEW t \in SUBSET ToSet(Requested[r]),
             PartialAllowed(t, Requested[r]),
             b = [decision |-> "PARTIAL", approvedScopes |-> SetToSeq(t)]
      PROVE  b \in Body /\ Passes(b, r)
  <2> DEFINE s == SetToSeq(t)
  <2>1. b.decision = "PARTIAL" /\ b.approvedScopes = s
    BY <1>3
  <2>2. IsFiniteSet(t)
    BY <1>0, FS_Subset DEF RequestedOk
  <2>3. /\ s \in Seq(t) /\ Len(s) = Cardinality(t)
        /\ IsInjective(s) /\ ToSet(s) = t
    BY <2>2, SetAsSequence
  <2>4. Cardinality(t) \in Nat /\ Cardinality(t) # 0
    BY <1>3, <2>2, FS_CardinalityType, FS_EmptySet DEF PartialAllowed
  <2>5. Cardinality(ToSet(Requested[r])) \in Nat
    BY <1>0, FS_CardinalityType DEF RequestedOk
  <2>6. Len(s) \in 1..(Cardinality(ToSet(Requested[r])) - 1)
    BY <1>3, <2>3, <2>4, <2>5 DEF PartialAllowed
  <2>7. s # <<>>
    BY <2>3, <2>4
  <2>8. t \subseteq Scopes
    BY <1>0 DEF RequestedOk, ToSet
  <2>9. b \in Body
    BY <1>3, <2>3, <2>8 DEF Body, Decision
  <2> QED
    BY <2>1, <2>3, <2>6, <2>7, <2>9
       DEF Passes, BodyParses, DecisionScopesValid, ScopesToRecord
<1> QED
  BY <1>1, <1>2, <1>3 DEF ButtonBodies

-----------------------------------------------------------------------------
(* The inductive invariant.                                                *)

(* What is past the gateway has passed it.                                 *)
Judged ==
    \A p \in DOMAIN posts :
        posts[p].stage \in {"at_adapter", "submitted"} =>
            /\ Passes(posts[p].body, posts[p].request)
            /\ posts[p].approved = ScopesToRecord(posts[p].body,
                                                  Requested[posts[p].request])

(* What a desk has sent comes from a button of a request it may decide.    *)
Clicked ==
    \A p \in DOMAIN posts :
        posts[p].from \in Desks /\ posts[p].stage = "sent" =>
            /\ posts[p].request \in arrived \cap Ours
            /\ posts[p].body \in ButtonBodies(posts[p].request)

(* Who is told of a decision has made the one that stands.                 *)
Standing ==
    \A p \in DOMAIN posts :
        /\ posts[p].told = "created" => posts[p].stage = "committed"
        /\ posts[p].stage = "committed" =>
              decided[posts[p].request] = RecordOf(p)

Confirmed ==
    \A d \in Desks : confirmation[d] # None =>
        /\ confirmation[d].decisionId \in DOMAIN posts
        /\ confirmation[d] = decided[confirmation[d].request]
        /\ posts[confirmation[d].decisionId].from = d

(* Inboxes hold requests that have arrived; the reading of one has missed  *)
(* only what it is still to read.                                          *)
Known ==
    /\ \A d \in Desks : items[d] \subseteq arrived
    /\ \A l \in DOMAIN loads :
          /\ loads[l].found \subseteq arrived
          /\ loads[l].before \subseteq arrived

Read ==
    \A l \in DOMAIN loads :
        /\ \A r \in loads[l].gone : decided[r] # None
        /\ loads[l].found \cap loads[l].gone = {}
        /\ \A r \in loads[l].before :
              \/ decided[r] # None
              \/ r \in loads[l].found
              \/ QueryOf[r] \in loads[l].unread

DeskInv ==
    /\ TypeOK /\ Judged /\ Clicked /\ LayersAgree
    /\ Standing /\ Confirmed /\ Known /\ Read

-----------------------------------------------------------------------------
(* Actions of the inbox.                                                   *)

LEMMA ArriveKeeps ==
    ASSUME DeskInv, NEW r \in Requests, Arrive(r) PROVE DeskInv'
<1> USE DEF Arrive, Desk
<1>1. TypeOK'
  BY DEF DeskInv, TypeOK
<1>2. Judged' /\ LayersAgree'
  BY DEF DeskInv, Judged, LayersAgree
<1>3. Clicked'
  BY DEF DeskInv, Clicked
<1>4. Standing' /\ Confirmed'
  BY DEF DeskInv, Standing, Confirmed, RecordOf
<1>5. Known' /\ Read'
  BY DEF DeskInv, Known, Read
<1> QED
  BY <1>1, <1>2, <1>3, <1>4, <1>5 DEF DeskInv

(* A new load is well formed, and has everything still to read.            *)
LEMMA NewLoadFits ==
    ASSUME DeskInv, NEW d \in Desks
    PROVE  /\ NewLoad(d) \in Load
           /\ NewLoad(d).found = {}
           /\ NewLoad(d).before \subseteq arrived
           /\ \A r \in NewLoad(d).before : QueryOf[r] \in NewLoad(d).unread
           /\ \A r \in NewLoad(d).gone : decided[r] # None
  BY DEF DeskInv, TypeOK, NewLoad, Load, ListWorkflows

(* Adding it keeps what is said of loads, whatever becomes of the rest.    *)
LEMMA AppendedLoad ==
    ASSUME DeskInv, NEW d \in Desks, loads' = Append(loads, NewLoad(d))
    PROVE  /\ loads' \in Seq(Load)
           /\ arrived' = arrived /\ items' = items => Known'
           /\ decided' = decided => Read'
<1>1. loads \in Seq(Load) /\ NewLoad(d) \in Load
  BY NewLoadFits DEF DeskInv, TypeOK
<1>2. /\ loads' \in Seq(Load)
      /\ \A l \in DOMAIN loads' :
            \/ l \in DOMAIN loads /\ loads'[l] = loads[l]
            \/ loads'[l] = NewLoad(d)
  BY <1>1
<1>3. arrived' = arrived /\ items' = items => Known'
  BY <1>2, NewLoadFits DEF DeskInv, Known
<1>4. decided' = decided => Read'
  BY <1>2, NewLoadFits DEF DeskInv, Read
<1> QED
  BY <1>2, <1>3, <1>4

LEMMA OpenKeeps ==
    ASSUME DeskInv, NEW d \in Desks, Open(d) PROVE DeskInv'
<1> USE DEF Open, Desk
<1>1. TypeOK'
  BY AppendedLoad DEF DeskInv, TypeOK
<1>2. Judged' /\ LayersAgree' /\ Clicked' /\ Standing' /\ Confirmed'
  BY DEF DeskInv, Judged, LayersAgree, Clicked, Standing, Confirmed, RecordOf
<1>3. Known' /\ Read'
  BY AppendedLoad
<1> QED
  BY <1>1, <1>2, <1>3 DEF DeskInv

(* One load, read a little further.                                        *)
LEMMA LoadRead ==
    ASSUME TypeOK, NEW l \in DOMAIN loads, NEW u, NEW f,
           u \subseteq loads[l].unread, f \subseteq Ours,
           loads' = [loads EXCEPT ![l].unread = u, ![l].found = f]
    PROVE  /\ loads' \in Seq(Load)
           /\ DOMAIN loads' = DOMAIN loads
           /\ \A k \in DOMAIN loads : k # l => loads'[k] = loads[k]
           /\ loads'[l].found = f
           /\ loads'[l].unread = u
           /\ loads'[l].before = loads[l].before
           /\ loads'[l].gone = loads[l].gone
<1>1. loads \in Seq(Load)
  BY DEF TypeOK
<1>2. loads[l] \in Load
  BY <1>1
<1> DEFINE new == [loads[l] EXCEPT !.unread = u, !.found = f]
<1>3. /\ new \in Load
      /\ new.found = f /\ new.unread = u
      /\ new.before = loads[l].before /\ new.gone = loads[l].gone
  BY <1>2 DEF Load
<1>4. loads' = [loads EXCEPT ![l] = new]
  OBVIOUS
<1> HIDE DEF new
<1>5. LET t == [loads EXCEPT ![l] = new] IN
      /\ t \in Seq(Load) /\ DOMAIN t = DOMAIN loads /\ t[l] = new
      /\ \A k \in DOMAIN loads : k # l => t[k] = loads[k]
  BY ONLY <1>1, <1>3, OneChanged, l \in DOMAIN loads
<1> QED
  BY <1>3, <1>4, <1>5

LEMMA ReadKeeps ==
    ASSUME DeskInv, NEW l \in DOMAIN loads, NEW q, ReadWorkflow(l, q)
    PROVE  DeskInv'
<1> DEFINE new == {r \in arrived \cap Ours : QueryOf[r] = q /\ decided[r] = None}
           u == loads[l].unread \ {q}
           f == loads[l].found \cup new
<1>0. /\ loads' = [loads EXCEPT ![l].unread = u, ![l].found = f]
      /\ UNCHANGED <<arrived, decided, items, confirmation, posts>>
  BY DEF ReadWorkflow, Desk
<1>a. loads \in Seq(Load) /\ TypeOK
  BY DEF DeskInv, TypeOK
<1>b. loads[l] \in Load
  BY <1>a
<1>c. u \subseteq loads[l].unread /\ f \subseteq Ours
  BY <1>b DEF Load
<1> HIDE DEF u, f
<1>1. /\ loads' \in Seq(Load)
      /\ DOMAIN loads' = DOMAIN loads
      /\ \A k \in DOMAIN loads : k # l => loads'[k] = loads[k]
      /\ loads'[l].found = f
      /\ loads'[l].unread = u
      /\ loads'[l].before = loads[l].before
      /\ loads'[l].gone = loads[l].gone
  BY <1>0, <1>a, <1>c, LoadRead
<1>2. TypeOK'
  BY <1>0, <1>1 DEF DeskInv, TypeOK
<1>3. Judged' /\ LayersAgree' /\ Clicked' /\ Standing' /\ Confirmed'
  BY <1>0 DEF DeskInv, Judged, LayersAgree, Clicked, Standing, Confirmed, RecordOf
<1>4. Known'
  <2>1. f \subseteq arrived
    BY DEF f, DeskInv, Known
  <2> QED
    BY <1>0, <1>1, <2>1 DEF DeskInv, Known
<1>5. \A k \in DOMAIN loads :
        /\ \A r \in loads'[k].gone : decided[r] # None
        /\ loads'[k].found \cap loads'[k].gone = {}
        /\ \A r \in loads'[k].before :
              \/ decided[r] # None
              \/ r \in loads'[k].found
              \/ QueryOf[r] \in loads'[k].unread
  <2> TAKE k \in DOMAIN loads
  <2>1. CASE k # l
    BY <1>1, <2>1 DEF DeskInv, Read
  <2>2. CASE k = l
    <3>1. loads[l].before \subseteq arrived \cap Ours
      BY <1>b DEF DeskInv, Known, Load
    <3>2. \A r \in loads[l].before :
             decided[r] # None \/ r \in f \/ QueryOf[r] \in u
      BY <3>1 DEF DeskInv, Read, u, f
    <3>3. f \cap loads[l].gone = {}
      BY DEF DeskInv, Read, f
    <3> QED
      BY <1>1, <2>2, <3>2, <3>3 DEF DeskInv, Read
  <2> QED
    BY <2>1, <2>2
<1>6. Read'
  BY <1>0, <1>1, <1>5 DEF Read
<1> QED
  BY <1>2, <1>3, <1>4, <1>6 DEF DeskInv

LEMMA LoadOverKeeps ==
    ASSUME DeskInv, NEW l \in DOMAIN loads, ShowInbox(l) \/ LoadFails(l)
    PROVE  DeskInv'
<1> USE DEF ShowInbox, LoadFails, Desk
<1>0. loads \in Seq(Load) /\ loads[l] \in Load
  BY DEF DeskInv, TypeOK
<1>1. /\ Over(l) \in Load
      /\ loads' = [loads EXCEPT ![l] = Over(l)]
  BY <1>0 DEF Over, Load
<1>2. /\ loads' \in Seq(Load)
      /\ DOMAIN loads' = DOMAIN loads
      /\ \A k \in DOMAIN loads : k # l => loads'[k] = loads[k]
      /\ loads'[l] = Over(l)
  BY <1>0, <1>1
<1>3. items' \in [Desks -> SUBSET Ours] /\ \A d \in Desks : items'[d] \subseteq arrived
  BY <1>0 DEF DeskInv, TypeOK, Known, Load
<1>4. TypeOK'
  BY <1>2, <1>3 DEF DeskInv, TypeOK
<1>5. Judged' /\ LayersAgree' /\ Clicked' /\ Standing' /\ Confirmed'
  BY DEF DeskInv, Judged, LayersAgree, Clicked, Standing, Confirmed, RecordOf
<1>6. Known'
  BY <1>2, <1>3 DEF DeskInv, Known, Over
<1>7. Read'
  BY <1>2 DEF DeskInv, Read, Over
<1> QED
  BY <1>4, <1>5, <1>6, <1>7 DEF DeskInv

-----------------------------------------------------------------------------
(* Actions of the posts.                                                   *)

LEMMA RecordFits ==
    ASSUME TypeOK, NEW p \in DOMAIN posts
    PROVE  RecordOf(p) \in AuthorizationDecision /\ RecordOf(p) # None
<1>1. posts \in Seq(Post)
  BY DEF TypeOK
<1>2. posts[p] \in Post /\ p \in Nat
  BY <1>1
<1>3. RecordOf(p) \in AuthorizationDecision
  BY <1>2 DEF RecordOf, AuthorizationDecision, Post, Body
<1> QED
  BY <1>3, DeskAssumption

(* What the invariant says of posts only.                                  *)
PostsInv ==
    posts \in Seq(Post) /\ Judged /\ Clicked /\ LayersAgree /\ Standing

(* A post added at the end has been sent and no more.                      *)
LEMMA AddedKeeps ==
    ASSUME DeskInv, NEW d \in Desks \cup {Client}, NEW r \in Requests,
           NEW b \in Body,
           d \in Desks => r \in arrived \cap Ours /\ b \in ButtonBodies(r),
           posts' = Append(posts, NewPost(d, r, b)),
           UNCHANGED <<arrived, decided, items, confirmation, loads>>
    PROVE  DeskInv'
<1>1. posts \in Seq(Post) /\ NewPost(d, r, b) \in Post
  BY DEF DeskInv, TypeOK, NewPost, Post
<1>2. /\ posts' \in Seq(Post)
      /\ DOMAIN posts \subseteq DOMAIN posts'
      /\ \A p \in DOMAIN posts : posts'[p] = posts[p]
      /\ \A p \in DOMAIN posts' :
            p \in DOMAIN posts \/ posts'[p] = NewPost(d, r, b)
  BY <1>1
<1>3. /\ NewPost(d, r, b).stage = "sent" /\ NewPost(d, r, b).told = "nothing"
      /\ NewPost(d, r, b).from = d /\ NewPost(d, r, b).request = r
      /\ NewPost(d, r, b).body = b
  BY DEF NewPost
<1>4. TypeOK'
  BY <1>2 DEF DeskInv, TypeOK
<1>5. Judged' /\ LayersAgree'
  BY <1>2, <1>3 DEF DeskInv, Judged, LayersAgree
<1>6. Clicked'
  BY <1>2, <1>3 DEF DeskInv, Clicked
<1>7. Standing'
  BY <1>2, <1>3 DEF DeskInv, Standing, RecordOf
<1>8. Confirmed'
  BY <1>2 DEF DeskInv, Confirmed
<1>9. Known' /\ Read'
  BY DEF DeskInv, Known, Read
<1> QED
  BY <1>4, <1>5, <1>6, <1>7, <1>8, <1>9 DEF DeskInv

LEMMA DecideKeeps ==
    ASSUME DeskInv, NEW d \in Desks, NEW r \in items[d],
           NEW b \in ButtonBodies(r), Decide(d, r, b)
    PROVE  DeskInv'
<1>1. r \in Ours /\ r \in arrived /\ r \in Requests
  BY DeskAssumption DEF DeskInv, TypeOK, Known
<1>2. b \in Body
  BY <1>1, ButtonPasses
<1> QED
  BY <1>1, <1>2, AddedKeeps DEF Decide, Desk

LEMMA ClientKeeps ==
    ASSUME DeskInv, NEW call \in Calls, ClientPosts(call) PROVE DeskInv'
<1>1. call.request \in Requests /\ call.body \in Body
  BY DeskAssumption
<1> QED
  BY <1>1, AddedKeeps, DeskAssumption DEF ClientPosts, Desk

(* Post p alone has changed: its sender, request and body have not, and    *)
(* its scopes only if it had just been sent.                               *)
Moved(p) ==
    /\ posts' \in Seq(Post)
    /\ DOMAIN posts' = DOMAIN posts
    /\ \A q \in DOMAIN posts : q # p => posts'[q] = posts[q]
    /\ posts'[p].from = posts[p].from
    /\ posts'[p].request = posts[p].request
    /\ posts'[p].body = posts[p].body

LEMMA GoesMoves ==
    ASSUME TypeOK, NEW p \in DOMAIN posts,
           NEW stage \in {"turned_away", "invalid_scopes", "adapter_refused",
                          "submitted", "chaincode_refused", "already_decided",
                          "committed"},
           NEW told \in {"nothing", "created", "failed"}, Goes(p, stage, told)
    PROVE  /\ Moved(p)
           /\ posts'[p].stage = stage
           /\ posts'[p].approved = posts[p].approved
           /\ posts'[p].told \in {posts[p].told, told}
<1>1. posts \in Seq(Post)
  BY DEF TypeOK
<1>2. posts[p] \in Post
  BY <1>1
<1> DEFINE now == IF posts[p].told = "nothing" THEN told ELSE posts[p].told
           new == [posts[p] EXCEPT !.stage = stage, !.told = now]
<1>3. now \in {"nothing", "created", "failed", "shown"}
  BY <1>2 DEF Post
<1>4. /\ new \in Post
      /\ new.stage = stage /\ new.told = now
      /\ new.from = posts[p].from /\ new.request = posts[p].request
      /\ new.body = posts[p].body /\ new.approved = posts[p].approved
  <2> HIDE DEF now
  <2> QED
    BY <1>2, <1>3 DEF Post
<1>5. posts' = [posts EXCEPT ![p] = new]
  BY DEF Goes
<1> HIDE DEF new
<1>6. LET t == [posts EXCEPT ![p] = new] IN
      /\ t \in Seq(Post) /\ DOMAIN t = DOMAIN posts /\ t[p] = new
      /\ \A q \in DOMAIN posts : q # p => t[q] = posts[q]
  BY ONLY <1>1, <1>4, OneChanged, p \in DOMAIN posts
<1> QED
  BY <1>4, <1>5, <1>6 DEF Moved

LEMMA PassesOn ==
    ASSUME TypeOK, NEW p \in DOMAIN posts, NEW approved \in Seq(Scopes),
           posts' = [posts EXCEPT ![p].stage = "at_adapter",
                                  ![p].approved = approved]
    PROVE  /\ Moved(p)
           /\ posts'[p].stage = "at_adapter"
           /\ posts'[p].approved = approved
           /\ posts'[p].told = posts[p].told
<1>1. posts \in Seq(Post)
  BY DEF TypeOK
<1>2. posts[p] \in Post
  BY <1>1
<1> DEFINE new == [posts[p] EXCEPT !.stage = "at_adapter", !.approved = approved]
<1>3. /\ new \in Post
      /\ new.stage = "at_adapter" /\ new.told = posts[p].told
      /\ new.from = posts[p].from /\ new.request = posts[p].request
      /\ new.body = posts[p].body /\ new.approved = approved
  BY <1>2 DEF Post
<1>4. posts' = [posts EXCEPT ![p] = new]
  OBVIOUS
<1> HIDE DEF new
<1>5. LET t == [posts EXCEPT ![p] = new] IN
      /\ t \in Seq(Post) /\ DOMAIN t = DOMAIN posts /\ t[p] = new
      /\ \A q \in DOMAIN posts : q # p => t[q] = posts[q]
  BY ONLY <1>1, <1>3, OneChanged, p \in DOMAIN posts
<1> QED
  BY <1>3, <1>4, <1>5 DEF Moved

LEMMA Told ==
    ASSUME TypeOK, NEW p \in DOMAIN posts, NEW told \in {"failed", "shown"},
           posts' = [posts EXCEPT ![p].told = told]
    PROVE  /\ Moved(p)
           /\ posts'[p].stage = posts[p].stage
           /\ posts'[p].approved = posts[p].approved
           /\ posts'[p].told = told
<1>1. posts \in Seq(Post)
  BY DEF TypeOK
<1>2. posts[p] \in Post
  BY <1>1
<1> DEFINE new == [posts[p] EXCEPT !.told = told]
<1>3. /\ new \in Post
      /\ new.stage = posts[p].stage /\ new.told = told
      /\ new.from = posts[p].from /\ new.request = posts[p].request
      /\ new.body = posts[p].body /\ new.approved = posts[p].approved
  BY <1>2 DEF Post
<1>4. posts' = [posts EXCEPT ![p] = new]
  OBVIOUS
<1> HIDE DEF new
<1>5. LET t == [posts EXCEPT ![p] = new] IN
      /\ t \in Seq(Post) /\ DOMAIN t = DOMAIN posts /\ t[p] = new
      /\ \A q \in DOMAIN posts : q # p => t[q] = posts[q]
  BY ONLY <1>1, <1>3, OneChanged, p \in DOMAIN posts
<1> QED
  BY <1>3, <1>4, <1>5 DEF Moved

(* A move that commits nothing keeps what is said of posts.                *)
LEMMA MovedKeeps ==
    ASSUME DeskInv, NEW p \in DOMAIN posts, Moved(p),
           UNCHANGED <<arrived, decided>>,
           posts'[p].stage \in {"at_adapter", "submitted"} =>
              /\ Passes(posts[p].body, posts[p].request)
              /\ posts'[p].approved = ScopesToRecord(posts[p].body,
                                            Requested[posts[p].request]),
           posts'[p].stage = "sent" => posts[p].stage = "sent",
           posts'[p].stage \notin {"adapter_refused", "chaincode_refused"},
           posts[p].from \in Desks =>
              posts'[p].stage \notin {"turned_away", "invalid_scopes"},
           posts'[p].told = "created" => posts'[p].stage = "committed",
           posts'[p].stage = "committed" =>
              /\ posts[p].stage = "committed"
              /\ posts'[p].approved = posts[p].approved
    PROVE  PostsInv'
<1>1. Judged' /\ LayersAgree'
  BY DEF Moved, DeskInv, Judged, LayersAgree
<1>2. Clicked'
  BY DEF Moved, DeskInv, Clicked
<1>3. \A q \in DOMAIN posts : RecordOf(q)' =
        [decisionId |-> q, request |-> posts'[q].request,
         decision |-> posts'[q].body.decision,
         approvedScopes |-> posts'[q].approved]
  BY DEF RecordOf
<1>4. Standing'
  BY <1>3 DEF Moved, DeskInv, Standing, RecordOf
<1> QED
  BY <1>1, <1>2, <1>4 DEF PostsInv, Moved

(* So does one that leaves the rest alone keep the rest.                   *)
LEMMA RestKeeps ==
    ASSUME DeskInv, NEW p \in DOMAIN posts, Moved(p), PostsInv',
           UNCHANGED <<arrived, decided, items, confirmation, loads>>
    PROVE  DeskInv'
<1>1. TypeOK'
  BY DEF DeskInv, TypeOK, PostsInv
<1>2. Confirmed'
  BY DEF DeskInv, Confirmed, Moved
<1>3. Known' /\ Read'
  BY DEF DeskInv, Known, Read
<1> QED
  BY <1>1, <1>2, <1>3 DEF DeskInv, PostsInv

(* What a post carries, and what is settled of it.                         *)
LEMMA PostFits ==
    ASSUME DeskInv, NEW p \in DOMAIN posts
    PROVE  /\ TypeOK /\ posts[p] \in Post
           /\ posts[p].request \in Requests /\ posts[p].body \in Body
           /\ posts[p].told = "created" => posts[p].stage = "committed"
           /\ posts[p].stage \in {"at_adapter", "submitted"} =>
                 /\ Passes(posts[p].body, posts[p].request)
                 /\ posts[p].approved = ScopesToRecord(posts[p].body,
                                               Requested[posts[p].request])
                 /\ DecisionParses(posts[p].body.decision, posts[p].approved)
                 /\ DecisionScopesValid(posts[p].body.decision,
                       posts[p].approved, Requested[posts[p].request])
                 /\ ChaincodeAccepts(posts[p].body.decision,
                       posts[p].approved, Requested[posts[p].request])
<1>1. TypeOK /\ posts \in Seq(Post)
  BY DEF DeskInv, TypeOK
<1>2. posts[p] \in Post
  BY <1>1
<1>3. posts[p].request \in Requests /\ posts[p].body \in Body
  BY <1>2 DEF Post
<1>4. posts[p].told = "created" => posts[p].stage = "committed"
  BY DEF DeskInv, Standing
<1>5. ASSUME posts[p].stage \in {"at_adapter", "submitted"}
      PROVE  /\ Passes(posts[p].body, posts[p].request)
             /\ posts[p].approved = ScopesToRecord(posts[p].body,
                                           Requested[posts[p].request])
  BY <1>5 DEF DeskInv, Judged
<1> QED
  BY <1>1, <1>2, <1>3, <1>4, <1>5, PassedIsAccepted DEF Passes

LEMMA HandleKeeps ==
    ASSUME DeskInv, NEW p \in DOMAIN posts, HandleDecision(p)
    PROVE  DeskInv'
<1> DEFINE post == posts[p]
           approved == ScopesToRecord(post.body, Requested[post.request])
           known == BodyParses(post.body) /\ post.request \in arrived \cap Ours
           valid == DecisionScopesValid(post.body.decision, approved,
                                        Requested[post.request])
<1>1. /\ post.stage = "sent" /\ TypeOK
      /\ UNCHANGED <<arrived, decided, items, confirmation, loads>>
  BY PostFits DEF HandleDecision, Desk
<1>2. approved \in Seq(Scopes)
  BY PostFits, ScopesAreSequence
<1>3. post.told # "created"
  BY <1>1, PostFits
<1>4. post.from \in Desks => known /\ valid
  <2>1. post.from \in Desks =>
           /\ post.request \in arrived \cap Ours
           /\ post.body \in ButtonBodies(post.request)
    BY <1>1 DEF DeskInv, Clicked
  <2>2. post.request \in Requests
    BY PostFits
  <2> QED
    BY <2>1, <2>2, ButtonPasses DEF Passes
<1>5. ASSUME ~known \/ ~valid,
             Goes(p, "turned_away", "failed")
                \/ Goes(p, "invalid_scopes", "failed")
      PROVE  DeskInv'
  <2>1. /\ Moved(p)
        /\ posts'[p].stage \in {"turned_away", "invalid_scopes"}
        /\ posts'[p].told \in {post.told, "failed"}
    BY <1>1, <1>5, GoesMoves
  <2>2. post.from \notin Desks
    BY <1>4, <1>5
  <2>3. PostsInv'
    BY <1>1, <1>3, <2>1, <2>2, MovedKeeps
  <2> QED
    BY <1>1, <2>1, <2>3, RestKeeps
<1>6. ASSUME known, valid,
             posts' = [posts EXCEPT ![p].stage = "at_adapter",
                                    ![p].approved = approved]
      PROVE  DeskInv'
  <2>1. /\ Moved(p)
        /\ posts'[p].stage = "at_adapter"
        /\ posts'[p].approved = approved
        /\ posts'[p].told = post.told
    BY <1>1, <1>2, <1>6, PassesOn
  <2>2. Passes(post.body, post.request)
    BY <1>6 DEF Passes
  <2>3. PostsInv'
    BY <1>1, <1>3, <2>1, <2>2, MovedKeeps
  <2> QED
    BY <1>1, <2>1, <2>3, RestKeeps
<1> QED
  BY <1>5, <1>6 DEF HandleDecision

LEMMA AdapterKeeps ==
    ASSUME DeskInv, NEW p \in DOMAIN posts, AdapterChecks(p)
    PROVE  DeskInv'
<1>1. /\ posts[p].stage = "at_adapter" /\ TypeOK
      /\ UNCHANGED <<arrived, decided, items, confirmation, loads>>
  BY PostFits DEF AdapterChecks, Desk
<1>2. Goes(p, "submitted", "nothing")
  BY <1>1, PostFits DEF AdapterChecks
<1>3. /\ Moved(p)
      /\ posts'[p].stage = "submitted"
      /\ posts'[p].approved = posts[p].approved
      /\ posts'[p].told \in {posts[p].told, "nothing"}
  BY <1>1, <1>2, GoesMoves
<1>4. PostsInv'
  BY <1>1, <1>3, PostFits, MovedKeeps
<1> QED
  BY <1>1, <1>3, <1>4, RestKeeps

LEMMA TimeoutKeeps ==
    ASSUME DeskInv, NEW p \in DOMAIN posts, AdapterTimesOut(p)
    PROVE  DeskInv'
<1>1. /\ posts[p].stage \in {"at_adapter", "submitted"} /\ TypeOK
      /\ posts' = [posts EXCEPT ![p].told = "failed"]
      /\ UNCHANGED <<arrived, decided, items, confirmation, loads>>
  BY PostFits DEF AdapterTimesOut, Desk
<1>2. /\ Moved(p)
      /\ posts'[p].stage = posts[p].stage
      /\ posts'[p].approved = posts[p].approved
      /\ posts'[p].told = "failed"
  BY <1>1, Told
<1>3. PostsInv'
  BY <1>1, <1>2, PostFits, MovedKeeps
<1> QED
  BY <1>1, <1>2, <1>3, RestKeeps

(* The decision that is recorded is the first of its request.              *)
LEMMA CommitKeeps ==
    ASSUME DeskInv, NEW p \in DOMAIN posts,
           decided[posts[p].request] = None, posts[p].stage = "submitted",
           Goes(p, "committed", "created"),
           decided' = [decided EXCEPT ![posts[p].request] = RecordOf(p)],
           UNCHANGED <<arrived, items, confirmation, loads>>
    PROVE  DeskInv'
<1> DEFINE r == posts[p].request
<1>1. TypeOK /\ r \in Requests
  BY PostFits
<1>2. /\ Moved(p)
      /\ posts'[p].stage = "committed"
      /\ posts'[p].approved = posts[p].approved
  BY <1>1, GoesMoves
<1>3. /\ RecordOf(p) \in AuthorizationDecision
      /\ \A q \in DOMAIN posts : RecordOf(q) # None
  BY <1>1, RecordFits
<1>4. /\ decided \in [Requests -> AuthorizationDecision \cup {None}]
      /\ decided' \in [Requests -> AuthorizationDecision \cup {None}]
      /\ decided'[r] = RecordOf(p)
      /\ \A s \in Requests : s # r => decided'[s] = decided[s]
      /\ \A s \in Requests : decided[s] # None => decided'[s] = decided[s]
  BY <1>1, <1>3 DEF TypeOK
<1>5. TypeOK'
  BY <1>1, <1>2, <1>4 DEF TypeOK, Moved
<1>6. Judged' /\ LayersAgree' /\ Clicked'
  BY <1>2 DEF DeskInv, Judged, LayersAgree, Clicked, Moved
<1>7. \A q \in DOMAIN posts : RecordOf(q)' = RecordOf(q)
  BY <1>2 DEF RecordOf, Moved
<1>8. \A q \in DOMAIN posts : q # p /\ posts[q].stage = "committed" =>
         decided'[posts[q].request] = RecordOf(q)
  <2>1. \A q \in DOMAIN posts : posts[q].request \in Requests
    BY PostFits
  <2> QED
    BY <1>3, <1>4, <2>1 DEF DeskInv, Standing
<1>9. Standing'
  BY <1>2, <1>4, <1>7, <1>8 DEF DeskInv, Standing, Moved
<1>10. Confirmed'
  <2>1. \A d \in Desks : confirmation[d] # None =>
           confirmation[d].request \in Requests
    BY <1>1 DEF TypeOK, AuthorizationDecision
  <2> QED
    BY <1>2, <1>4, <2>1 DEF DeskInv, Confirmed, Moved
<1>11. Known'
  BY DEF DeskInv, Known
<1>12. Read'
  <2>1. \A l \in DOMAIN loads : loads[l].gone \subseteq Requests
                              /\ loads[l].before \subseteq Requests
    <3>1. loads \in Seq(Load)
      BY <1>1 DEF TypeOK
    <3>2. \A l \in DOMAIN loads : loads[l] \in Load
      BY <3>1
    <3> QED
      BY <3>2, DeskAssumption DEF Load
  <2> QED
    BY <1>4, <2>1 DEF DeskInv, Read
<1> QED
  BY <1>5, <1>6, <1>9, <1>10, <1>11, <1>12 DEF DeskInv

LEMMA RecordKeeps ==
    ASSUME DeskInv, NEW p \in DOMAIN posts, RecordAuthorizationDecision(p)
    PROVE  DeskInv'
<1> DEFINE accepted == ChaincodeAccepts(posts[p].body.decision,
                          posts[p].approved, Requested[posts[p].request])
<1>1. /\ posts[p].stage = "submitted" /\ TypeOK /\ accepted
      /\ UNCHANGED <<arrived, items, confirmation, loads>>
  BY PostFits DEF RecordAuthorizationDecision, Desk
<1>2. CASE /\ decided[posts[p].request] = None
           /\ Goes(p, "committed", "created")
           /\ decided' = [decided EXCEPT ![posts[p].request] = RecordOf(p)]
  BY <1>1, <1>2, CommitKeeps
<1>3. CASE Goes(p, "already_decided", "failed") /\ UNCHANGED decided
  <2>1. /\ Moved(p)
        /\ posts'[p].stage = "already_decided"
        /\ posts'[p].told \in {posts[p].told, "failed"}
    BY <1>1, <1>3, GoesMoves
  <2>2. PostsInv'
    BY <1>1, <1>3, <2>1, PostFits, MovedKeeps
  <2> QED
    BY <1>1, <1>3, <2>1, <2>2, RestKeeps
<1> QED
  BY <1>1, <1>2, <1>3 DEF RecordAuthorizationDecision

LEMMA AnsweredKeeps ==
    ASSUME DeskInv, NEW p \in DOMAIN posts, DecisionAnswered(p)
    PROVE  DeskInv'
<1> DEFINE d == posts[p].from
<1>1. /\ d \in Desks /\ TypeOK
      /\ posts' = [posts EXCEPT ![p].told = "shown"]
      /\ UNCHANGED <<arrived, decided, items>>
  BY PostFits DEF DecisionAnswered
<1>2. /\ Moved(p)
      /\ posts'[p].stage = posts[p].stage
      /\ posts'[p].approved = posts[p].approved
      /\ posts'[p].told = "shown"
  BY <1>1, Told
<1>3. PostsInv'
  <2>1. posts[p].from \in Desks =>
           posts[p].stage \notin {"turned_away", "invalid_scopes"}
    BY DEF DeskInv, LayersAgree
  <2>2. posts[p].stage \notin {"adapter_refused", "chaincode_refused"}
    BY DEF DeskInv, LayersAgree
  <2> QED
    BY <1>1, <1>2, <2>1, <2>2, PostFits, MovedKeeps
<1>4. CASE UNCHANGED <<confirmation, loads>>
  BY <1>1, <1>2, <1>3, <1>4, RestKeeps
<1>5. CASE /\ posts[p].told = "created"
           /\ confirmation' = [confirmation EXCEPT ![d] = RecordOf(p)]
           /\ loads' = Append(loads, NewLoad(d))
  <2>1. RecordOf(p) \in AuthorizationDecision
    BY <1>1, RecordFits
  <2>2. /\ confirmation' \in [Desks -> AuthorizationDecision \cup {None}]
        /\ confirmation'[d] = RecordOf(p)
        /\ \A e \in Desks : e # d => confirmation'[e] = confirmation[e]
    BY <1>1, <1>5, <2>1 DEF TypeOK
  <2>3. loads' \in Seq(Load) /\ Known' /\ Read'
    BY <1>1, <1>5, AppendedLoad
  <2>4. TypeOK'
    BY <1>1, <1>3, <2>2, <2>3 DEF TypeOK, PostsInv
  <2>5. /\ RecordOf(p).decisionId = p
        /\ decided[RecordOf(p).request] = RecordOf(p)
    BY <1>5, PostFits DEF DeskInv, Standing, RecordOf
  <2>6. Confirmed'
    BY <1>1, <1>2, <2>2, <2>5 DEF DeskInv, Confirmed, Moved
  <2> QED
    BY <1>3, <2>3, <2>4, <2>6 DEF DeskInv, PostsInv
<1> QED
  BY <1>4, <1>5 DEF DecisionAnswered

-----------------------------------------------------------------------------
(* The theorems.                                                           *)

LEMMA InitFits == Init => DeskInv
<1> SUFFICES ASSUME Init PROVE DeskInv
  OBVIOUS
<1>1. DOMAIN loads = {} /\ DOMAIN posts = {}
  BY DEF Init
<1>2. TypeOK
  BY DEF Init, TypeOK
<1> QED
  BY <1>1, <1>2 DEF Init, DeskInv, Judged, Clicked, LayersAgree, Standing,
                    Confirmed, Known, Read

LEMMA NextKeeps == DeskInv /\ [Next]_vars => DeskInv'
<1> SUFFICES ASSUME DeskInv, [Next]_vars PROVE DeskInv'
  OBVIOUS
<1>1. CASE UNCHANGED vars
  BY <1>1 DEF vars, DeskInv, TypeOK, Judged, Clicked, LayersAgree, Standing,
              Confirmed, Known, Read, RecordOf
<1>2. ASSUME NEW r \in Requests \ arrived, Arrive(r) PROVE DeskInv'
  BY <1>2, ArriveKeeps
<1>3. ASSUME NEW d \in Desks, Open(d) PROVE DeskInv'
  BY <1>3, OpenKeeps
<1>4. ASSUME NEW d \in Desks, NEW r \in items[d], NEW b \in ButtonBodies(r),
             Decide(d, r, b)
      PROVE  DeskInv'
  BY <1>4, DecideKeeps
<1>5. ASSUME NEW call \in Calls, ClientPosts(call) PROVE DeskInv'
  BY <1>5, ClientKeeps
<1>6. ASSUME NEW l \in DOMAIN loads, LoadStep(l) PROVE DeskInv'
  BY <1>6, ReadKeeps, LoadOverKeeps DEF LoadStep
<1>7. ASSUME NEW p \in DOMAIN posts, PostStep(p) PROVE DeskInv'
  BY <1>7, HandleKeeps, AdapterKeeps, TimeoutKeeps, RecordKeeps, AnsweredKeeps
     DEF PostStep
<1> QED
  BY <1>1, <1>2, <1>3, <1>4, <1>5, <1>6, <1>7 DEF Next

LEMMA DeskInvariance == Spec => []DeskInv
  BY InitFits, NextKeeps, PTL DEF Spec

(* Requests, inboxes, calls and confirmations keep their types.            *)
THEOREM DeskTypeCorrect == Spec => []TypeOK
<1>1. DeskInv => TypeOK
  BY DEF DeskInv
<1> QED
  BY <1>1, DeskInvariance, PTL

(* Gateway, adapter and chaincode agree on the scopes of every decision,   *)
(* whatever was asked for, and no button makes one that is refused.        *)
THEOREM LayersAlwaysAgree == Spec => []LayersAgree
<1>1. DeskInv => LayersAgree
  BY DEF DeskInv
<1> QED
  BY <1>1, DeskInvariance, PTL

(* What a desk confirms is its own decision and the one that stands,       *)
(* however many desks, clicks, clients and timeouts race.                  *)
THEOREM ConfirmationsStand == Spec => []ConfirmationStands
<1>1. DeskInv => ConfirmationStands
  BY DEF DeskInv, Confirmed, ConfirmationStands
<1> QED
  BY <1>1, DeskInvariance, PTL

(* An inbox read in pieces is complete and shows nothing that was decided. *)
THEOREM InboxIsComplete == Spec => []InboxComplete
<1>1. ASSUME DeskInv PROVE InboxComplete
  <2>1. loads \in Seq(Load)
    BY <1>1 DEF DeskInv, TypeOK
  <2>2. \A l \in DOMAIN loads : loads[l] \in Load
    BY <2>1
  <2>3. \A l \in DOMAIN loads : loads[l].found \subseteq Ours
    BY <2>2 DEF Load
  <2> QED
    BY <1>1, <2>3 DEF DeskInv, Read, InboxComplete
<1> QED
  BY <1>1, DeskInvariance, PTL
=============================================================================
