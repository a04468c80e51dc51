-------------------------- MODULE WebSessionProofs --------------------------
(* For any number of actors, queries and calls in flight: the tab acts as  *)
(* the user it shows, and shows what was asked for by that user.           *)
EXTENDS WebSession, SequenceTheorems, WellFoundedInduction, TLAPS

-----------------------------------------------------------------------------
(* Numbers and sequences.                                                  *)

LEMMA LeastNatural ==
    ASSUME NEW T, T \subseteq Nat, T # {}
    PROVE  \E x \in T : \A y \in T : x <= y
<1> DEFINE R == {z \in Nat \X Nat : z[1] < z[2]}
<1>1. IsWellFoundedOn(R, Nat)
  BY NatLessThanWellFounded DEF OpToRel
<1>2. PICK x \in T : \A y \in T : <<y, x>> \notin R
  BY <1>1, WFMin
<1>3. ASSUME NEW y \in T PROVE x <= y
  <2>1. <<y, x>> \in Nat \X Nat /\ <<y, x>> \notin R
    BY <1>2
  <2>2. ~ (y < x)
    BY <2>1
  <2> QED
    BY <2>2
<1> QED
  BY <1>3

(* The least bound of a non-empty set of numbers is its largest member.    *)
LEMMA MaxIsMember ==
    ASSUME NEW n \in Nat, NEW T \in SUBSET (1..n), T # {}
    PROVE  Max(T) \in T
<1> DEFINE Bounds == {m \in Nat : \A y \in T : y <= m}
<1>1. Bounds \subseteq Nat /\ n \in Bounds
  OBVIOUS
<1>2. PICK m \in Bounds : \A k \in Bounds : m <= k
  BY <1>1, LeastNatural
<1>3. m \in T
  <2>1. SUFFICES ASSUME m \notin T PROVE FALSE
    OBVIOUS
  <2>2. \A y \in T : y \in Nat /\ 1 <= y /\ y <= m /\ y # m
    BY <2>1
  <2>3. m \in Nat /\ m - 1 \in Nat /\ \A y \in T : y <= m - 1
    <3>1. PICK y \in T : TRUE
      OBVIOUS
    <3>2. m \in Nat /\ m >= 1
      BY <2>2, <3>1
    <3> QED
      BY <2>2, <3>2
  <2>4. m - 1 \in Bounds
    BY <2>3
  <2> QED
    BY <1>2, <2>4
<1>4. \A y \in T : m >= y
  OBVIOUS
<1> QED
  BY <1>3, <1>4 DEF Max

(* Where element j of RemoveAt(s, i) is in s.                              *)
Before(i, j) == IF j < i THEN j ELSE j + 1

LEMMA Removed ==
    ASSUME NEW S, NEW s \in Seq(S), NEW i \in DOMAIN s
    PROVE  /\ RemoveAt(s, i) \in Seq(S)
           /\ DOMAIN RemoveAt(s, i) = 1..(Len(s) - 1)
           /\ \A j \in DOMAIN RemoveAt(s, i) :
                 /\ Before(i, j) \in DOMAIN s /\ Before(i, j) # i
                 /\ RemoveAt(s, i)[j] = s[Before(i, j)]
           /\ \A j, k \in DOMAIN RemoveAt(s, i) :
                 Before(i, j) = Before(i, k) => j = k
<1> DEFINE a == SubSeq(s, 1, i - 1)
           b == SubSeq(s, i + 1, Len(s))
<1>1. Len(s) \in Nat /\ DOMAIN s = 1..Len(s) /\ i \in 1..Len(s)
  OBVIOUS
<1>2. a \in Seq(S) /\ Len(a) = i - 1 /\ \A j \in 1..(i - 1) : a[j] = s[j]
  BY <1>1
<1>3. /\ b \in Seq(S) /\ Len(b) = Len(s) - i
      /\ \A j \in 1..(Len(s) - i) : b[j] = s[i + j]
  BY <1>1
<1> HIDE DEF a, b
<1>4. /\ a \o b \in Seq(S)
      /\ Len(a \o b) = Len(s) - 1
      /\ \A j \in 1..(Len(s) - 1) :
            (a \o b)[j] = IF j <= i - 1 THEN a[j] ELSE b[j - (i - 1)]
  <2>1. Len(a) + Len(b) = Len(s) - 1
    BY <1>1, <1>2, <1>3
  <2>2. /\ a \o b \in Seq(S)
        /\ Len(a \o b) = Len(a) + Len(b)
        /\ \A j \in 1..(Len(a) + Len(b)) :
              (a \o b)[j] = IF j <= Len(a) THEN a[j] ELSE b[j - Len(a)]
    BY <1>2, <1>3, ConcatProperties
  <2> QED
    BY <1>2, <2>1, <2>2
<1>5. \A j \in 1..(Len(s) - 1) : (a \o b)[j] = s[Before(i, j)]
  <2> TAKE j \in 1..(Len(s) - 1)
  <2>1. CASE j <= i - 1
    BY <1>1, <1>2, <1>4, <2>1 DEF Before
  <2>2. CASE j > i - 1
    <3> DEFINE k == j - (i - 1)
    <3>1. k \in 1..(Len(s) - i) /\ i + k = j + 1 /\ ~ (j <= i - 1)
      BY <1>1, <2>2
    <3>2. (a \o b)[j] = b[k]
      BY <1>4, <3>1
    <3>3. b[k] = s[i + k]
      BY <1>3, <3>1
    <3>4. Before(i, j) = j + 1
      BY <1>1, <2>2 DEF Before
    <3> HIDE DEF k
    <3> QED
      BY <3>1, <3>2, <3>3, <3>4
  <2>3. j <= i - 1 \/ j > i - 1
    BY <1>1
  <2> QED
    BY <2>1, <2>2, <2>3
<1>6. RemoveAt(s, i) = a \o b
  BY DEF RemoveAt, a, b
<1>7. \A j \in 1..(Len(s) - 1) :
         Before(i, j) \in 1..Len(s) /\ Before(i, j) # i
  BY <1>1 DEF Before
<1>8. \A j, k \in 1..(Len(s) - 1) : Before(i, j) = Before(i, k) => j = k
  BY <1>1 DEF Before
<1>9. DOMAIN (a \o b) = 1..(Len(s) - 1)
  BY <1>1, <1>4, LenProperties
<1> QED
  BY <1>1, <1>4, <1>5, <1>6, <1>7, <1>8, <1>9

-----------------------------------------------------------------------------
(* Types.                                                                  *)

Kinds == {"me", "login", "create", "history", "workflows", "act", "audit"}

Calls ==
    [kind : Kinds, from : {"app", "page", "left", "gone"},
     as : Users \cup {None}, query : Queries \cup {None},
     stage : {"sent", "answered", "refused"}, listed : SUBSET Queries]

(* The application sends for the session, the pages for everything else.   *)
Sorted(c) ==
    /\ c.from = "app" => c.kind \in {"me", "login"}
    /\ c.kind \in {"me", "login"} => c.from \in {"app", "gone"}
    /\ c.kind = "login" => c.as \in Users

SortedCalls == {c \in Calls : Sorted(c)}

TypeInv ==
    /\ TypeOK
    /\ calls \in Seq(SortedCalls)
    /\ Len(owner) <= MaxQueries

-----------------------------------------------------------------------------
(* Sessions.                                                               *)

(* What a call in flight has to do with the session: t the token, u the    *)
(* user who is shown, b busy and o who owns which query.                   *)
Fits(c, t, u, b, o) ==
    /\ c.from = "app" => /\ u = None
                         /\ c.kind = "login" => b
                         /\ c.kind = "me" => c.as = t
    /\ c.from = "page" => /\ u # None /\ c.as = u
                          /\ \A q \in c.listed : q \in DOMAIN o /\ o[q] = u

AllFit(S, t, u, b, o) == \A i \in DOMAIN S : Fits(S[i], t, u, b, o)

(* One restore or one sign-in at a time.                                   *)
OneForApp(S) ==
    \A i, j \in DOMAIN S : S[i].from = "app" /\ S[j].from = "app" => i = j

(* What page p shows is u's.                                               *)
Shows(p, u, o) ==
    /\ p.output.by \in {u, None}
    /\ \A q \in p.history : q \in DOMAIN o /\ o[q] = u

Session ==
    /\ AllFit(calls, token, user, busy, owner)
    /\ OneForApp(calls)
    /\ user # None => token = user
    /\ Shows(panel, user, owner)

IInv == TypeInv /\ (~overlapped => Session)

-----------------------------------------------------------------------------
(* What the handlers do to the calls in flight.                            *)

LEMMA CallSorted ==
    ASSUME NEW S \in Seq(SortedCalls), NEW i \in DOMAIN S
    PROVE  S[i] \in Calls /\ Sorted(S[i])
<1>1. S[i] \in SortedCalls
  OBVIOUS
<1> QED
  BY <1>1 DEF SortedCalls

LEMMA Sent ==
    ASSUME NEW kind \in Kinds, NEW from \in {"app", "page", "left"},
           NEW as \in Users \cup {None}, NEW query \in Queries \cup {None},
           from = "app" <=> kind \in {"me", "login"},
           kind = "login" => as \in Users
    PROVE  Call(kind, from, as, query) \in SortedCalls
<1> DEFINE c == Call(kind, from, as, query)
<1>1. c \in Calls
  BY DEF Call, Calls
<1>2. c.kind = kind /\ c.from = from /\ c.as = as
  BY DEF Call
<1> QED
  BY <1>1, <1>2 DEF SortedCalls, Sorted

LEMMA Appended ==
    ASSUME NEW S \in Seq(SortedCalls), NEW c \in SortedCalls
    PROVE  /\ Append(S, c) \in Seq(SortedCalls)
           /\ \A j \in DOMAIN Append(S, c) :
                 \/ j \in DOMAIN S /\ Append(S, c)[j] = S[j]
                 \/ j = Len(S) + 1 /\ Append(S, c)[j] = c
  OBVIOUS

(* One call answered, refused or sent on.                                  *)
LEMMA Changed ==
    ASSUME NEW S \in Seq(SortedCalls), NEW i \in DOMAIN S,
           NEW c \in SortedCalls
    PROVE  LET T == [S EXCEPT ![i] = c] IN
           /\ T \in Seq(SortedCalls) /\ DOMAIN T = DOMAIN S /\ T[i] = c
           /\ \A j \in DOMAIN S : j # i => T[j] = S[j]
  OBVIOUS

LEMMA PageLeft ==
    ASSUME NEW S \in Seq(SortedCalls)
    PROVE  /\ LeavePage(S) \in Seq(SortedCalls)
           /\ DOMAIN LeavePage(S) = DOMAIN S
           /\ \A i \in DOMAIN S :
                 LeavePage(S)[i].from = IF S[i].from = "page" THEN "left"
                                        ELSE S[i].from
<1> DEFINE L == LeavePage(S)
<1>1. DOMAIN L = DOMAIN S
  BY DEF LeavePage
<1>2. ASSUME NEW i \in DOMAIN S
      PROVE  /\ L[i] \in SortedCalls
             /\ L[i].from = IF S[i].from = "page" THEN "left" ELSE S[i].from
  <2>1. S[i] \in Calls /\ Sorted(S[i])
    BY CallSorted
  <2>2. CASE S[i].from = "page"
    <3>1. L[i] = [S[i] EXCEPT !.from = "left"]
      BY <2>2 DEF LeavePage
    <3>2. L[i] \in Calls /\ L[i].from = "left" /\ L[i].kind = S[i].kind
      BY <2>1, <3>1 DEF Calls
    <3> QED
      BY <2>1, <2>2, <3>2 DEF SortedCalls, Sorted
  <2>3. CASE S[i].from # "page"
    <3>1. L[i] = S[i]
      BY <2>3 DEF LeavePage
    <3> QED
      BY <2>3, <3>1
  <2> QED
    BY <2>2, <2>3
<1>3. L \in Seq(SortedCalls)
  <2>1. DOMAIN S = 1..Len(S) /\ Len(S) \in Nat
    OBVIOUS
  <2>2. L \in [1..Len(S) -> SortedCalls]
    BY <1>1, <1>2, <2>1 DEF LeavePage
  <2> QED
    BY <2>1, <2>2
<1> QED
  BY <1>1, <1>2, <1>3

Reloaded(S) == [i \in DOMAIN S |-> [S[i] EXCEPT !.from = "gone"]]

LEMMA DocumentGone ==
    ASSUME NEW S \in Seq(SortedCalls)
    PROVE  /\ Reloaded(S) \in Seq(SortedCalls)
           /\ \A i \in DOMAIN Reloaded(S) : Reloaded(S)[i].from = "gone"
<1> DEFINE L == Reloaded(S)
<1>1. DOMAIN L = DOMAIN S
  BY DEF Reloaded
<1>2. ASSUME NEW i \in DOMAIN S
      PROVE  L[i] \in SortedCalls /\ L[i].from = "gone"
  <2>1. S[i] \in Calls /\ Sorted(S[i])
    BY CallSorted
  <2>2. L[i] = [S[i] EXCEPT !.from = "gone"]
    BY DEF Reloaded
  <2>3. /\ L[i] \in Calls /\ L[i].from = "gone" /\ L[i].kind = S[i].kind
        /\ L[i].as = S[i].as
    BY <2>1, <2>2 DEF Calls
  <2> QED
    BY <2>1, <2>3 DEF SortedCalls, Sorted
<1>3. L \in Seq(SortedCalls)
  <2>1. DOMAIN S = 1..Len(S) /\ Len(S) \in Nat
    OBVIOUS
  <2>2. L \in [1..Len(S) -> SortedCalls]
    BY <1>1, <1>2, <2>1 DEF Reloaded
  <2> QED
    BY <2>1, <2>2
<1> QED
  BY <1>1, <1>2, <1>3

Panels ==
    [queryId : Queries \cup {None}, history : SUBSET Queries, output : Origin]

LEMMA MountedPanel ==
    ASSUME NEW v, NEW d \in Queries \cup {None}, NEW s \in Origin
    PROVE  /\ Mounted(v, d, s) \in Panels
           /\ Mounted(v, d, s).output = Nothing
           /\ Mounted(v, d, s).history = {}
<1>1. s.query \in Queries \cup {None} /\ Nothing \in Origin
  BY DEF Origin, Nothing
<1> QED
  BY <1>1 DEF Mounted, Panels

-----------------------------------------------------------------------------
(* Type correctness.                                                       *)

LEMMA CallsTyped ==
    ASSUME NEW S \in Seq(SortedCalls)
    PROVE  \A i \in DOMAIN S : /\ S[i].as \in Users \cup {None}
                               /\ S[i].query \in Queries \cup {None}
  BY CallSorted DEF Calls

LEMMA QueriesTyped ==
    ASSUME TypeInv PROVE  DOMAIN owner \subseteq Queries
  BY SessionAssumption DEF TypeInv, TypeOK, Queries

LEMMA TypeInit == Init => TypeInv
<1> SUFFICES ASSUME Init PROVE TypeInv
  OBVIOUS
<1>1. Nothing \in Origin /\ <<>> \in Seq(SortedCalls) /\ Len(<<>>) = 0
  BY DEF Origin, Nothing
<1>2. token \in Users \cup {None} /\ "me" \in Kinds /\ "me" # "login"
  BY DEF Init, Kinds
<1>3. Call("me", "app", token, None) \in SortedCalls
  BY <1>2, Sent
<1>4. calls \in Seq(SortedCalls)
  BY <1>1, <1>3, Appended DEF Init, Restore
<1>5. panel \in Panels
  BY <1>1, MountedPanel DEF Init
<1>6. owner \in Seq(Users) /\ Len(owner) <= MaxQueries
  BY SessionAssumption DEF Init
<1>7. TypeOK
  BY <1>1, <1>2, <1>4, <1>5, <1>6, CallsTyped
     DEF Init, TypeOK, Panels, Views
<1> QED
  BY <1>4, <1>6, <1>7 DEF TypeInv

(* Steps that leave the ledger alone.                                      *)
Typed(s, p, S) == s \in Origin /\ p \in Panels /\ S \in Seq(SortedCalls)

LEMMA TypeKept ==
    ASSUME TypeInv, owner' = owner,
           token' \in Users \cup {None}, user' \in Users \cup {None},
           busy' \in BOOLEAN, view' \in Views,
           draft' \in Queries \cup {None}, overlapped' \in BOOLEAN,
           Typed(saved', panel', calls')
    PROVE  TypeInv'
<1>1. /\ saved' \in Origin /\ panel' \in Panels
      /\ calls' \in Seq(SortedCalls)
  BY DEF Typed
<1>2. owner' \in Seq(Users) /\ Len(owner') <= MaxQueries
  BY DEF TypeInv, TypeOK
<1>3. \A i \in DOMAIN calls' : /\ calls'[i].as \in Users \cup {None}
                              /\ calls'[i].query \in Queries \cup {None}
  BY <1>1, CallsTyped
<1>4. TypeOK'
  BY <1>1, <1>2, <1>3 DEF TypeOK, Panels
<1> QED
  BY <1>1, <1>2, <1>4 DEF TypeInv

LEMMA NowTyped ==
    ASSUME TypeInv
    PROVE  /\ token \in Users \cup {None} /\ user \in Users \cup {None}
           /\ busy \in BOOLEAN /\ view \in Views
           /\ draft \in Queries \cup {None} /\ overlapped \in BOOLEAN
           /\ saved \in Origin /\ panel \in Panels
           /\ calls \in Seq(SortedCalls) /\ owner \in Seq(Users)
  BY DEF TypeInv, TypeOK, Panels

LEMMA PanelTyped ==
    ASSUME NEW p \in Panels
    PROVE  /\ p.queryId \in Queries \cup {None}
           /\ p.history \in SUBSET Queries
           /\ p.output \in Origin
           /\ \A q \in Queries \cup {None}, h \in SUBSET Queries, o \in Origin :
                 /\ [p EXCEPT !.output = o] \in Panels
                 /\ [p EXCEPT !.queryId = q, !.output = o] \in Panels
                 /\ [p EXCEPT !.history = h, !.queryId = q] \in Panels
  BY DEF Panels

LEMMA OriginTyped ==
    /\ Nothing \in Origin
    /\ \A q \in Queries \cup {None}, u \in Users \cup {None} :
          [query |-> q, by |-> u] \in Origin
    /\ \A o \in Origin : o.query \in Queries \cup {None}
  BY DEF Origin, Nothing

(* What the actor does.                                                    *)
LEMMA EnterTyped ==
    ASSUME TypeInv, NEW v, NEW d \in Queries \cup {None}, NEW s \in Origin,
           Enter(v, d, s)
    PROVE  panel' \in Panels /\ calls' \in Seq(SortedCalls)
<1> USE NowTyped
<1>1. panel' \in Panels
  BY MountedPanel DEF Enter
<1>2. LeavePage(calls) \in Seq(SortedCalls)
  BY PageLeft
<1>3. Call("history", "page", token, None) \in SortedCalls
  BY Sent DEF Kinds
<1>4. Append(LeavePage(calls), Call("history", "page", token, None))
         \in Seq(SortedCalls)
  BY <1>2, <1>3, Appended
<1> QED
  BY <1>1, <1>2, <1>4 DEF Enter

LEMMA ActorTyped ==
    ASSUME TypeInv,
           \/ \E u \in Users : SignIn(u)
           \/ \E v \in Views : Navigate(v)
           \/ \E q \in panel.history : UseHistoricalQuery(q)
           \/ Logout \/ SubmitQuery \/ RequestAccess \/ SubmitDisclosure
           \/ VerifyWorkflow \/ Reload
    PROVE  TypeInv'
<1> USE NowTyped
<1>0. "dashboard" \in Views /\ "disclosure" \in Views
  BY DEF Views
<1>1. ASSUME NEW u \in Users, SignIn(u) PROVE TypeInv'
  <2>1. Call("login", "app", u, None) \in SortedCalls
    BY Sent DEF Kinds
  <2>2. calls' \in Seq(SortedCalls)
    BY <1>1, <2>1, Appended DEF SignIn
  <2>3. Typed(saved', panel', calls')
    BY <1>1, <2>2 DEF SignIn, Typed
  <2>4. overlapped' \in BOOLEAN
    BY <1>1 DEF SignIn
  <2> QED
    BY <1>1, <2>3, <2>4, TypeKept DEF SignIn
<1>2. ASSUME NEW v \in Views, Navigate(v) PROVE TypeInv'
  <2>1. Enter(v, draft, saved)
    BY <1>2 DEF Navigate
  <2>2. panel' \in Panels /\ calls' \in Seq(SortedCalls) /\ view' = v
    BY <2>1, EnterTyped DEF Enter
  <2>3. Typed(saved', panel', calls')
    BY <1>2, <2>2 DEF Navigate, Typed
  <2> QED
    BY <1>2, <2>2, <2>3, TypeKept DEF Navigate
<1>3. ASSUME NEW q \in panel.history, UseHistoricalQuery(q) PROVE TypeInv'
  <2>1. q \in Queries
    BY PanelTyped
  <2>2. panel' \in Panels /\ saved' \in Origin
    BY <1>3, <2>1, PanelTyped, OriginTyped DEF UseHistoricalQuery
  <2>3. Typed(saved', panel', calls')
    BY <1>3, <2>2 DEF UseHistoricalQuery, Typed
  <2> QED
    BY <1>3, <2>3, TypeKept DEF UseHistoricalQuery
<1>4. ASSUME Logout PROVE TypeInv'
  <2>1. panel' \in Panels /\ saved' \in Origin
    BY <1>4, MountedPanel, OriginTyped DEF Logout
  <2>2. calls' \in Seq(SortedCalls)
    BY <1>4, PageLeft DEF Logout
  <2>3. Typed(saved', panel', calls')
    BY <2>1, <2>2 DEF Typed
  <2>4. overlapped' \in BOOLEAN
    <3>1. TypeOK => overlapped \in BOOLEAN
      BY DEF TypeOK
    <3> QED
      BY <1>0, <1>4, <3>1 DEF Logout, StillOverlapped
  <2> QED
    BY <1>0, <1>4, <2>3, <2>4, TypeKept DEF Logout
<1>5. ASSUME SubmitQuery PROVE TypeInv'
  <2>1. Call("create", "page", token, None) \in SortedCalls
    BY Sent DEF Kinds
  <2>2. calls' \in Seq(SortedCalls)
    BY <1>5, <2>1, Appended DEF SubmitQuery
  <2>3. Typed(saved', panel', calls')
    BY <1>5, <2>2 DEF SubmitQuery, Typed, Store
  <2> QED
    BY <1>5, <2>3, TypeKept DEF SubmitQuery, Store, App
<1>6. ASSUME RequestAccess PROVE TypeInv'
  <2>1. PICK q : q = panel.output.query
    OBVIOUS
  <2>2. q \in Queries \cup {None}
    BY <2>1, PanelTyped, OriginTyped
  <2>3. saved' \in Origin /\ draft' = q /\ Enter("disclosure", q, saved')
    BY <1>6, <2>1, <2>2, OriginTyped DEF RequestAccess
  <2>4. panel' \in Panels /\ calls' \in Seq(SortedCalls)
    BY <2>2, <2>3, EnterTyped
  <2>5. view' = "disclosure"
    BY <2>3 DEF Enter
  <2>6. Typed(saved', panel', calls')
    BY <2>3, <2>4 DEF Typed
  <2> QED
    BY <1>0, <1>6, <2>2, <2>3, <2>5, <2>6, TypeKept DEF RequestAccess
<1>7. ASSUME SubmitDisclosure PROVE TypeInv'
  <2>1. panel.queryId \in Queries \cup {None}
    BY PanelTyped
  <2>2. Call("act", "page", token, panel.queryId) \in SortedCalls
    BY <2>1, Sent DEF Kinds
  <2>3. calls' \in Seq(SortedCalls)
    BY <1>7, <2>2, Appended DEF SubmitDisclosure
  <2>4. panel' \in Panels /\ saved' \in Origin
    BY <1>7, <2>1, PanelTyped, OriginTyped DEF SubmitDisclosure
  <2>5. Typed(saved', panel', calls')
    BY <2>3, <2>4 DEF Typed
  <2> QED
    BY <1>7, <2>5, TypeKept DEF SubmitDisclosure
<1>8. ASSUME VerifyWorkflow PROVE TypeInv'
  <2>1. panel.queryId \in Queries \cup {None}
    BY PanelTyped
  <2>2. Call("audit", "page", token, panel.queryId) \in SortedCalls
    BY <2>1, Sent DEF Kinds
  <2>3. calls' \in Seq(SortedCalls)
    BY <1>8, <2>2, Appended DEF VerifyWorkflow
  <2>4. Typed(saved', panel', calls')
    BY <1>8, <2>3 DEF VerifyWorkflow, Typed, Store
  <2> QED
    BY <1>8, <2>4, TypeKept DEF VerifyWorkflow, Store, App
<1>9. ASSUME Reload PROVE TypeInv'
  <2>1. Reloaded(calls) \in Seq(SortedCalls)
    BY DocumentGone
  <2>2. Call("me", "app", token, None) \in SortedCalls
    BY Sent DEF Kinds
  <2>3. calls' \in Seq(SortedCalls)
    BY <1>9, <2>1, <2>2, Appended DEF Reload, Restore, Reloaded
  <2>4. panel' \in Panels
    BY <1>9, MountedPanel, OriginTyped DEF Reload
  <2>5. Typed(saved', panel', calls')
    BY <1>9, <2>3, <2>4 DEF Reload, Typed
  <2> QED
    BY <1>0, <1>9, <2>5, TypeKept DEF Reload
<1> QED
  BY <1>1, <1>2, <1>3, <1>4, <1>5, <1>6, <1>7, <1>8, <1>9

(* What the gateway does with call i.                                      *)
LEMMA StageChanged ==
    ASSUME NEW S \in Seq(SortedCalls), NEW i \in DOMAIN S,
           NEW s \in {"sent", "answered", "refused"}
    PROVE  /\ [S EXCEPT ![i].stage = s] = [S EXCEPT ![i] =
                                              [S[i] EXCEPT !.stage = s]]
           /\ [S[i] EXCEPT !.stage = s] \in SortedCalls
<1>1. S[i] \in Calls /\ Sorted(S[i])
  BY CallSorted
<1> DEFINE c == [S[i] EXCEPT !.stage = s]
<1>2. /\ c \in Calls /\ c.from = S[i].from /\ c.kind = S[i].kind
      /\ c.as = S[i].as
  BY <1>1 DEF Calls
<1> QED
  BY <1>1, <1>2 DEF SortedCalls, Sorted

LEMMA GatewayTyped ==
    ASSUME TypeInv, NEW i \in DOMAIN calls, Gateway(i)
    PROVE  TypeInv'
<1> USE NowTyped
<1>0. calls[i] \in Calls /\ Sorted(calls[i])
  BY CallSorted
<1>1. ASSUME NEW s \in {"sent", "answered", "refused"},
             calls' = [calls EXCEPT ![i].stage = s],
             UNCHANGED <<Store, App, panel, owner, overlapped>>
      PROVE  TypeInv'
  <2>1. calls' \in Seq(SortedCalls)
    BY <1>1, StageChanged, Changed
  <2>2. Typed(saved', panel', calls')
    BY <1>1, <2>1 DEF Typed, Store
  <2> QED
    BY <1>1, <2>2, TypeKept DEF Store, App
<1>2. ASSUME \/ LoginServed(i) \/ MeServed(i) \/ WorkflowServed(i)
             \/ ActServed(i) \/ Refuse(i)
      PROVE  TypeInv'
  BY <1>1, <1>2 DEF LoginServed, MeServed, WorkflowServed, ActServed, Respond,
                    Refuse
<1>3. ASSUME QueriesServed(i) PROVE TypeInv'
  <2> DEFINE l == {q \in DOMAIN owner : owner[q] = calls[i].as}
             c == [calls[i] EXCEPT !.stage = "answered", !.listed = l]
  <2>1. l \in SUBSET Queries
    BY QueriesTyped
  <2>2. /\ c \in Calls /\ c.from = calls[i].from /\ c.kind = calls[i].kind
        /\ c.as = calls[i].as
    BY <1>0, <2>1 DEF Calls
  <2>3. c \in SortedCalls
    BY <1>0, <2>2 DEF SortedCalls, Sorted
  <2>4. calls' = [calls EXCEPT ![i] = c]
    BY <1>3 DEF QueriesServed
  <2>5. calls' \in Seq(SortedCalls)
    BY <2>3, <2>4, Changed
  <2>6. Typed(saved', panel', calls')
    BY <1>3, <2>5 DEF QueriesServed, Typed, Store
  <2> QED
    BY <1>3, <2>6, TypeKept DEF QueriesServed, Store, App
<1>4. ASSUME QueryServed(i) PROVE TypeInv'
  <2>1. PICK c : c = [calls[i] EXCEPT !.stage = "answered",
                                      !.query = Len(owner) + 1]
    OBVIOUS
  <2>2. Len(owner) \in Nat /\ Len(owner) + 1 \in Queries
    BY <1>4, SessionAssumption DEF QueryServed, Queries
  <2>3. /\ c \in Calls /\ c.from = calls[i].from /\ c.kind = calls[i].kind
        /\ c.as = calls[i].as
    BY <1>0, <2>1, <2>2 DEF Calls
  <2>4. c \in SortedCalls
    BY <1>0, <2>3 DEF SortedCalls, Sorted
  <2>5. calls' = [calls EXCEPT ![i] = c]
    BY <1>4, <2>1 DEF QueryServed
  <2>6. calls' \in Seq(SortedCalls)
    BY <2>4, <2>5, Changed
  <2>7. calls[i].as \in Users
    BY <1>0, <1>4 DEF QueryServed, RequireAuth, Calls
  <2>8. /\ owner' \in Seq(Users) /\ Len(owner') <= MaxQueries
    BY <1>4, <2>2, <2>7 DEF QueryServed
  <2>9. \A j \in DOMAIN calls' : /\ calls'[j].as \in Users \cup {None}
                                /\ calls'[j].query \in Queries \cup {None}
    BY <2>6, CallsTyped
  <2>10. TypeOK'
    BY <1>4, <2>8, <2>9 DEF QueryServed, TypeOK, Panels, Store, App
  <2> QED
    BY <2>6, <2>8, <2>10 DEF TypeInv
<1> QED
  BY <1>2, <1>3, <1>4 DEF Gateway, Serve

(* What the tab does with an answer.                                       *)
LEMMA TabTyped ==
    ASSUME TypeInv, NEW i \in DOMAIN calls, Tab(i)
    PROVE  TypeInv'
<1> USE NowTyped
<1>0. /\ calls[i].as \in Users \cup {None}
      /\ calls[i].query \in Queries \cup {None}
      /\ calls[i].from \in {"app", "page", "left", "gone"}
      /\ calls[i].kind \in Kinds
      /\ calls[i].listed \in SUBSET Queries
      /\ Sorted(calls[i])
  BY CallSorted DEF Calls
<1>1. RemoveAt(calls, i) \in Seq(SortedCalls)
  BY Removed
<1>2. PICK q : q = [query |-> calls[i].query, by |-> calls[i].as]
  OBVIOUS
<1>3. q \in Origin /\ [panel EXCEPT !.output = q] \in Panels
  BY <1>0, <1>2, OriginTyped, PanelTyped
<1>4. ASSUME Restored(i) \/ SignedIn(i) PROVE TypeInv'
  <2>1. Typed(saved', panel', calls')
    BY <1>1, <1>4 DEF Restored, SignedIn, Done, Typed
  <2> QED
    BY <1>0, <1>4, <2>1, TypeKept DEF Restored, SignedIn
<1>5. ASSUME QueryCreated(i) PROVE TypeInv'
  <2>1. Typed(saved', panel', calls')
    BY <1>1, <1>2, <1>3, <1>5 DEF QueryCreated, Done, Typed
  <2> QED
    BY <1>5, <2>1, TypeKept DEF QueryCreated
<1>6. ASSUME HistoryListed(i) PROVE TypeInv'
  <2>1. PICK c : c = [calls[i] EXCEPT !.kind = "workflows", !.as = token,
                                      !.stage = "sent"]
    OBVIOUS
  <2>2. /\ c \in Calls /\ c.from = calls[i].from /\ c.kind = "workflows"
    <3>1. PICK a : a = calls[i]
      OBVIOUS
    <3>2. a \in Calls /\ "workflows" \in Kinds
      BY <3>1, CallSorted DEF Kinds
    <3>3. c = [a EXCEPT !.kind = "workflows", !.as = token, !.stage = "sent"]
      BY <2>1, <3>1
    <3>4. c \in Calls /\ c.from = a.from /\ c.kind = "workflows"
      BY <3>2, <3>3 DEF Calls
    <3> QED
      BY <3>1, <3>4
  <2>3. calls[i].from # "app"
    BY <1>0, <1>6 DEF HistoryListed, Answered, Sorted
  <2>4. c \in SortedCalls
    BY <2>2, <2>3 DEF SortedCalls, Sorted
  <2>5. calls' = [calls EXCEPT ![i] = c]
    BY <1>6, <2>1 DEF HistoryListed
  <2>6. calls' \in Seq(SortedCalls)
    BY <2>4, <2>5, Changed
  <2>7. Typed(saved', panel', calls')
    BY <1>6, <2>6 DEF HistoryListed, Typed, Store
  <2> QED
    BY <1>6, <2>7, TypeKept DEF HistoryListed, Store, App
<1>7. ASSUME HistoryRead(i) PROVE TypeInv'
  <2>1. PICK h, r : /\ h = calls[i].listed
                    /\ r = IF panel.queryId # None THEN panel.queryId
                           ELSE IF h = {} THEN None ELSE Max(h)
    OBVIOUS
  <2>2. h # {} => Max(h) \in Queries
    BY <1>0, <2>1, MaxIsMember, SessionAssumption DEF Queries
  <2>3. r \in Queries \cup {None}
    BY <2>1, <2>2, PanelTyped
  <2>4. /\ [panel EXCEPT !.history = h, !.queryId = r] \in Panels
        /\ [query |-> r, by |-> user] \in Origin
    BY <1>0, <2>1, <2>3, PanelTyped, OriginTyped
  <2>5. IF OnPage(i)
        THEN /\ panel' = [panel EXCEPT !.history = h, !.queryId = r]
             /\ saved' = IF r = None THEN saved
                         ELSE [query |-> r, by |-> user]
        ELSE UNCHANGED <<panel, saved>>
    BY <1>7, <2>1 DEF HistoryRead
  <2>6. panel' \in Panels /\ saved' \in Origin
    BY <2>4, <2>5
  <2>7. Typed(saved', panel', calls')
    BY <1>1, <1>7, <2>6 DEF HistoryRead, Done, Typed
  <2> QED
    BY <1>7, <2>7, TypeKept DEF HistoryRead
<1>8. ASSUME Acted(i) PROVE TypeInv'
  <2>1. calls[i].from \in {"page", "left"}
    BY <1>0, <1>8 DEF Acted, Answered, Sorted
  <2>2. Call("history", calls[i].from, token, None) \in SortedCalls
    BY <2>1, Sent DEF Kinds
  <2>3. calls' \in Seq(SortedCalls)
    BY <1>1, <1>8, <2>2, Appended DEF Acted
  <2>4. panel' \in Panels
    BY <1>2, <1>3, <1>8 DEF Acted
  <2>5. Typed(saved', panel', calls')
    BY <1>8, <2>3, <2>4 DEF Acted, Typed, Store
  <2> QED
    BY <1>8, <2>5, TypeKept DEF Acted, Store, App
<1>9. ASSUME Verified(i) PROVE TypeInv'
  <2>1. panel' \in Panels
    BY <1>2, <1>3, <1>9 DEF Verified
  <2>2. Typed(saved', panel', calls')
    BY <1>1, <1>9, <2>1 DEF Verified, Done, Typed, Store
  <2> QED
    BY <1>9, <2>2, TypeKept DEF Verified, Store, App
<1>10. ASSUME Refused(i) \/ Vanish(i) PROVE TypeInv'
  <2>1. Typed(saved', panel', calls')
    BY <1>1, <1>10 DEF Refused, Vanish, Done, Typed, Store
  <2> QED
    BY <1>10, <2>1, TypeKept DEF Refused, Vanish, Store, App
<1> QED
  BY <1>4, <1>5, <1>6, <1>7, <1>8, <1>9, <1>10 DEF Tab

LEMMA TypeStep == TypeInv /\ [Next]_vars => TypeInv'
<1> SUFFICES ASSUME TypeInv, [Next]_vars PROVE TypeInv'
  OBVIOUS
<1>1. CASE UNCHANGED vars
  BY <1>1 DEF TypeInv, TypeOK, vars, Store, App
<1>2. CASE Next
  BY <1>2, ActorTyped, GatewayTyped, TabTyped DEF Next
<1> QED
  BY <1>1, <1>2

(* The variables keep their types.                                         *)
THEOREM WellTyped == Spec => []TypeOK
<1>1. TypeInv => TypeOK
  BY DEF TypeInv
<1> QED
  BY <1>1, TypeInit, TypeStep, PTL DEF Spec

-----------------------------------------------------------------------------
(* What the handlers do to the calls of a session.                         *)

NoneForApp(S) == \A i \in DOMAIN S : S[i].from # "app"

LEMMA FitAppended ==
    ASSUME NEW S \in Seq(SortedCalls), NEW c \in SortedCalls,
           NEW t, NEW u, NEW b, NEW o,
           AllFit(S, t, u, b, o), Fits(c, t, u, b, o), OneForApp(S),
           NoneForApp(S) \/ c.from # "app"
    PROVE  AllFit(Append(S, c), t, u, b, o) /\ OneForApp(Append(S, c))
<1> DEFINE A == Append(S, c)
<1>1. \A j \in DOMAIN A : \/ j \in DOMAIN S /\ A[j] = S[j]
                          \/ j = Len(S) + 1 /\ A[j] = c
  BY Appended
<1> HIDE DEF A
<1>2. AllFit(A, t, u, b, o)
  BY <1>1 DEF AllFit
<1>3. OneForApp(A)
  BY <1>1 DEF OneForApp, NoneForApp
<1> QED
  BY <1>2, <1>3 DEF A

LEMMA FitLeft ==
    ASSUME NEW S \in Seq(SortedCalls), NEW t, NEW u, NEW b, NEW o,
           AllFit(S, t, u, b, o), u # None,
           NEW t2, NEW u2, NEW b2, NEW o2
    PROVE  /\ AllFit(LeavePage(S), t2, u2, b2, o2)
           /\ NoneForApp(LeavePage(S)) /\ OneForApp(LeavePage(S))
<1>1. \A i \in DOMAIN S : S[i].from # "app"
  BY DEF AllFit, Fits
<1>2. \A i \in DOMAIN LeavePage(S) :
         LeavePage(S)[i].from # "app" /\ LeavePage(S)[i].from # "page"
  BY <1>1, PageLeft
<1> QED
  BY <1>2 DEF AllFit, Fits, NoneForApp, OneForApp

LEMMA FitGone ==
    ASSUME NEW S \in Seq(SortedCalls), NEW t, NEW u, NEW b, NEW o
    PROVE  /\ AllFit(Reloaded(S), t, u, b, o)
           /\ NoneForApp(Reloaded(S)) /\ OneForApp(Reloaded(S))
<1>1. \A i \in DOMAIN Reloaded(S) :
         Reloaded(S)[i].from # "app" /\ Reloaded(S)[i].from # "page"
  BY DocumentGone
<1> QED
  BY <1>1 DEF AllFit, Fits, NoneForApp, OneForApp

LEMMA FitChanged ==
    ASSUME NEW S \in Seq(SortedCalls), NEW i \in DOMAIN S,
           NEW c \in SortedCalls, c.from = S[i].from,
           NEW t, NEW u, NEW b, NEW o,
           AllFit(S, t, u, b, o), Fits(c, t, u, b, o), OneForApp(S)
    PROVE  /\ AllFit([S EXCEPT ![i] = c], t, u, b, o)
           /\ OneForApp([S EXCEPT ![i] = c])
<1> DEFINE A == [S EXCEPT ![i] = c]
<1>1. /\ DOMAIN A = DOMAIN S /\ A[i] = c
      /\ \A j \in DOMAIN S : j # i => A[j] = S[j]
  BY Changed
<1> HIDE DEF A
<1>2. AllFit(A, t, u, b, o)
  BY <1>1 DEF AllFit
<1>3. OneForApp(A)
  BY <1>1 DEF OneForApp
<1> QED
  BY <1>2, <1>3 DEF A

LEMMA FitRemoved ==
    ASSUME NEW S \in Seq(SortedCalls), NEW i \in DOMAIN S,
           NEW t, NEW u, NEW b, NEW o,
           AllFit(S, t, u, b, o), OneForApp(S)
    PROVE  AllFit(RemoveAt(S, i), t, u, b, o) /\ OneForApp(RemoveAt(S, i))
<1>1. AllFit(RemoveAt(S, i), t, u, b, o)
  BY Removed DEF AllFit
<1>2. OneForApp(RemoveAt(S, i))
  <2>1. SUFFICES ASSUME NEW j \in DOMAIN RemoveAt(S, i),
                        NEW k \in DOMAIN RemoveAt(S, i),
                        RemoveAt(S, i)[j].from = "app",
                        RemoveAt(S, i)[k].from = "app"
                 PROVE  j = k
    BY DEF OneForApp
  <2>2. /\ Before(i, j) \in DOMAIN S /\ S[Before(i, j)].from = "app"
        /\ Before(i, k) \in DOMAIN S /\ S[Before(i, k)].from = "app"
    <3>1. \A m \in DOMAIN RemoveAt(S, i) :
             /\ Before(i, m) \in DOMAIN S
             /\ RemoveAt(S, i)[m] = S[Before(i, m)]
      BY Removed
    <3> QED
      BY <2>1, <3>1
  <2>3. Before(i, j) = Before(i, k)
    BY <2>2 DEF OneForApp
  <2> QED
    BY <2>3, Removed
<1> QED
  BY <1>1, <1>2

(* While the session is restored or somebody signs in, nothing else in     *)
(* flight depends on who is shown.                                         *)
LEMMA FitAnswered ==
    ASSUME NEW S \in Seq(SortedCalls), NEW i \in DOMAIN S,
           NEW t, NEW u, NEW b, NEW o,
           AllFit(S, t, u, b, o), OneForApp(S), S[i].from = "app",
           NEW t2, NEW u2, NEW b2, NEW o2
    PROVE  /\ u = None
           /\ AllFit(RemoveAt(S, i), t2, u2, b2, o2)
           /\ OneForApp(RemoveAt(S, i))
<1>1. u = None
  BY DEF AllFit, Fits
<1>2. \A j \in DOMAIN S : S[j].from # "page" /\ (S[j].from = "app" => j = i)
  BY <1>1 DEF AllFit, Fits, OneForApp
<1>3. \A j \in DOMAIN RemoveAt(S, i) :
         /\ RemoveAt(S, i)[j].from # "page"
         /\ RemoveAt(S, i)[j].from # "app"
  BY <1>2, Removed
<1> QED
  BY <1>1, <1>3 DEF AllFit, Fits, OneForApp

(* Queries stay whose they are.                                            *)
LEMMA FitOwned ==
    ASSUME NEW o \in Seq(Users), NEW x \in Users, NEW t, NEW u, NEW b, NEW S,
           NEW p
    PROVE  /\ AllFit(S, t, u, b, o) => AllFit(S, t, u, b, Append(o, x))
           /\ Shows(p, u, o) => Shows(p, u, Append(o, x))
<1>1. \A q \in DOMAIN o : q \in DOMAIN Append(o, x) /\ Append(o, x)[q] = o[q]
  OBVIOUS
<1> QED
  BY <1>1 DEF AllFit, Fits, Shows

(* While nobody is shown, the page shows nothing of anybody's.             *)
LEMMA ShowsAnyone ==
    ASSUME NEW o \in Seq(Users), NEW p, Shows(p, None, o), NEW u
    PROVE  Shows(p, u, o)
<1>1. \A q \in DOMAIN o : o[q] \in Users
  OBVIOUS
<1> QED
  BY <1>1, SessionAssumption DEF Shows

LEMMA ShowsMounted ==
    ASSUME NEW v, NEW d \in Queries \cup {None}, NEW s \in Origin, NEW u, NEW o
    PROVE  Shows(Mounted(v, d, s), u, o)
  BY MountedPanel DEF Shows, Nothing

-----------------------------------------------------------------------------
(* The session.                                                            *)

LEMMA SessionInit == Init => Session
<1> SUFFICES ASSUME Init PROVE Session
  OBVIOUS
<1>1. PICK c : c = Call("me", "app", token, None)
  OBVIOUS
<1>2. calls = <<c>>
  BY <1>1 DEF Init, Restore
<1>3. DOMAIN calls = {1} /\ calls[1] = c
  BY <1>2
<1>4. c.kind = "me" /\ c.from = "app" /\ c.as = token
  BY <1>1 DEF Call
<1>5. AllFit(calls, token, user, busy, owner) /\ OneForApp(calls)
  BY <1>3, <1>4 DEF AllFit, Fits, OneForApp, Init
<1>6. Shows(panel, user, owner)
  <2>1. Nothing \in Origin
    BY OriginTyped
  <2> QED
    BY <2>1, ShowsMounted DEF Init
<1> QED
  BY <1>5, <1>6 DEF Session, Init

(* What the actor does.                                                    *)
LEMMA EnterFits ==
    ASSUME TypeInv, Session, user # None,
           NEW v, NEW d \in Queries \cup {None}, NEW s \in Origin,
           Enter(v, d, s)
    PROVE  /\ AllFit(calls', token, user, busy, owner) /\ OneForApp(calls')
           /\ Shows(panel', user, owner)
<1> USE NowTyped
<1>1. LeavePage(calls) \in Seq(SortedCalls)
  BY PageLeft
<1>2. /\ AllFit(LeavePage(calls), token, user, busy, owner)
      /\ NoneForApp(LeavePage(calls)) /\ OneForApp(LeavePage(calls))
  BY FitLeft DEF Session
<1>3. PICK c : c = Call("history", "page", token, None)
  OBVIOUS
<1>4. c \in SortedCalls
  BY <1>3, Sent DEF Kinds
<1>5. c.from = "page" /\ c.as = token /\ c.listed = {}
  BY <1>3 DEF Call
<1>6. Fits(c, token, user, busy, owner)
  BY <1>5 DEF Fits, Session
<1>7. /\ AllFit(Append(LeavePage(calls), c), token, user, busy, owner)
      /\ OneForApp(Append(LeavePage(calls), c))
  BY <1>1, <1>2, <1>4, <1>6, FitAppended
<1>8. calls' = LeavePage(calls) \/ calls' = Append(LeavePage(calls), c)
  BY <1>3 DEF Enter
<1> QED
  BY <1>2, <1>7, <1>8, ShowsMounted DEF Enter

(* A call the page sends.                                                  *)
LEMMA PageSends ==
    ASSUME TypeInv, Session, user # None, NEW kind \in Kinds,
           kind \notin {"me", "login"}, NEW query \in Queries \cup {None}
    PROVE  LET S == Append(calls, Call(kind, "page", token, query)) IN
           AllFit(S, token, user, busy, owner) /\ OneForApp(S)
<1> USE NowTyped
<1>1. PICK c : c = Call(kind, "page", token, query)
  OBVIOUS
<1>2. c \in SortedCalls
  BY <1>1, Sent
<1>3. c.from = "page" /\ c.as = token /\ c.listed = {}
  BY <1>1 DEF Call
<1>4. Fits(c, token, user, busy, owner)
  BY <1>3 DEF Fits, Session
<1> QED
  BY <1>1, <1>2, <1>3, <1>4, FitAppended DEF Session

LEMMA SignInFits ==
    ASSUME TypeInv, Session, NEW u \in Users, SignIn(u), ~overlapped'
    PROVE  Session'
<1> USE NowTyped
<1>1. NoneForApp(calls)
  <2>1. SUFFICES ASSUME NEW i \in DOMAIN calls, calls[i].from = "app"
                 PROVE  FALSE
    BY DEF NoneForApp
  <2>2. calls[i].kind # "me"
    BY <2>1 DEF SignIn
  <2>3. calls[i].kind = "login"
    BY <2>1, <2>2, CallSorted DEF Sorted
  <2> QED
    BY <2>1, <2>3 DEF SignIn, Session, AllFit, Fits
<1>2. AllFit(calls, token, user, TRUE, owner) /\ OneForApp(calls)
  BY DEF Session, AllFit, Fits
<1>3. PICK c : c = Call("login", "app", u, None)
  OBVIOUS
<1>4. c \in SortedCalls
  BY <1>3, Sent DEF Kinds
<1>5. c.from = "app" /\ c.kind = "login"
  BY <1>3 DEF Call
<1>6. Fits(c, token, user, TRUE, owner)
  BY <1>5 DEF Fits, SignIn
<1>7. /\ AllFit(Append(calls, c), token, user, TRUE, owner)
      /\ OneForApp(Append(calls, c))
  BY <1>1, <1>2, <1>4, <1>6, FitAppended
<1> QED
  BY <1>3, <1>7 DEF SignIn, Session

LEMMA ActorFits ==
    ASSUME TypeInv, ~overlapped => Session, ~overlapped',
           \/ \E u \in Users : SignIn(u)
           \/ \E v \in Views : Navigate(v)
           \/ \E q \in panel.history : UseHistoricalQuery(q)
           \/ Logout \/ SubmitQuery \/ RequestAccess \/ SubmitDisclosure
           \/ VerifyWorkflow \/ Reload
    PROVE  Session'
<1> USE NowTyped
<1>1. ASSUME NEW u \in Users, SignIn(u) PROVE Session'
  <2>1. ~overlapped
    BY <1>1 DEF SignIn
  <2> QED
    BY <1>1, <2>1, SignInFits
<1>2. ASSUME NEW v \in Views, Navigate(v) PROVE Session'
  <2>1. Session /\ user # None /\ Enter(v, draft, saved)
    BY <1>2 DEF Navigate
  <2>2. /\ AllFit(calls', token, user, busy, owner) /\ OneForApp(calls')
        /\ Shows(panel', user, owner)
    BY <2>1, EnterFits
  <2> QED
    BY <1>2, <2>1, <2>2 DEF Navigate, Session
<1>3. ASSUME NEW q \in panel.history, UseHistoricalQuery(q) PROVE Session'
  <2>1. Session
    BY <1>3 DEF UseHistoricalQuery
  <2>2. panel'.output = Nothing /\ panel'.history = panel.history
    BY <1>3 DEF UseHistoricalQuery, Panels
  <2>3. Shows(panel', user, owner)
    BY <2>1, <2>2 DEF Session, Shows, Nothing
  <2> QED
    BY <1>3, <2>1, <2>3 DEF UseHistoricalQuery, Session
<1>4. ASSUME Logout PROVE Session'
  <2>1. user # None /\ user' = None /\ calls' = LeavePage(calls)
    BY <1>4 DEF Logout
  <2>2. AllFit(calls', token', user', busy', owner') /\ OneForApp(calls')
    <3>1. CASE ~overlapped
      BY <1>4, <2>1, <3>1, FitLeft DEF Logout, Session
    <3>2. CASE overlapped
      <4>1. \A i \in DOMAIN calls : calls[i].from # "app"
        BY <1>4, <3>2 DEF Logout, StillOverlapped
      <4>2. \A i \in DOMAIN calls' : calls'[i].from \notin {"app", "page"}
        BY <2>1, <4>1, PageLeft
      <4> QED
        BY <4>2 DEF AllFit, Fits, OneForApp
    <3> QED
      BY <3>1, <3>2
  <2>3. Shows(panel', user', owner')
    BY <1>4, ShowsMounted, OriginTyped DEF Logout
  <2> QED
    BY <2>1, <2>2, <2>3 DEF Session
<1>5. ASSUME SubmitQuery PROVE Session'
  <2>1. Session /\ user # None /\ "create" \in Kinds
    BY <1>5 DEF SubmitQuery, Kinds
  <2>2. AllFit(calls', token, user, busy, owner) /\ OneForApp(calls')
    BY <1>5, <2>1, PageSends DEF SubmitQuery
  <2> QED
    BY <1>5, <2>1, <2>2 DEF SubmitQuery, Session, Store, App
<1>6. ASSUME RequestAccess PROVE Session'
  <2>1. PICK q : q = panel.output.query
    OBVIOUS
  <2>2. q \in Queries \cup {None}
    BY <2>1, PanelTyped, OriginTyped
  <2>3. saved' \in Origin /\ Enter("disclosure", q, saved')
    BY <1>6, <2>1, <2>2, OriginTyped DEF RequestAccess
  <2>4. Session /\ user # None
    BY <1>6 DEF RequestAccess
  <2>5. /\ AllFit(calls', token, user, busy, owner) /\ OneForApp(calls')
        /\ Shows(panel', user, owner)
    BY <2>2, <2>3, <2>4, EnterFits
  <2> QED
    BY <1>6, <2>4, <2>5 DEF RequestAccess, Session
<1>7. ASSUME SubmitDisclosure PROVE Session'
  <2>1. Session /\ user # None /\ "act" \in Kinds
    BY <1>7 DEF SubmitDisclosure, Kinds
  <2>2. panel.queryId \in Queries \cup {None}
    BY PanelTyped
  <2>3. AllFit(calls', token, user, busy, owner) /\ OneForApp(calls')
    BY <1>7, <2>1, <2>2, PageSends DEF SubmitDisclosure
  <2>4. panel'.output = Nothing /\ panel'.history = panel.history
    BY <1>7 DEF SubmitDisclosure, Panels
  <2>5. Shows(panel', user, owner)
    BY <2>1, <2>4 DEF Session, Shows, Nothing
  <2> QED
    BY <1>7, <2>1, <2>3, <2>5 DEF SubmitDisclosure, Session
<1>8. ASSUME VerifyWorkflow PROVE Session'
  <2>1. Session /\ user # None /\ "audit" \in Kinds
    BY <1>8 DEF VerifyWorkflow, Kinds
  <2>2. panel.queryId \in Queries \cup {None}
    BY PanelTyped
  <2>3. AllFit(calls', token, user, busy, owner) /\ OneForApp(calls')
    BY <1>8, <2>1, <2>2, PageSends DEF VerifyWorkflow
  <2> QED
    BY <1>8, <2>1, <2>3 DEF VerifyWorkflow, Session, Store, App
<1>9. ASSUME Reload PROVE Session'
  <2>1. PICK c : c = Call("me", "app", token, None)
    OBVIOUS
  <2>2. c \in SortedCalls
    BY <2>1, Sent DEF Kinds
  <2>3. c.from = "app" /\ c.kind = "me" /\ c.as = token
    BY <2>1 DEF Call
  <2>4. Fits(c, token, None, FALSE, owner)
    BY <2>3 DEF Fits
  <2>5. Reloaded(calls) \in Seq(SortedCalls)
    BY DocumentGone
  <2>6. /\ AllFit(Reloaded(calls), token, None, FALSE, owner)
        /\ NoneForApp(Reloaded(calls)) /\ OneForApp(Reloaded(calls))
    BY FitGone
  <2>7. calls' = Append(Reloaded(calls), c)
    BY <1>9, <2>1 DEF Reload, Restore, Reloaded
  <2>8. AllFit(calls', token, None, FALSE, owner) /\ OneForApp(calls')
    BY <2>2, <2>4, <2>5, <2>6, <2>7, FitAppended
  <2>9. Shows(panel', None, owner)
    BY <1>9, ShowsMounted, OriginTyped DEF Reload
  <2> QED
    BY <1>9, <2>8, <2>9 DEF Reload, Session
<1> QED
  BY <1>1, <1>2, <1>3, <1>4, <1>5, <1>6, <1>7, <1>8, <1>9

(* Call i changed to c, of which only the answer differs.                  *)
LEMMA AnswerFits ==
    ASSUME TypeInv, Session, NEW i \in DOMAIN calls, NEW c \in SortedCalls,
           c.from = calls[i].from, c.kind = calls[i].kind,
           c.as = calls[i].as,
           \/ c.listed = calls[i].listed
           \/ \A q \in c.listed : q \in DOMAIN owner /\ owner[q] = c.as
    PROVE  LET S == [calls EXCEPT ![i] = c] IN
           AllFit(S, token, user, busy, owner) /\ OneForApp(S)
<1>1. Fits(calls[i], token, user, busy, owner)
  BY DEF Session, AllFit
<1>2. Fits(c, token, user, busy, owner)
  BY <1>1 DEF Fits
<1> QED
  BY <1>2, NowTyped, FitChanged DEF Session

LEMMA GatewayFits ==
    ASSUME TypeInv, Session, NEW i \in DOMAIN calls, Gateway(i)
    PROVE  Session'
<1> USE NowTyped
<1>0. calls[i] \in Calls /\ Sorted(calls[i])
  BY CallSorted
<1>1. ASSUME NEW s \in {"sent", "answered", "refused"},
             calls' = [calls EXCEPT ![i].stage = s],
             UNCHANGED <<Store, App, panel, owner, overlapped>>
      PROVE  Session'
  <2>1. PICK c : c = [calls[i] EXCEPT !.stage = s]
    OBVIOUS
  <2>2. calls' = [calls EXCEPT ![i] = c] /\ c \in SortedCalls
    BY <1>1, <2>1, StageChanged
  <2>3. /\ c.from = calls[i].from /\ c.kind = calls[i].kind
        /\ c.as = calls[i].as /\ c.listed = calls[i].listed
    BY <1>0, <2>1 DEF Calls
  <2>4. AllFit(calls', token, user, busy, owner) /\ OneForApp(calls')
    BY <2>2, <2>3, AnswerFits
  <2> QED
    BY <1>1, <2>4 DEF Session, Store, App
<1>2. ASSUME \/ LoginServed(i) \/ MeServed(i) \/ WorkflowServed(i)
             \/ ActServed(i) \/ Refuse(i)
      PROVE  Session'
  BY <1>1, <1>2 DEF LoginServed, MeServed, WorkflowServed, ActServed, Respond,
                    Refuse
<1>3. ASSUME QueriesServed(i) PROVE Session'
  <2>1. PICK l : l = {q \in DOMAIN owner : owner[q] = calls[i].as}
    OBVIOUS
  <2>2. l \in SUBSET Queries
    BY <2>1, QueriesTyped
  <2>3. PICK c : c = [calls[i] EXCEPT !.stage = "answered", !.listed = l]
    OBVIOUS
  <2>4. /\ c \in Calls /\ c.from = calls[i].from /\ c.kind = calls[i].kind
        /\ c.as = calls[i].as /\ c.listed = l
    BY <1>0, <2>2, <2>3 DEF Calls
  <2>5. c \in SortedCalls
    BY <1>0, <2>4 DEF SortedCalls, Sorted
  <2>6. calls' = [calls EXCEPT ![i] = c]
    BY <1>3, <2>1, <2>3 DEF QueriesServed
  <2>7. AllFit(calls', token, user, busy, owner) /\ OneForApp(calls')
    BY <2>1, <2>4, <2>5, <2>6, AnswerFits
  <2> QED
    BY <1>3, <2>7 DEF QueriesServed, Session, Store, App
<1>4. ASSUME QueryServed(i) PROVE Session'
  <2>1. PICK c : c = [calls[i] EXCEPT !.stage = "answered",
                                      !.query = Len(owner) + 1]
    OBVIOUS
  <2>2. Len(owner) \in Nat /\ Len(owner) + 1 \in Queries
    BY <1>4, SessionAssumption DEF QueryServed, Queries
  <2>3. /\ c \in Calls /\ c.from = calls[i].from /\ c.kind = calls[i].kind
        /\ c.as = calls[i].as /\ c.listed = calls[i].listed
    BY <1>0, <2>1, <2>2 DEF Calls
  <2>4. c \in SortedCalls
    BY <1>0, <2>3 DEF SortedCalls, Sorted
  <2>5. calls' = [calls EXCEPT ![i] = c]
    BY <1>4, <2>1 DEF QueryServed
  <2>6. AllFit(calls', token, user, busy, owner) /\ OneForApp(calls')
    BY <2>3, <2>4, <2>5, AnswerFits
  <2>7. calls[i].as \in Users /\ owner' = Append(owner, calls[i].as)
    BY <1>0, <1>4 DEF QueryServed, RequireAuth, Calls
  <2>8. AllFit(calls', token, user, busy, owner') /\ Shows(panel, user, owner')
    BY <2>6, <2>7, FitOwned DEF Session
  <2> QED
    BY <1>4, <2>6, <2>8 DEF QueryServed, Session, Store, App
<1> QED
  BY <1>2, <1>3, <1>4 DEF Gateway, Serve

(* What the tab does with an answer.                                       *)
LEMMA TabFits ==
    ASSUME TypeInv, Session, NEW i \in DOMAIN calls, Tab(i)
    PROVE  Session'
<1> USE NowTyped
<1>0. /\ calls[i] \in Calls /\ Sorted(calls[i])
      /\ Fits(calls[i], token, user, busy, owner)
      /\ calls[i].from \in {"app", "page", "left", "gone"}
  BY CallSorted DEF Session, AllFit, Calls
<1>1. /\ RemoveAt(calls, i) \in Seq(SortedCalls)
      /\ AllFit(RemoveAt(calls, i), token, user, busy, owner)
      /\ OneForApp(RemoveAt(calls, i))
  BY Removed, FitRemoved DEF Session
<1>2. ASSUME calls[i].from = "app", calls' = RemoveAt(calls, i)
      PROVE  /\ user = None
             /\ AllFit(calls', token', user', busy', owner')
             /\ OneForApp(calls')
  BY <1>2, FitAnswered DEF Session
<1>3. ASSUME OnPage(i)
      PROVE  /\ user # None /\ calls[i].as = user
             /\ \A q \in calls[i].listed : q \in DOMAIN owner /\ owner[q] = user
  BY <1>0, <1>3 DEF Fits, OnPage
<1>4. ASSUME panel' = IF OnPage(i)
                      THEN [panel EXCEPT !.output =
                               [query |-> calls[i].query, by |-> calls[i].as]]
                      ELSE panel
      PROVE  Shows(panel', user, owner)
  <2>1. CASE OnPage(i)
    <3>1. panel'.output.by = user /\ panel'.history = panel.history
      BY <1>3, <1>4, <2>1 DEF Panels
    <3> QED
      BY <3>1 DEF Session, Shows
  <2>2. CASE ~OnPage(i)
    BY <1>4, <2>2 DEF Session
  <2> QED
    BY <2>1, <2>2
<1>5. ASSUME Restored(i) PROVE Session'
  <2>1. calls[i].from = "app"
    BY <1>0, <1>5 DEF Restored, Answered, Sorted
  <2>2. user' = token /\ token' = token
    BY <1>0, <1>5, <2>1 DEF Restored, Answered, Fits
  <2>3. /\ user = None /\ AllFit(calls', token', user', busy', owner')
        /\ OneForApp(calls')
    BY <1>2, <1>5, <2>1 DEF Restored, Done
  <2>4. Shows(panel, user', owner)
    BY <2>3, ShowsAnyone DEF Session
  <2> QED
    BY <1>5, <2>2, <2>3, <2>4 DEF Restored, Session
<1>6. ASSUME SignedIn(i) PROVE Session'
  <2>1. calls[i].from = "app"
    BY <1>0, <1>6 DEF SignedIn, Answered, Sorted
  <2>2. /\ user = None /\ AllFit(calls', token', user', busy', owner')
        /\ OneForApp(calls')
    BY <1>2, <1>6, <2>1 DEF SignedIn, Done
  <2>3. Shows(panel, user', owner)
    BY <2>2, ShowsAnyone DEF Session
  <2> QED
    BY <1>6, <2>2, <2>3 DEF SignedIn, Session
<1>7. ASSUME QueryCreated(i) PROVE Session'
  <2>1. Shows(panel', user, owner)
    BY <1>4, <1>7 DEF QueryCreated
  <2> QED
    BY <1>1, <1>7, <2>1 DEF QueryCreated, Done, Session
<1>8. ASSUME HistoryListed(i) PROVE Session'
  <2>1. PICK a : a = calls[i]
    OBVIOUS
  <2>2. a \in Calls /\ "workflows" \in Kinds
    BY <1>0, <2>1 DEF Kinds
  <2>3. PICK c : c = [a EXCEPT !.kind = "workflows", !.as = token,
                               !.stage = "sent"]
    OBVIOUS
  <2>4. /\ c \in Calls /\ c.from = a.from /\ c.kind = "workflows"
        /\ c.as = token /\ c.listed = a.listed
    BY <2>2, <2>3 DEF Calls
  <2>5. calls[i].from # "app"
    BY <1>0, <1>8 DEF HistoryListed, Answered, Sorted
  <2>6. c \in SortedCalls
    BY <2>1, <2>4, <2>5 DEF SortedCalls, Sorted
  <2>7. Fits(c, token, user, busy, owner)
    BY <1>0, <2>1, <2>4, <2>5 DEF Fits, Session
  <2>8. calls' = [calls EXCEPT ![i] = c]
    BY <1>8, <2>1, <2>3 DEF HistoryListed
  <2>9. AllFit(calls', token, user, busy, owner) /\ OneForApp(calls')
    BY <2>1, <2>4, <2>6, <2>7, <2>8, FitChanged DEF Session
  <2> QED
    BY <1>8, <2>9 DEF HistoryListed, Session, Store, App
<1>9. ASSUME HistoryRead(i) PROVE Session'
  <2>1. CASE OnPage(i)
    <3>1. /\ panel'.output = panel.output
          /\ panel'.history = calls[i].listed
      BY <1>9, <2>1 DEF HistoryRead, Panels
    <3>2. Shows(panel', user, owner)
      BY <1>3, <2>1, <3>1 DEF Session, Shows
    <3> QED
      BY <1>1, <1>9, <3>2 DEF HistoryRead, Done, Session
  <2>2. CASE ~OnPage(i)
    BY <1>1, <1>9, <2>2 DEF HistoryRead, Done, Session
  <2> QED
    BY <2>1, <2>2
<1>10. ASSUME Acted(i) PROVE Session'
  <2>1. calls[i].from \in {"page", "left"}
    BY <1>0, <1>10 DEF Acted, Answered, Sorted
  <2>2. PICK c : c = Call("history", calls[i].from, token, None)
    OBVIOUS
  <2>3. c \in SortedCalls
    BY <2>1, <2>2, Sent DEF Kinds
  <2>4. c.from = calls[i].from /\ c.as = token /\ c.listed = {}
    BY <2>2 DEF Call
  <2>5. Fits(c, token, user, busy, owner)
    BY <1>0, <2>1, <2>4 DEF Fits, Session
  <2>6. calls' = Append(RemoveAt(calls, i), c)
    BY <1>10, <2>2 DEF Acted
  <2>7. AllFit(calls', token, user, busy, owner) /\ OneForApp(calls')
    BY <1>1, <2>1, <2>3, <2>4, <2>5, <2>6, FitAppended
  <2>8. Shows(panel', user, owner)
    BY <1>4, <1>10 DEF Acted
  <2> QED
    BY <1>10, <2>7, <2>8 DEF Acted, Session, Store, App
<1>11. ASSUME Verified(i) PROVE Session'
  <2>1. Shows(panel', user, owner)
    BY <1>4, <1>11 DEF Verified
  <2> QED
    BY <1>1, <1>11, <2>1 DEF Verified, Done, Session, Store, App
<1>12. ASSUME Refused(i) PROVE Session'
  <2>1. CASE calls[i].from = "app"
    <3>1. /\ user = None /\ AllFit(calls', token', user', busy', owner')
          /\ OneForApp(calls')
      BY <1>2, <1>12, <2>1 DEF Refused, Done
    <3> QED
      BY <1>12, <3>1 DEF Refused, Session
  <2>2. CASE calls[i].from # "app"
    <3>1. calls[i].kind \notin {"me", "login"}
      BY <1>0, <1>12, <2>2 DEF Refused, Sorted
    <3>2. token' = token
      BY <1>12, <3>1 DEF Refused
    <3>3. busy' = busy
      BY <1>12, <3>1 DEF Refused
    <3> QED
      BY <1>1, <1>12, <3>2, <3>3 DEF Refused, Done, Session
  <2> QED
    BY <2>1, <2>2
<1>13. ASSUME Vanish(i) PROVE Session'
  BY <1>1, <1>13 DEF Vanish, Done, Session, Store, App
<1> QED
  BY <1>5, <1>6, <1>7, <1>8, <1>9, <1>10, <1>11, <1>12, <1>13 DEF Tab

LEMMA StepKeepsSession == IInv /\ [Next]_vars => IInv'
<1> SUFFICES ASSUME IInv, [Next]_vars PROVE IInv'
  OBVIOUS
<1>1. TypeInv'
  BY TypeStep DEF IInv
<1>2. ASSUME ~overlapped' PROVE Session'
  <2>1. CASE UNCHANGED vars
    BY <1>2, <2>1 DEF IInv, Session, vars, Store, App
  <2>2. CASE \E i \in DOMAIN calls : Gateway(i) \/ Tab(i)
    <3>1. PICK i \in DOMAIN calls : Gateway(i) \/ Tab(i)
      BY <2>2
    <3>2. overlapped' = overlapped
      BY <3>1 DEF Gateway, Serve, LoginServed, MeServed, WorkflowServed,
                  ActServed, Respond, QueriesServed, QueryServed, Refuse, Tab,
                  Restored, SignedIn, QueryCreated, HistoryListed, HistoryRead,
                  Acted, Verified, Refused, Vanish
    <3> QED
      BY <1>2, <3>1, <3>2, GatewayFits, TabFits DEF IInv
  <2>3. CASE ~ \E i \in DOMAIN calls : Gateway(i) \/ Tab(i)
    BY <1>2, <2>1, <2>3, ActorFits DEF IInv, Next
  <2> QED
    BY <2>2, <2>3
<1> QED
  BY <1>1, <1>2 DEF IInv

LEMMA IInvHolds == Spec => []IInv
<1>1. Init => IInv
  BY TypeInit, SessionInit DEF IInv
<1> QED
  BY <1>1, StepKeepsSession, PTL DEF Spec

(* The user who is shown is the one the calls are made for: whatever the   *)
(* order of the answers, whoever signs in and out, whenever the page is    *)
(* reloaded, unless a sign-in overtook the restore of a session            *)
(* (App.tsx:139-168).                                                      *)
THEOREM TabActsAsShown == Spec => []ActsAsShown
<1>1. IInv => ActsAsShown
  BY DEF IInv, Session, ActsAsShown, AllFit, Fits, OnPage
<1> QED
  BY <1>1, IInvHolds, PTL

(* Late answers of the actor before never reach the pages of the next one. *)
THEOREM TabShowsOwnAnswers == Spec => []ShowsOwnAnswers
<1>1. IInv => ShowsOwnAnswers
  BY DEF IInv, Session, ShowsOwnAnswers, Shows
<1> QED
  BY <1>1, IInvHolds, PTL

-----------------------------------------------------------------------------
(* Whose query is saved.                                                   *)

(* No sign-in overtakes the restore, nobody leaves Discovery while a query *)
(* is on its way, and no restore of a session there is gets refused.  A tab*)
(* without a token may be refused: that is every ordinary first visit.     *)
Orderly ==
    /\ ~overlapped
    /\ \A i \in DOMAIN calls :
          /\ calls[i].kind = "create" => calls[i].from # "left"
          /\ calls[i].kind = "me" /\ calls[i].from = "app"
             /\ calls[i].as # None => calls[i].stage # "refused"

IsRestore(c) == c.kind = "me" /\ c.from = "app"

(* A token that nobody is shown for is about to be restored.               *)
Restoring(S, t, u) ==
    u = None /\ t # None => \E i \in DOMAIN S : IsRestore(S[i])

Kept ==
    /\ saved.by # None => saved.by = token
    /\ Restoring(calls, token, user)

LEMMA RestoreRemains ==
    ASSUME NEW S \in Seq(SortedCalls), NEW i \in DOMAIN S,
           NEW j \in DOMAIN S, j # i, IsRestore(S[j])
    PROVE  \E k \in DOMAIN RemoveAt(S, i) : IsRestore(RemoveAt(S, i)[k])
<1>1. DOMAIN S = 1..Len(S) /\ Len(S) \in Nat
  OBVIOUS
<1>2. PICK k \in 1..(Len(S) - 1) : Before(i, k) = j
  <2>1. CASE j < i
    BY <1>1, <2>1 DEF Before
  <2>2. CASE j > i
    <3>1. j - 1 \in 1..(Len(S) - 1) /\ ~(j - 1 < i) /\ (j - 1) + 1 = j
      BY <1>1, <2>2
    <3> QED
      BY <3>1 DEF Before
  <2> QED
    BY <1>1, <2>1, <2>2
<1>3. k \in DOMAIN RemoveAt(S, i) /\ RemoveAt(S, i)[k] = S[j]
  BY <1>2, Removed
<1> QED
  BY <1>3

LEMMA ActorKeeps ==
    ASSUME IInv, Orderly, Orderly', Kept,
           \/ \E u \in Users : SignIn(u)
           \/ \E v \in Views : Navigate(v)
           \/ \E q \in panel.history : UseHistoricalQuery(q)
           \/ Logout \/ SubmitQuery \/ RequestAccess \/ SubmitDisclosure
           \/ VerifyWorkflow \/ Reload
    PROVE  Kept'
<1>1. /\ Session /\ calls \in Seq(SortedCalls)
      /\ user # None => token = user
  BY NowTyped DEF IInv, Orderly, Session
<1>2. ASSUME NEW u \in Users, SignIn(u) PROVE Kept'
  <2>1. PICK c : calls' = Append(calls, c)
    BY <1>2 DEF SignIn
  <2>2. /\ DOMAIN calls \subseteq DOMAIN calls'
        /\ \A i \in DOMAIN calls : calls'[i] = calls[i]
    BY <1>1, <2>1
  <2> QED
    BY <1>2, <2>2 DEF SignIn, Kept, Restoring
<1>3. ASSUME user # None, UNCHANGED <<user, token>>,
             saved' = saved \/ saved'.by = user
      PROVE  Kept'
  BY <1>1, <1>3 DEF Kept, Restoring
<1>4. ASSUME NEW v \in Views, Navigate(v) PROVE Kept'
  BY <1>3, <1>4 DEF Navigate
<1>5. ASSUME NEW q \in panel.history, UseHistoricalQuery(q) PROVE Kept'
  BY <1>3, <1>5 DEF UseHistoricalQuery
<1>6. CASE Logout
  BY <1>6 DEF Logout, Kept, Restoring, Nothing
<1>7. CASE SubmitQuery \/ VerifyWorkflow
  BY <1>3, <1>7 DEF SubmitQuery, VerifyWorkflow, Store, App
<1>8. CASE RequestAccess \/ SubmitDisclosure
  BY <1>3, <1>8 DEF RequestAccess, SubmitDisclosure
<1>9. CASE Reload
  <2>1. PICK c : c = Call("me", "app", token, None)
    OBVIOUS
  <2>2. c \in SortedCalls /\ IsRestore(c)
    BY <2>1, Sent, NowTyped DEF Kinds, Call, IsRestore, IInv
  <2>3. Reloaded(calls) \in Seq(SortedCalls)
    BY <1>1, DocumentGone
  <2>4. calls' = Append(Reloaded(calls), c)
    BY <1>9, <2>1 DEF Reload, Restore, Reloaded
  <2>5. \E i \in DOMAIN calls' : calls'[i] = c
    BY <2>2, <2>3, <2>4
  <2> QED
    BY <1>9, <2>2, <2>5 DEF Reload, Kept, Restoring
<1> QED
  BY <1>2, <1>4, <1>5, <1>6, <1>7, <1>8, <1>9

LEMMA CallKeeps ==
    ASSUME IInv, Orderly, Orderly', Kept,
           NEW i \in DOMAIN calls, Gateway(i) \/ Tab(i)
    PROVE  Kept'
<1>1. /\ Session /\ calls \in Seq(SortedCalls)
      /\ user # None => token = user
      /\ calls[i] \in Calls /\ Sorted(calls[i])
      /\ Fits(calls[i], token, user, busy, owner)
      /\ OneForApp(calls)
  BY NowTyped, CallSorted DEF IInv, Orderly, Session, AllFit
<1>2. calls[i].from = "app" /\ ~IsRestore(calls[i]) => user = None /\ token = None
  BY <1>1 DEF Kept, Restoring, OneForApp, Fits, IsRestore
<1>3. ASSUME ~IsRestore(calls[i]), calls' = RemoveAt(calls, i),
             UNCHANGED <<user, token>>
      PROVE  Restoring(calls', token', user')
  BY <1>1, <1>3, RestoreRemains DEF Kept, Restoring
<1>4. ASSUME NEW c, calls' = [calls EXCEPT ![i] = c],
             IsRestore(calls[i]) =>
                 c.kind = calls[i].kind /\ c.from = calls[i].from,
             UNCHANGED <<user, token, saved>>
      PROVE  Kept'
  <2>1. DOMAIN calls' = DOMAIN calls
    BY <1>4
  <2>2. \A j \in DOMAIN calls : IsRestore(calls[j]) => IsRestore(calls'[j])
    BY <1>4, <2>1 DEF IsRestore
  <2> QED
    BY <1>4, <2>1, <2>2 DEF Kept, Restoring
<1>5. CASE Gateway(i)
  <2>1. /\ \E c : /\ calls' = [calls EXCEPT ![i] = c]
                  /\ c.kind = calls[i].kind /\ c.from = calls[i].from
        /\ UNCHANGED <<user, token, saved>>
    <3>1. ASSUME NEW st, calls' = [calls EXCEPT ![i].stage = st]
          PROVE  \E c : /\ calls' = [calls EXCEPT ![i] = c]
                        /\ c.kind = calls[i].kind /\ c.from = calls[i].from
      <4>1. PICK c : c = [calls[i] EXCEPT !.stage = st]
        OBVIOUS
      <4>2. c.kind = calls[i].kind /\ c.from = calls[i].from
        BY <1>1, <4>1 DEF Calls
      <4> QED
        BY <3>1, <4>1, <4>2
    <3>2. CASE QueriesServed(i)
      <4>1. PICK l : l = {q \in DOMAIN owner : owner[q] = calls[i].as}
        OBVIOUS
      <4>2. PICK c : c = [calls[i] EXCEPT !.stage = "answered", !.listed = l]
        OBVIOUS
      <4>3. c.kind = calls[i].kind /\ c.from = calls[i].from
        BY <1>1, <4>2 DEF Calls
      <4>4. calls' = [calls EXCEPT ![i] = c]
        BY <3>2, <4>1, <4>2 DEF QueriesServed
      <4> QED
        BY <3>2, <4>3, <4>4 DEF QueriesServed, Store, App
    <3>3. CASE QueryServed(i)
      <4>1. PICK c : c = [calls[i] EXCEPT !.stage = "answered",
                                          !.query = Len(owner) + 1]
        OBVIOUS
      <4>2. c.kind = calls[i].kind /\ c.from = calls[i].from
        BY <1>1, <4>1 DEF Calls
      <4>3. calls' = [calls EXCEPT ![i] = c]
        BY <3>3, <4>1 DEF QueryServed
      <4> QED
        BY <3>3, <4>2, <4>3 DEF QueryServed, Store, App
    <3>4. CASE \/ LoginServed(i) \/ MeServed(i) \/ WorkflowServed(i)
               \/ ActServed(i) \/ Refuse(i)
      BY <3>1, <3>4 DEF LoginServed, MeServed, WorkflowServed, ActServed,
                        Refuse, Respond, Store, App
    <3> QED
      BY <1>5, <3>2, <3>3, <3>4 DEF Gateway, Serve
  <2> QED
    BY <1>4, <2>1
<1>6. CASE Restored(i)
  <2>1. calls[i].from = "app"
    BY <1>1, <1>6 DEF Restored, Answered, Sorted
  <2>2. user' = token /\ UNCHANGED <<token, saved>>
    BY <1>1, <1>6, <2>1 DEF Restored, Answered, Fits
  <2> QED
    BY <2>2 DEF Kept, Restoring
<1>7. CASE SignedIn(i)
  <2>1. calls[i].from = "app" /\ ~IsRestore(calls[i])
    BY <1>1, <1>7 DEF SignedIn, Answered, Sorted, IsRestore
  <2>2. saved.by = None
    BY <1>2, <2>1 DEF Kept
  <2> QED
    BY <1>7, <2>2 DEF SignedIn, Kept, Restoring
<1>8. CASE QueryCreated(i)
  <2>1. /\ calls[i].kind = "create" /\ saved'.by = calls[i].as
        /\ UNCHANGED <<token, user>> /\ calls' = RemoveAt(calls, i)
    BY <1>8 DEF QueryCreated, Answered, Done
  <2>2. calls[i].from = "page"
    BY <1>1, <1>8, <2>1 DEF QueryCreated, Answered, Orderly, Sorted, Calls
  <2>3. calls[i].as = token
    BY <1>1, <2>2 DEF Fits
  <2> QED
    BY <1>3, <2>1, <2>3 DEF Kept, IsRestore
<1>9. CASE HistoryListed(i)
  <2>1. PICK c : c = [calls[i] EXCEPT !.kind = "workflows", !.as = token,
                                      !.stage = "sent"]
    OBVIOUS
  <2>2. calls' = [calls EXCEPT ![i] = c]
    BY <1>9, <2>1 DEF HistoryListed
  <2>3. ~IsRestore(calls[i])
    BY <1>9 DEF HistoryListed, Answered, IsRestore
  <2> QED
    BY <1>4, <1>9, <2>2, <2>3 DEF HistoryListed, Store, App
<1>10. CASE HistoryRead(i)
  <2>1. /\ ~IsRestore(calls[i]) /\ calls' = RemoveAt(calls, i)
        /\ UNCHANGED <<token, user>>
        /\ saved' = saved \/ (OnPage(i) /\ saved'.by = user)
    BY <1>10 DEF HistoryRead, Answered, Done, IsRestore
  <2>2. OnPage(i) => user = token
    BY <1>1 DEF OnPage, Fits
  <2> QED
    BY <1>3, <2>1, <2>2 DEF Kept
<1>11. CASE Acted(i)
  <2>1. PICK c : calls' = Append(RemoveAt(calls, i), c)
    BY <1>11 DEF Acted
  <2>2. ~IsRestore(calls[i]) /\ UNCHANGED <<token, user, saved>>
    BY <1>11 DEF Acted, Answered, IsRestore, Store, App
  <2>3. RemoveAt(calls, i) \in Seq(SortedCalls)
    BY <1>1, Removed
  <2>4. /\ DOMAIN RemoveAt(calls, i) \subseteq DOMAIN calls'
        /\ \A k \in DOMAIN RemoveAt(calls, i) :
              calls'[k] = RemoveAt(calls, i)[k]
    BY <2>1, <2>3
  <2>5. Restoring(calls', token, user)
    BY <1>1, <2>2, <2>4, RestoreRemains DEF Kept, Restoring
  <2> QED
    BY <2>2, <2>5 DEF Kept
<1>12. CASE Verified(i)
  BY <1>3, <1>12 DEF Verified, Answered, Done, IsRestore, Kept, Store, App
<1>13. CASE Vanish(i)
  BY <1>3, <1>13 DEF Vanish, Done, IsRestore, Kept, Store, App
<1>14. CASE Refused(i)
  <2>1. IsRestore(calls[i]) => token = None
    BY <1>1, <1>14 DEF Refused, Orderly, IsRestore, Fits
  <2>2. calls[i].kind = "me" => IsRestore(calls[i])
    BY <1>1, <1>14 DEF Refused, IsRestore, Sorted
  <2>3. UNCHANGED <<token, user, saved>> /\ calls' = RemoveAt(calls, i)
    BY <1>14, <2>1, <2>2 DEF Refused, Done
  <2>4. CASE IsRestore(calls[i])
    BY <2>1, <2>3, <2>4 DEF Kept, Restoring
  <2>5. CASE ~IsRestore(calls[i])
    BY <1>3, <2>3, <2>5 DEF Kept
  <2> QED
    BY <2>4, <2>5
<1> QED
  BY <1>5, <1>6, <1>7, <1>8, <1>9, <1>10, <1>11, <1>12, <1>13, <1>14 DEF Tab

(* Only three things hand a saved query to the wrong actor: a sign-in that *)
(* overtakes a restore, leaving Discovery while a query is on its way, and *)
(* a restore refused to a token, which drops the token (App.tsx:139-146)   *)
(* but not the saved query.  Without them, first visits included, switching*)
(* actors leaves nothing behind.                                           *)
THEOREM OrderlySwitchingClears == Spec /\ []Orderly => []SwitchingClears
<1>1. Init => Kept
  <2> SUFFICES ASSUME Init PROVE Kept
    OBVIOUS
  <2>1. calls = <<Call("me", "app", token, None)>>
    BY DEF Init, Restore
  <2>2. 1 \in DOMAIN calls /\ IsRestore(calls[1])
    BY <2>1 DEF Call, IsRestore
  <2> QED
    BY <2>2 DEF Init, Kept, Restoring, Nothing
<1>2. IInv /\ Orderly /\ Orderly' /\ Kept /\ [Next]_vars => Kept'
  <2> SUFFICES ASSUME IInv, Orderly, Orderly', Kept, [Next]_vars PROVE Kept'
    OBVIOUS
  <2>1. CASE UNCHANGED vars
    BY <2>1 DEF Kept, vars, Store, App
  <2>2. CASE \E i \in DOMAIN calls : Gateway(i) \/ Tab(i)
    BY <2>2, CallKeeps
  <2>3. CASE ~ \E i \in DOMAIN calls : Gateway(i) \/ Tab(i)
    BY <2>1, <2>3, ActorKeeps DEF Next
  <2> QED
    BY <2>2, <2>3
<1>3. IInv /\ Orderly /\ Kept => SwitchingClears
  BY DEF IInv, Orderly, Session, Kept, SwitchingClears
<1> QED
  BY <1>1, <1>2, <1>3, IInvHolds, PTL DEF Spec
=============================================================================
