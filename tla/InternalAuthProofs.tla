------------------------- MODULE InternalAuthProofs -------------------------
(* For every window, skew and number of deliveries: one run of an adapter  *)
(* handles a call once, turns none away without cause, and a repetition    *)
(* after a restart comes soon or never.                                    *)
EXTENDS InternalAuth, TLAPS

(* What was accepted was accepted in the past, near its stamp.             *)
Past ==
    \A v \in verdicts :
        /\ v.at <= now
        /\ v.run <= run
        /\ stamp[v.call] \in Int
        /\ v.verdict = "accepted" => Near(v.at, stamp[v.call])

(* While a call handled by this run is still near, the cache holds its     *)
(* nonce, for at least as long.                                            *)
Covered ==
    \A v \in verdicts :
        v.verdict = "accepted" /\ v.run = run =>
            \/ now > stamp[v.call] + Window
            \/ \E e \in seen : /\ e.call = v.call
                               /\ e.expiry >= stamp[v.call] + Window

(* The cache holds nothing but what this run has handled.                  *)
Accounted ==
    \A e \in seen : \E w \in verdicts :
        w.verdict = "accepted" /\ w.call = e.call /\ w.run = run

AuthInv ==
    /\ TypeOK /\ Past /\ Covered /\ Accounted
    /\ AcceptedOncePerRun /\ RefusedForCause

(* The purge never drops a nonce whose call is near.                       *)
LEMMA PurgeKeepsNear ==
    ASSUME AuthInv, NEW v \in verdicts, v.verdict = "accepted", v.run = run
    PROVE  \/ now > stamp[v.call] + Window
           \/ \E e \in Purged(seen) : /\ e.call = v.call
                                      /\ e.expiry >= stamp[v.call] + Window
<1>1. CASE now > stamp[v.call] + Window
  BY <1>1
<1>2. CASE \E e \in seen : e.call = v.call /\ e.expiry >= stamp[v.call] + Window
  <2>1. PICK e \in seen : e.call = v.call /\ e.expiry >= stamp[v.call] + Window
    BY <1>2
  <2>2. stamp[v.call] \in Int /\ e.expiry \in Int /\ now \in Int
    BY DEF AuthInv, Past, TypeOK, Instants
  <2>3. e.expiry >= now \/ now > stamp[v.call] + Window
    BY <2>1, <2>2, TimesAssumption
  <2> QED
    BY <2>1, <2>3 DEF Purged
<1> QED
  BY <1>1, <1>2 DEF AuthInv, Covered

(* A call that passes has not been handled by this run.                    *)
LEMMA PassedIsNew ==
    ASSUME AuthInv, NEW c \in Calls, Near(now, stamp[c]),
           ~Remembered(Purged(seen), c), stamp[c] # Unsent,
           NEW v \in verdicts, v.verdict = "accepted", v.call = c
    PROVE  v.run # run
<1> SUFFICES ASSUME v.run = run PROVE FALSE
  OBVIOUS
<1>1. ~(now > stamp[c] + Window)
  <2>1. stamp[c] \in Int /\ now \in Int
    BY DEF AuthInv, TypeOK, Instants
  <2> QED
    BY <2>1, TimesAssumption DEF Near
<1> QED
  BY <1>1, PurgeKeepsNear DEF Remembered

LEMMA AuthInvariance == Spec => []AuthInv
<1>1. Init => AuthInv
  BY TimesAssumption
     DEF Init, AuthInv, TypeOK, Past, Covered, Accounted, AcceptedOncePerRun,
         RefusedForCause, Instants, Verdict
<1>2. AuthInv /\ [Next]_vars => AuthInv'
  <2> SUFFICES ASSUME AuthInv, [Next]_vars PROVE AuthInv'
    OBVIOUS
  <2>0. /\ now \in Int /\ arrivals \in Int /\ run \in Int
        /\ \A c \in Calls : stamp[c] # Unsent => stamp[c] \in Int
    BY TimesAssumption DEF AuthInv, TypeOK, Instants
  <2>1. CASE Tick
    <3>1. TypeOK' /\ Past'
      BY <2>0, <2>1, TimesAssumption
         DEF Tick, AuthInv, TypeOK, Past, Instants, Verdict, Near
    <3>2. Covered'
      BY <2>0, <2>1, TimesAssumption DEF Tick, AuthInv, Covered, Past
    <3>3. Accounted' /\ AcceptedOncePerRun' /\ RefusedForCause'
      BY <2>1 DEF Tick, AuthInv, Accounted, AcceptedOncePerRun,
                  RefusedForCause, Near
    <3> QED
      BY <3>1, <3>2, <3>3 DEF AuthInv
  <2>2. CASE Restart
    <3>1. TypeOK' /\ Past'
      BY <2>0, <2>2, TimesAssumption
         DEF Restart, AuthInv, TypeOK, Past, Verdict, Near
    <3>2. Covered' /\ Accounted'
      BY <2>0, <2>2 DEF Restart, AuthInv, Past, Covered, Accounted
    <3>3. AcceptedOncePerRun' /\ RefusedForCause'
      BY <2>2 DEF Restart, AuthInv, AcceptedOncePerRun, RefusedForCause, Near
    <3> QED
      BY <3>1, <3>2, <3>3 DEF AuthInv
  <2>3. ASSUME NEW c \in Calls, Send(c) PROVE AuthInv'
    <3>1. \A v \in verdicts : stamp'[v.call] = stamp[v.call]
      BY <2>3, TimesAssumption DEF Send, AuthInv, Past, TypeOK, Verdict
    <3>2. TypeOK'
      BY <2>0, <2>3, TimesAssumption DEF Send, AuthInv, TypeOK, Verdict
    <3>3. Past' /\ Covered' /\ Accounted' /\ AcceptedOncePerRun'
      BY <2>3, <3>1
         DEF Send, AuthInv, Past, Covered, Accounted, AcceptedOncePerRun, Near
    <3>4. RefusedForCause'
      BY <2>3, <3>1 DEF Send, AuthInv, RefusedForCause, Near
    <3> QED
      BY <3>2, <3>3, <3>4 DEF AuthInv
  <2>4. ASSUME NEW c \in Calls, Authenticate(c) PROVE AuthInv'
    <3> DEFINE New(verdict) ==
          [arrival |-> arrivals + 1, call |-> c, run |-> run, at |-> now,
           verdict |-> verdict]
    <3>1. /\ stamp[c] \in Int
          /\ now' = now /\ stamp' = stamp /\ run' = run
          /\ arrivals' = arrivals + 1 /\ arrivals' \in 0..MaxArrivals
      BY <2>0, <2>4, TimesAssumption
         DEF Authenticate, Judge, AuthInv, TypeOK
    <3>2. \A e \in Purged(seen) : e \in seen
      BY DEF Purged
    <3>3. \A v \in verdicts : v.arrival \in 1..arrivals
      BY DEF AuthInv, TypeOK, Verdict
    <3>4. CASE Near(now, stamp[c]) /\ ~Remembered(Purged(seen), c)
      <4>1. /\ verdicts' = verdicts \cup {New("accepted")}
            /\ seen' = Purged(seen) \cup {[call |-> c, expiry |-> now + Keep]}
        BY <2>4, <3>4, <3>1 DEF Authenticate, Judge
      <4>2. TypeOK'
        BY <2>0, <3>1, <3>2, <4>1, TimesAssumption
           DEF AuthInv, TypeOK, Verdict
      <4>3. Past'
        BY <2>0, <3>1, <3>4, <4>1 DEF AuthInv, Past, Near
      <4>4. Covered'
        <5> SUFFICES ASSUME NEW v \in verdicts', v.verdict = "accepted",
                            v.run = run
                     PROVE \/ now > stamp[v.call] + Window
                           \/ \E e \in seen' :
                                 /\ e.call = v.call
                                 /\ e.expiry >= stamp[v.call] + Window
          BY <3>1 DEF Covered
        <5>1. CASE v \in verdicts
          BY <5>1, <4>1, PurgeKeepsNear
        <5>2. CASE v = New("accepted")
          <6>1. Keep \in Int /\ Window \in Int /\ Keep >= Window + Window
            BY TimesAssumption
          <6>2. stamp[c] - now <= Window
            BY <3>4 DEF Near
          <6>3. now + Keep >= stamp[c] + Window
            BY <2>0, <3>1, <6>1, <6>2
          <6>4. [call |-> c, expiry |-> now + Keep] \in seen'
            BY <4>1
          <6>5. v.call = c
            BY <5>2
          <6> QED
            BY <6>3, <6>4, <6>5
        <5> QED
          BY <5>1, <5>2, <4>1
      <4>5. Accounted'
        <5> SUFFICES ASSUME NEW e \in seen'
                     PROVE \E w \in verdicts' : /\ w.verdict = "accepted"
                                                /\ w.call = e.call
                                                /\ w.run = run
          BY <3>1 DEF Accounted
        <5>1. CASE e \in seen
          BY <5>1, <4>1 DEF AuthInv, Accounted
        <5>2. CASE e = [call |-> c, expiry |-> now + Keep]
          <6>1. New("accepted") \in verdicts'
            BY <4>1
          <6>2. /\ New("accepted").verdict = "accepted"
                /\ New("accepted").call = e.call
                /\ New("accepted").run = run
            BY <5>2
          <6> QED
            BY <6>1, <6>2
        <5> QED
          BY <5>1, <5>2, <4>1, <3>2
      <4>6. AcceptedOncePerRun'
        <5>1. \A v \in verdicts :
                 v.verdict = "accepted" /\ v.call = c => v.run # run
          BY <2>4, <3>4, PassedIsNew DEF Authenticate
        <5> QED
          BY <4>1, <5>1 DEF AuthInv, AcceptedOncePerRun
      <4>7. RefusedForCause'
        BY <3>1, <4>1 DEF AuthInv, RefusedForCause, Near
      <4> QED
        BY <4>2, <4>3, <4>4, <4>5, <4>6, <4>7 DEF AuthInv
    <3>5. CASE ~(Near(now, stamp[c]) /\ ~Remembered(Purged(seen), c))
      <4>1. verdicts' = verdicts \cup {New("refused")} /\ seen' = Purged(seen)
        BY <2>4, <3>5, <3>1 DEF Authenticate, Judge
      <4>2. TypeOK'
        BY <2>0, <3>1, <3>2, <4>1, TimesAssumption
           DEF AuthInv, TypeOK, Verdict
      <4>3. Past'
        BY <2>0, <3>1, <4>1 DEF AuthInv, Past, Near
      <4>4. Covered'
        BY <3>1, <4>1, PurgeKeepsNear DEF Covered
      <4>5. Accounted' /\ AcceptedOncePerRun'
        BY <3>1, <3>2, <4>1 DEF AuthInv, Accounted, AcceptedOncePerRun
      <4>6. RefusedForCause'
        <5>1. \/ ~Near(now, stamp[c])
              \/ \E w \in verdicts : /\ w.verdict = "accepted"
                                     /\ w.call = c
                                     /\ w.run = run
                                     /\ w.at <= now
          BY <3>2, <3>5 DEF AuthInv, Accounted, Past, Remembered
        <5> QED
          BY <3>1, <4>1, <5>1 DEF AuthInv, RefusedForCause, Near
      <4> QED
        BY <4>2, <4>3, <4>4, <4>5, <4>6 DEF AuthInv
    <3> QED
      BY <3>4, <3>5
  <2>5. CASE UNCHANGED vars
    BY <2>5 DEF vars, AuthInv, TypeOK, Past, Covered, Accounted, Verdict,
                AcceptedOncePerRun, RefusedForCause, Near
  <2> QED
    BY <2>1, <2>2, <2>3, <2>4, <2>5 DEF Next
<1> QED
  BY <1>1, <1>2, PTL DEF Spec

(* The types of authenticate's cache and of what it has answered.          *)
THEOREM AuthTypeCorrect == Spec => []TypeOK
<1>1. AuthInv => TypeOK
  BY DEF AuthInv
<1> QED
  BY <1>1, AuthInvariance, PTL

(* One run of an adapter handles each call of the gateway once.            *)
THEOREM HandledOnce == Spec => []AcceptedOncePerRun
<1>1. AuthInv => AcceptedOncePerRun
  BY DEF AuthInv
<1> QED
  BY <1>1, AuthInvariance, PTL

(* No call is refused because of another one.                              *)
THEOREM NoneRefusedWithoutCause == Spec => []RefusedForCause
<1>1. AuthInv => RefusedForCause
  BY DEF AuthInv
<1> QED
  BY <1>1, AuthInvariance, PTL

(* A call accepted by two runs was accepted twice within two windows.      *)
THEOREM RepeatsSoonOrNever == Spec => []RepeatsAreClose
<1>1. AuthInv => RepeatsAreClose
  <2> SUFFICES ASSUME AuthInv, NEW v \in verdicts, NEW w \in verdicts,
                      v.verdict = "accepted", w.verdict = "accepted",
                      v.call = w.call
               PROVE  w.at - v.at <= 2 * Window
    BY DEF RepeatsAreClose
  <2>1. v.at \in Int /\ w.at \in Int /\ stamp[v.call] \in Int
    BY TimesAssumption DEF AuthInv, TypeOK, Verdict, Instants, Past
  <2>2. Near(v.at, stamp[v.call]) /\ Near(w.at, stamp[v.call])
    BY DEF AuthInv, Past
  <2> QED
    BY <2>1, <2>2, TimesAssumption DEF Near
<1> QED
  BY <1>1, AuthInvariance, PTL
=============================================================================
