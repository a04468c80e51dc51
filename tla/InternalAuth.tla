---------------------------- MODULE InternalAuth ----------------------------
(***************************************************************************)
(* How an adapter tells the gateway's calls from anything else: callAdapter*)
(* signs each call with a fresh nonce and the gateway's time, and          *)
(* authenticate accepts a signed call once, near that time, by remembering *)
(* nonces in memory.  Between them a call may be delayed, lost, delivered  *)
(* again by the network, and the adapter may restart and forget.           *)
(*                                                                         *)
(* A call stands for its nonce, its body and its signature: only signed    *)
(* calls are considered.  `now` is the adapter's clock, which does not go  *)
(* back; the gateway's is off by a constant.                               *)
(***************************************************************************)
EXTENDS Integers, FiniteSets

CONSTANTS
    Calls,        \* calls of callAdapter
    Window,       \* 30 s, on either side of the adapter's time
    Keep,         \* 60 s, the life of a remembered nonce
    Skew,         \* the gateway's clock is this much ahead of the adapter's
    LastInstant,  \* bound on the clock
    MaxRuns,      \* bound on the runs of the adapter process
    MaxArrivals,  \* bound on the deliveries
    Unsent        \* the timestamp of a call not made yet

ASSUME TimesAssumption ==
    /\ Window \in Nat
    /\ Keep \in Nat
    /\ Keep >= 2 * Window
    /\ Skew \in Int
    /\ LastInstant \in Nat
    /\ MaxRuns \in Nat \ {0}
    /\ MaxArrivals \in Nat
    /\ Unsent \notin Int

VARIABLES
    now,       \* Date.now() at the adapter
    stamp,     \* x-defchain-timestamp of each call
    seen,      \* seenNonces: pairs of a call and an expiry
    run,       \* which run of the adapter process this is
    arrivals,  \* deliveries so far
    verdicts   \* what authenticate said of each: arrival, call, run, instant

vars == <<now, stamp, seen, run, arrivals, verdicts>>

Instants == 0..LastInstant

Init ==
    /\ now = 0
    /\ stamp = [c \in Calls |-> Unsent]
    /\ seen = {}
    /\ run = 1
    /\ arrivals = 0
    /\ verdicts = {}

Tick ==
    /\ now < LastInstant
    /\ now' = now + 1
    /\ UNCHANGED <<stamp, seen, run, arrivals, verdicts>>

(* callAdapter: fresh nonce, the gateway's time.                           *)
Send(c) ==
    /\ stamp[c] = Unsent
    /\ stamp' = [stamp EXCEPT ![c] = now + Skew]
    /\ UNCHANGED <<now, seen, run, arrivals, verdicts>>

(* Variant: only calls that are late are turned away.                      *)
NearIfNotLate(t, s) == t - s <= Window

(* Math.abs(now - timestamp) > 30_000 turns a call away.                   *)
Near(t, s) == t - s <= Window /\ s - t <= Window

(* Variant: entries go at their expiry already.                            *)
PurgedAtExpiry(S) == {e \in S : e.expiry > now}

(* Every call first drops the entries that are past their expiry.          *)
Purged(S) == {e \in S : e.expiry >= now}

Remembered(S, c) == \E e \in S : e.call = c

Judge(c, v) ==
    /\ arrivals < MaxArrivals
    /\ arrivals' = arrivals + 1
    /\ verdicts' = verdicts \cup
          {[arrival |-> arrivals', call |-> c, run |-> run, at |-> now,
            verdict |-> v]}

(* Variant: the nonce is remembered before the time is looked at.          *)
AuthenticateRemembersFirst(c) ==
    /\ stamp[c] # Unsent
    /\ IF Near(now, stamp[c]) /\ ~Remembered(Purged(seen), c)
       THEN Judge(c, "accepted") ELSE Judge(c, "refused")
    /\ seen' = Purged(seen) \cup {[call |-> c, expiry |-> now + Keep]}
    /\ UNCHANGED <<now, stamp, run>>

(* authenticate, on the arrival of a call that was sent, for the first     *)
(* time or again.  Only a call that passes is remembered.                  *)
Authenticate(c) ==
    /\ stamp[c] # Unsent
    /\ IF Near(now, stamp[c]) /\ ~Remembered(Purged(seen), c)
       THEN /\ Judge(c, "accepted")
            /\ seen' = Purged(seen) \cup {[call |-> c, expiry |-> now + Keep]}
       ELSE /\ Judge(c, "refused")
            /\ seen' = Purged(seen)
    /\ UNCHANGED <<now, stamp, run>>

(* Variant: nonces survive a restart, without their expiries.              *)
RestartKeepsNonces ==
    /\ run < MaxRuns
    /\ run' = run + 1
    /\ seen' = {e.call : e \in seen}
    /\ UNCHANGED <<now, stamp, arrivals, verdicts>>

(* The adapter starts with an empty cache.                                 *)
Restart ==
    /\ run < MaxRuns
    /\ run' = run + 1
    /\ seen' = {}
    /\ UNCHANGED <<now, stamp, arrivals, verdicts>>

Next ==
    \/ Tick \/ Restart
    \/ \E c \in Calls : Send(c) \/ Authenticate(c)

Spec == Init /\ [][Next]_vars

-----------------------------------------------------------------------------
(* Properties.                                                             *)

Verdict == [arrival : 1..arrivals, call : Calls, run : 1..MaxRuns,
            at : Instants, verdict : {"accepted", "refused"}]

TypeOK ==
    /\ now \in Instants
    /\ stamp \in [Calls -> {Unsent} \cup Int]
    /\ seen \subseteq [call : Calls, expiry : Int]
    /\ run \in 1..MaxRuns
    /\ arrivals \in 0..MaxArrivals
    /\ verdicts \subseteq Verdict

(* However often a call is delivered, and however its arrivals fall on the *)
(* window and the purge, one run of the adapter handles it once.  The      *)
(* cache holds a nonce for as long as its call is near: that is what       *)
(* Keep >= 2 * Window is for, when the gateway's clock is ahead.           *)
AcceptedOncePerRun ==
    \A v, w \in verdicts :
        /\ v.verdict = "accepted"
        /\ w.verdict = "accepted"
        /\ v.call = w.call
        /\ v.run = w.run
        => v = w

(* A call is refused for being late or early, or for having been handled   *)
(* by this very run: the gateway's own calls are not turned away by what   *)
(* other calls left in the cache.                                          *)
RefusedForCause ==
    \A v \in verdicts : v.verdict = "refused" =>
        \/ ~Near(v.at, stamp[v.call])
        \/ \E w \in verdicts :
              /\ w.verdict = "accepted"
              /\ w.call = v.call
              /\ w.run = v.run
              /\ w.at <= v.at

(* After a restart a call may be handled a second time, but no later than  *)
(* two windows after the first: nothing older comes back to life.          *)
RepeatsAreClose ==
    \A v, w \in verdicts :
        v.verdict = "accepted" /\ w.verdict = "accepted" /\ v.call = w.call
        => w.at - v.at <= 2 * Window
=============================================================================
