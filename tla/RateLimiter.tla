---------------------------- MODULE RateLimiter ----------------------------
(***************************************************************************)
(* enforce_rate_limit for one namespace: INCR the counter in Redis, give   *)
(* it a time to live when it was created, refuse when it is above the      *)
(* limit.  INCR and EXPIRE are two round trips; a handler that is          *)
(* abandoned in between (the client hangs up, Redis fails, the relay dies) *)
(* never sends the second.  The names of the specification are its own, so *)
(* that its theorems can stand beside those of the handlers it guards.     *)
(***************************************************************************)
EXTENDS Integers, Sequences, FiniteSets

CONSTANTS Caller,
          Limit,      \* requests admitted in a window
          Window,     \* window_seconds
          MaxGap,     \* the longest time between a handler's INCR and EXPIRE
          MaxClock,   \* bound: the clock
          MaxHits,    \* bound: requests at one instant
          Never       \* a counter without a time to live

ASSUME LimiterAssumption ==
  /\ Limit \in Nat /\ Window \in Nat \ {0} /\ MaxGap \in Nat
  /\ MaxClock \in Nat /\ MaxHits \in Nat
  /\ Never \notin Nat

VARIABLES clock,
          count,      \* the counter, 0 when there is none
          expiry,     \* when Redis drops it, or Never
          creating,   \* the handlers between INCR and EXPIRE, with the time of the INCR
          hits,       \* history: when each request was counted
          admitted,   \* history: when each admitted request was decided
          refused     \* history: the instants at which a request was refused

limiterVars == <<clock, count, expiry, creating, hits, admitted, refused>>

Instant == 0 .. MaxClock

(* How many requests of a history fall in a set of instants.               *)
Total(f, S) == Cardinality({i \in DOMAIN f : f[i] \in S})

LimiterInit ==
  /\ clock = 0
  /\ count = 0 /\ expiry = Never
  /\ creating = [h \in Caller |-> Never]
  /\ hits = <<>> /\ admitted = <<>>
  /\ refused = {}

(* Mutant: the limit itself is refused.                                     *)
DecideOffByOne(n) ==
  IF n >= Limit
  THEN refused' = refused \cup {clock} /\ UNCHANGED admitted
  ELSE admitted' = Append(admitted, clock) /\ UNCHANGED refused

(* Mutant: the requests counted before this one are compared.               *)
DecideOnEarlier(n) ==
  IF n - 1 > Limit
  THEN refused' = refused \cup {clock} /\ UNCHANGED admitted
  ELSE admitted' = Append(admitted, clock) /\ UNCHANGED refused

(* What the handler decides with the count it was given.                   *)
Decide(n) ==
  IF n > Limit
  THEN refused' = refused \cup {clock} /\ UNCHANGED admitted
  ELSE admitted' = Append(admitted, clock) /\ UNCHANGED refused

(* INCR of a counter that exists.                                          *)
Increment(h) ==
  /\ creating[h] = Never /\ Total(hits, {clock}) < MaxHits
  /\ count > 0
  /\ count' = count + 1
  /\ hits' = Append(hits, clock)
  /\ Decide(count + 1)
  /\ UNCHANGED <<clock, expiry, creating>>

(* INCR of a counter that does not exist.                                  *)
Create(h) ==
  /\ creating[h] = Never /\ Total(hits, {clock}) < MaxHits
  /\ count = 0
  /\ count' = 1
  /\ creating' = [creating EXCEPT ![h] = clock]
  /\ hits' = Append(hits, clock)
  /\ UNCHANGED <<clock, expiry, admitted, refused>>

(* EXPIRE, after which the request that created the counter is decided.    *)
Expire(h) ==
  /\ creating[h] # Never
  /\ expiry' = clock + Window
  /\ creating' = [creating EXCEPT ![h] = Never]
  /\ Decide(1)
  /\ UNCHANGED <<clock, count, hits>>

(* The handler ends between the two round trips.                           *)
HangUp(h) ==
  /\ creating[h] # Never
  /\ creating' = [creating EXCEPT ![h] = Never]
  /\ UNCHANGED <<clock, count, expiry, hits, admitted, refused>>

(* Mutant: the counter is dropped, its time to live is not.                 *)
ElapseKeepingExpiry ==
  /\ clock < MaxClock
  /\ \A h \in Caller : creating[h] # Never => clock < creating[h] + MaxGap
  /\ clock' = clock + 1
  /\ count' = IF expiry = clock + 1 THEN 0 ELSE count
  /\ UNCHANGED <<expiry, creating, hits, admitted, refused>>

(* The clock; Redis drops the counter when its time is over.               *)
Elapse ==
  /\ clock < MaxClock
  /\ \A h \in Caller : creating[h] # Never => clock < creating[h] + MaxGap
  /\ clock' = clock + 1
  /\ IF expiry = clock + 1
     THEN count' = 0 /\ expiry' = Never
     ELSE UNCHANGED <<count, expiry>>
  /\ UNCHANGED <<creating, hits, admitted, refused>>

Deciding == \E h \in Caller : Increment(h) \/ Create(h) \/ Expire(h)

LimiterNext == Deciding \/ Elapse

LimiterNextAbandoning == LimiterNext \/ \E h \in Caller : HangUp(h)

LimiterSpec           == LimiterInit /\ [][LimiterNext]_limiterVars
LimiterSpecAbandoning == LimiterInit /\ [][LimiterNextAbandoning]_limiterVars

-----------------------------------------------------------------------------
(* Properties.                                                             *)

(* Every variable has its type; only the handler that created the counter  *)
(* has its time to live still to set.                                      *)
LimiterTypeOK ==
  /\ clock \in Instant
  /\ count \in Nat
  /\ expiry \in Nat \cup {Never}
  /\ creating \in [Caller -> Instant \cup {Never}]
  /\ hits \in Seq(Instant) /\ admitted \in Seq(Instant)
  /\ refused \subseteq Instant
  /\ expiry # Never => clock < expiry /\ count > 0

(* A fixed window lets a burst through at its end and another at the start *)
(* of the next one, but never more: any Window instants in a row admit at  *)
(* most twice the limit.                                                   *)
BurstIsBounded ==
  \A t \in Instant : Total(admitted, {u \in Instant : t <= u /\ u < t + Window}) <= 2 * Limit

(* The limits are "per minute": a request is refused only if more than     *)
(* Limit requests were made in the last window, lengthened by the delay    *)
(* between the two round trips.                                            *)
RefusedOnlyOverTheLimit ==
  \A t \in refused :
    Total(hits, {u \in Instant : t - (Window + MaxGap) < u /\ u <= t}) > Limit
=============================================================================
