------------------------------ MODULE RateLimit ------------------------------
(***************************************************************************)
(* The rate limiter of the API, in one process.                            *)
(*   apps/server/src/common/rate-limit.guard.ts                            *)
(*                                                                         *)
(* A bucket counts the requests of a key (a route and an address) in a     *)
(* window that starts with the first of them. Every request may sweep the  *)
(* buckets of all keys. A request is one step: nothing is awaited.         *)
(***************************************************************************)
EXTENDS Integers, FiniteSets

CONSTANTS
  Keys,         \* routeKey|ip
  Limit,        \* limit of the route
  Window,       \* its windowMs
  SweepEvery,   \* 60_000
  MaxClock,     \* bound: the time
  MaxAdmitted   \* bound: requests of a key that are let through

ASSUME RateAssumption ==
  Limit \in Nat \ {0} /\ Window \in Nat \ {0} /\ SweepEvery \in Nat /\ MaxClock \in Nat /\ MaxAdmitted \in Nat

VARIABLES
  clock,      \* Date.now()
  buckets,    \* per key: [count, resetAt], or NoBucket
  lastSweep,  \* the time of the last sweep
  admitted,   \* history: per key, [nr, time] of the requests let through
  refused     \* history: the key refused by the last step, as a set

rateVars == <<clock, buckets, lastSweep, admitted, refused>>

NoBucket == [count |-> 0, resetAt |-> 0]

RateInit ==
  /\ clock = SweepEvery
  /\ buckets = [k \in Keys |-> NoBucket]
  /\ lastSweep \in 0 .. SweepEvery
  /\ admitted = [k \in Keys |-> {}]
  /\ refused = {}

\* Variant for the checks: a sweep takes every bucket.
SweptAll(b) == TRUE
\* resetAt <= now, in the sweep and of the bucket of a request.
Swept(b) == b.resetAt <= clock
WindowOver(b) == b.resetAt <= clock

SweepDue == clock - lastSweep >= SweepEvery

\* sweep
BucketsSwept == [k \in Keys |-> IF SweepDue /\ Swept(buckets[k]) THEN NoBucket ELSE buckets[k]]

\* The bucket of a request of key k, with the request in it. One over the
\* limit is as good as many.
Counted(k) ==
  LET b == BucketsSwept[k]
  IN IF WindowOver(b) THEN [count |-> 1, resetAt |-> clock + Window] ELSE [b EXCEPT !.count = IF @ > Limit THEN @ ELSE @ + 1]

Request(k) ==
  /\ buckets' = [BucketsSwept EXCEPT ![k] = Counted(k)]
  /\ lastSweep' = IF SweepDue THEN clock ELSE lastSweep
  /\ \/ /\ Counted(k).count <= Limit
        /\ Cardinality(admitted[k]) < MaxAdmitted
        /\ admitted' = [admitted EXCEPT ![k] = @ \cup {[nr |-> Cardinality(@) + 1, time |-> clock]}]
        /\ refused' = {}
     \/ /\ Counted(k).count > Limit
        /\ refused' = {k}
        /\ UNCHANGED admitted
  /\ UNCHANGED clock

Tick ==
  /\ clock < MaxClock
  /\ clock' = clock + 1
  /\ refused' = {}
  /\ UNCHANGED <<buckets, lastSweep, admitted>>

RateNext == Tick \/ \E k \in Keys : Request(k)

RateSpec == RateInit /\ [][RateNext]_rateVars

-----------------------------------------------------------------------------

\* Types: the buckets and the times.
RateTypeOK ==
  /\ clock \in Nat /\ lastSweep \in Nat
  /\ buckets \in [Keys -> [count : Nat, resetAt : Nat]]
  /\ \A k \in Keys : admitted[k] \subseteq [nr : Nat, time : Nat]
  /\ refused \subseteq Keys

AdmittedIn(k, from, to) == Cardinality({a \in admitted[k] : from <= a.time /\ a.time < to})

\* However the windows and the sweeps fall, no span of a window's length
\* lets more through than two windows do.
TwoWindowsBound ==
  \A k \in Keys, from \in 0 .. MaxClock : AdmittedIn(k, from, from + Window) <= 2 * Limit

\* A request is refused only after the limit was let through within a window
\* before it: never for requests of another key, or of a window that is over.
RefusedOnlyWhenFull ==
  \A k \in refused : AdmittedIn(k, clock - Window + 1, clock + 1) >= Limit

\* The limiter holds what a fixed window can: it neither lets more through nor
\* refuses sooner, whenever the buckets of all keys are swept.
RateKept == TwoWindowsBound /\ RefusedOnlyWhenFull
=============================================================================
