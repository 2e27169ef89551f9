------------------------------ MODULE Waiting -------------------------------
(***************************************************************************)
(* How long things wait: the pauses between the attempts of an RPC, under  *)
(* a retry policy that may come from a StickyActiveConfig, and the time    *)
(* from a leader's silence to the end of the election, under a failover    *)
(* policy.  Calls and Failover model the same loops without time.          *)
(*                                                                         *)
(* The unit is 10 ms.  A validator compares a field with one before it     *)
(* only where the field is given: defaults are not validated.              *)
(***************************************************************************)
EXTENDS Naturals

CONSTANTS
  Delays,      \* durations a retry policy may be given
  Factors,     \* backoff multipliers
  Jitters,     \* jitter factors, in tenths
  Default,     \* a field that is not given
  MaxRetries,  \* RetryPolicy.max_retries
  Windows,     \* durations a failover policy may be given
  Slow         \* how long a slow call to the bucket takes

ASSUME WaitingAssumption ==
  /\ Delays \cup Windows \cup Factors \subseteq Nat /\ Jitters \subseteq 0 .. 10
  /\ Default \notin Nat /\ MaxRetries \in Nat \ {0} /\ Slow \in Nat

(* Never negative, with the order and the arithmetic of numbers.           *)
Duration == Nat

VARIABLES
  asked,    \* the fields somebody gave
  policy,   \* the retry policy they make
  from,     \* where it came from: given as such or converted
  attempt, pause, waited,
  failover, \* the failover policy
  phase, round,
  spent,    \* since the heartbeat was found expired
  began,    \* when the election began
  slow      \* history: a call to the bucket was slow

retryVars == <<asked, policy, from, attempt, pause, waited>>
failoverVars == <<failover, phase, round, spent, began, slow>>
waitVars == <<retryVars, failoverVars>>

Given == [initial : Delays \cup {Default}, cap : Delays \cup {Default},
          factor : Factors, jitter : Jitters]
Or(v, d) == IF v = Default THEN d ELSE v
Policy(g) == [initial |-> Or(g.initial, 10), cap |-> Or(g.cap, 500),
              factor |-> g.factor, jitter |-> g.jitter]

(* RetryPolicy's validators, which see the given fields only.              *)
PolicyAccepted(g) ==
  /\ g.initial # Default => g.initial >= 1 /\ g.initial <= 1000
  /\ g.cap # Default => g.cap > Or(g.initial, 10)

(* StickyActiveConfig's: limits of its own, and no order on defaults.      *)
ConfigAccepted(g) ==
  /\ g.initial # Default => g.initial \in 1 .. 1000
  /\ g.cap # Default => g.cap \in 10 .. 3000 /\ g.cap > Or(g.initial, 10)

WindowsOf(d, e, m) == [detection |-> d, delay |-> e, limit |-> m]
Preset == {WindowsOf(50, 10, 100), WindowsOf(300, 100, 500), WindowsOf(100, 50, 200)}
FailoverAccepted(p) ==
  p.detection \in 10 .. 3000 /\ p.limit > p.delay /\ p.limit <= 1000

Tight == {p \in [detection : Windows, delay : Windows, limit : Windows] : FailoverAccepted(p)}

WaitTypeOK ==
  /\ asked \in Given
  /\ policy \in [initial : Duration, cap : Duration, factor : Factors, jitter : Jitters]
  /\ from \in {"given", "converted", "refused"}
  /\ attempt \in 0 .. MaxRetries /\ {pause, waited, spent, began} \subseteq Duration
  /\ failover \in Preset \cup Tight /\ round \in 0 .. 3 /\ slow \in BOOLEAN
  /\ phase \in {"healthy", "detecting", "delaying", "electing", "over", "timed out"}

(* to_retry_policy gives every field of the policy: what the configuration *)
(* left to its defaults is given too, and validated.                       *)
WaitInit ==
  /\ asked \in Given /\ policy = Policy(asked)
  /\ \/ PolicyAccepted(asked) /\ from = "given"
     \/ /\ ConfigAccepted(asked)
        /\ from = IF PolicyAccepted(policy) THEN "converted" ELSE "refused"
  /\ attempt = 0 /\ pause = 0 /\ waited = 0
  /\ failover \in Preset \cup Tight
  /\ phase = "healthy" /\ round = 0 /\ spent = 0 /\ began = 0 /\ slow = FALSE

-----------------------------------------------------------------------------
Power(x, n) ==
  LET power[k \in 0 .. n] == IF k = 0 THEN 1 ELSE x * power[k - 1] IN power[n]

(* calculate_delay: the jitter is added after the cap.                     *)
(* Mutant of Base: no cap.                                                 *)
BaseUncapped(n) == policy.initial * Power(policy.factor, n - 1)
Base(n) ==
  LET b == policy.initial * Power(policy.factor, n - 1)
  IN IF b < policy.cap THEN b ELSE policy.cap
Jitter(b) == (b * policy.jitter) \div 10
Pauses(n) ==
  IF n = 0 THEN {0} ELSE {Base(n), Base(n) + Jitter(Base(n)), Base(n) - Jitter(Base(n))}

(* An attempt fails in a way that is tried again.                          *)
FailAttempt ==
  /\ from # "refused" /\ attempt < MaxRetries
  /\ \E d \in Pauses(attempt) : pause' = d /\ waited' = waited + d
  /\ attempt' = attempt + 1
  /\ UNCHANGED <<asked, policy, from, failoverVars>>

-----------------------------------------------------------------------------
(* The heartbeat monitor: an expired heartbeat is looked at again after    *)
(* the detection threshold; a key that is gone is not.  (This is how long  *)
(* the monitor is meant to take; Failover has where it really gets to.)    *)
Notice ==
  /\ phase = "healthy" /\ spent = 0
  /\ phase' \in {"detecting", "delaying"}
  /\ UNCHANGED <<retryVars, failover, round, spent, began, slow>>

Recheck ==
  /\ phase = "detecting"
  /\ spent' = spent + failover.detection
  /\ phase' \in {"healthy", "delaying"}
  /\ UNCHANGED <<retryVars, failover, round, began, slow>>

BeginElection ==
  /\ phase = "delaying"
  /\ spent' = spent + failover.delay /\ began' = spent'
  /\ phase' = "electing"
  /\ UNCHANGED <<retryVars, failover, round, slow>>

(* The pause before an attempt of the election, 100 ms doubled each time   *)
(* and up to 50 ms of jitter; none before the first.                       *)
ElectionPauses(n) == IF n = 0 THEN {0} ELSE {10 * Power(2, n), 10 * Power(2, n) + 5}

(* One attempt, unless the limit of the election comes first: then the     *)
(* task is cancelled.                                                      *)
Elect ==
  /\ phase = "electing" /\ round < 3
  /\ \E d \in ElectionPauses(round), call \in {1, 5, Slow} :
       LET now == spent + d + call
           late == now - began > failover.limit
       IN /\ slow' = (slow \/ call = Slow)
          /\ spent' = IF late THEN began + failover.limit ELSE now
          /\ round' = IF late THEN round ELSE round + 1
          /\ \/ late /\ phase' = "timed out"
             \/ ~late /\ phase' = "over"
             \/ ~late /\ phase' = IF round = 2 THEN "over" ELSE "electing"
  /\ UNCHANGED <<retryVars, failover, began>>

(* The two wait beside each other and share nothing.                       *)
RetryNext == FailAttempt
FailoverNext == Notice \/ Recheck \/ BeginElection \/ Elect

WaitSpec == WaitInit /\ [][RetryNext \/ FailoverNext]_waitVars
-----------------------------------------------------------------------------
(* A configuration that gives its maximum delay, and is accepted, becomes  *)
(* a retry policy: to_retry_policy does not raise, although both classes   *)
(* have validators and limits of their own.                                *)
ConfigConverts == asked.cap # Default => from # "refused"

(* Whatever policy is accepted, ordered or not, and whatever the jitter, a *)
(* call pauses in all at most twice the maximum delay for each retry.      *)
WaitBounded == waited <= 2 * policy.cap * attempt

(* With a preset policy and a bucket that answers within 50 ms no election *)
(* is cut off: all three attempts are made within max_election_time.       *)
ElectionFits == phase = "timed out" => slow \/ failover \notin Preset

(* The types, and the limits of waiting.                                   *)
WaitsSound == WaitTypeOK /\ ConfigConverts /\ WaitBounded /\ ElectionFits
=============================================================================
