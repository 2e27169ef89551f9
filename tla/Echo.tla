-------------------------------- MODULE Echo --------------------------------
(***************************************************************************)
(* The echo service and its client: instances that share the requests,     *)
(* each with one EchoProcessor and one MetricsCollector for all handlers   *)
(* under way, behind an adapter that is connected or not; and the client's *)
(* performance test, which sends requests in batches and counts answers.   *)
(***************************************************************************)
EXTENDS Naturals, FiniteSets

CONSTANTS
  Replica,     \* instances of the service
  MaxPings,    \* requests of the test
  BatchSize,   \* max_concurrent
  MaxGlitches  \* bound: lost answers, clocks that step back

ASSUME EchoAssumption ==
  BatchSize \in Nat \ {0} /\ {MaxPings, MaxGlitches} \subseteq Nat

Ping == 1 .. MaxPings

VARIABLES
  serving,     \* the instances whose adapter is connected
  nats,        \* nats_connected of each health check
  sequence,    \* sequence_counter of each instance
  good, bad,   \* successful_requests and failed_requests of each
  shape,       \* what each request is
  at,          \* how far it is
  by,          \* the instance that has it
  number,      \* the sequence number of the answer
  rank,       \* history: its place in the order the instance took it up
  successes, errors,   \* what the client has counted
  inBatch,     \* the requests of the batch under way
  glitches

echoVars == <<serving, nats, sequence, good, bad, shape, at, by, number, rank,
              successes, errors, inBatch, glitches>>
countVars == <<successes, errors, inBatch>>
replicaVars == <<serving, nats>>

EchoTypeOK ==
  /\ serving \subseteq Replica /\ nats \in [Replica -> BOOLEAN]
  /\ {sequence, good, bad} \subseteq [Replica -> Nat]
  /\ shape \in [Ping -> {"simple", "delayed", "refused"}]
  /\ at \in [Ping -> {"unsent", "sent", "delayed", "answered", "erred", "counted"}]
  /\ by \in [Ping -> SUBSET Replica] /\ {number, rank} \subseteq [Ping -> Nat]
  /\ {successes, errors} \subseteq 0 .. Cardinality(Ping)
  /\ inBatch \subseteq Ping /\ Cardinality(inBatch) <= BatchSize
  /\ glitches \in 0 .. MaxGlitches

EchoInit ==
  /\ serving = {} /\ nats = [i \in Replica |-> FALSE]
  /\ sequence = [i \in Replica |-> 0] /\ good = sequence /\ bad = sequence
  /\ shape \in [Ping -> {"simple", "delayed", "refused"}]
  /\ at = [r \in Ping |-> "unsent"] /\ by = [r \in Ping |-> {}]
  /\ number = [r \in Ping |-> 0] /\ rank = number
  /\ successes = 0 /\ errors = 0 /\ inBatch = {} /\ glitches = 0

Glitch == glitches < MaxGlitches /\ glitches' = glitches + 1
NoGlitch == UNCHANGED glitches

(* start and stop of the application service: the health check learns what *)
(* the adapter says, then and only then.                                   *)
StartEcho(i) ==
  /\ i \notin serving /\ ~nats[i] /\ sequence[i] = 0
  /\ \/ serving' = serving \cup {i} /\ nats' = [nats EXCEPT ![i] = TRUE] /\ NoGlitch
     \/ Glitch /\ UNCHANGED <<serving, nats>>
  /\ UNCHANGED <<sequence, good, bad, shape, at, by, number, rank, countVars>>
(* What the instance has taken up goes on while its process lives.         *)
StopEcho(i) ==
  /\ i \in serving /\ serving' = serving \ {i} /\ nats' = [nats EXCEPT ![i] = FALSE] /\ Glitch
  /\ UNCHANGED <<sequence, good, bad, shape, at, by, number, rank, countVars>>

-----------------------------------------------------------------------------
Take(r, i) == at[r] = "sent" /\ i \in serving /\ by' = [by EXCEPT ![r] = {i}]

(* Refused by EchoRequest: the handler records a failure and answers.      *)
Refuse(r, i) ==
  /\ shape[r] = "refused" /\ Take(r, i) /\ at' = [at EXCEPT ![r] = "erred"]
  /\ bad' = [bad EXCEPT ![i] = @ + 1]
  /\ NoGlitch /\ UNCHANGED <<replicaVars, sequence, good, shape, number, rank, countVars>>

(* The response is built and counted; if the clock went back meanwhile the *)
(* processing time is negative and the response invalid, which the use     *)
(* case counts and the handler counts again.                               *)
Finishes(r, i) ==
  \/ /\ NoGlitch /\ at' = [at EXCEPT ![r] = "answered"]
     /\ good' = [good EXCEPT ![i] = @ + 1] /\ UNCHANGED bad
     /\ number' = [number EXCEPT ![r] = sequence'[i]]
  \/ /\ Glitch /\ at' = [at EXCEPT ![r] = "erred"]
     /\ bad' = [bad EXCEPT ![i] = @ + 2] /\ UNCHANGED <<good, number>>

ProcessEcho(r, i) ==
  /\ shape[r] # "refused" /\ Take(r, i)
  /\ sequence' = [sequence EXCEPT ![i] = @ + 1]
  /\ rank' = [rank EXCEPT ![r] =
       Cardinality({q \in Ping : by'[q] = {i} /\ shape[q] # "refused"})]
  /\ IF shape[r] = "delayed"
     THEN at' = [at EXCEPT ![r] = "delayed"] /\ NoGlitch /\ UNCHANGED <<good, bad, number>>
     ELSE Finishes(r, i)
  /\ UNCHANGED <<replicaVars, shape, countVars>>

(* Mutant of WakeUp: the counter goes back to the place of the request.    *)
WakeInPlace(r, i) ==
  /\ at[r] = "delayed" /\ by[r] = {i}
  /\ sequence' = [sequence EXCEPT ![i] = rank[r]] /\ Finishes(r, i)
  /\ UNCHANGED <<replicaVars, shape, by, rank, countVars>>
(* After the delay: the counter is read now, not when the request came.    *)
WakeUp(r, i) ==
  /\ at[r] = "delayed" /\ by[r] = {i} /\ UNCHANGED sequence /\ Finishes(r, i)
  /\ UNCHANGED <<replicaVars, shape, by, rank, countVars>>

-----------------------------------------------------------------------------
(* The client.                                                             *)

NotSent == {r \in Ping : at[r] = "unsent"}

SendBatch ==
  /\ inBatch = {} /\ NotSent # {}
  /\ inBatch' = {r \in NotSent : r <= MaxPings - Cardinality(NotSent) + BatchSize}
  /\ at' = [r \in Ping |-> IF r \in inBatch' THEN "sent" ELSE at[r]]
  /\ NoGlitch
  /\ UNCHANGED <<replicaVars, sequence, good, bad, shape, by, number, rank, successes, errors>>

EchoRest == UNCHANGED <<replicaVars, sequence, good, bad, shape, by, number, rank>>

(* An answer that says "error" is a success too: the call succeeded.       *)
CountAnswer(r) ==
  /\ r \in inBatch /\ at[r] \in {"answered", "erred"}
  /\ at' = [at EXCEPT ![r] = "counted"]
  /\ inBatch' = inBatch \ {r} /\ successes' = successes + 1
  /\ NoGlitch /\ UNCHANGED errors /\ EchoRest

(* No answer in time, or nobody there: what becomes of it is not seen.     *)
CountTimeout(r) ==
  /\ r \in inBatch /\ at[r] # "counted"
  /\ (serving = {} /\ NoGlitch) \/ Glitch
  /\ inBatch' = inBatch \ {r} /\ errors' = errors + 1
  /\ UNCHANGED <<at, successes>> /\ EchoRest

ReplicaStep(i) ==
  \/ StartEcho(i) \/ StopEcho(i)
  \/ \E r \in Ping : Refuse(r, i) \/ ProcessEcho(r, i) \/ WakeUp(r, i)

EchoNext ==
  \/ SendBatch
  \/ \E i \in Replica : ReplicaStep(i)
  \/ \E r \in Ping : CountAnswer(r) \/ CountTimeout(r)

EchoSpec == EchoInit /\ [][EchoNext]_echoVars

-----------------------------------------------------------------------------
(* The client's count is the count of its batches: every request that was  *)
(* sent is pending or counted once, late answers included.                 *)
ClientCountsOnce ==
  successes + errors + Cardinality(inBatch) = Cardinality({r \in Ping : at[r] # "unsent"})

(* Answers given at once carry the place of their request in the order it  *)
(* was taken up, so no two of them the same number; one that was delayed   *)
(* never carries a smaller one, though others came in between.             *)
NumbersFollowOrder ==
  \A r \in Ping :
    number[r] # 0 => number[r] >= rank[r] /\ (shape[r] = "simple" => number[r] = rank[r])

(* The metrics of an instance count as a success exactly what it answered, *)
(* and as failures no fewer than it refused or failed at.                  *)
MetricsTell ==
  \A i \in Replica :
    /\ good[i] = Cardinality({r \in Ping : by[r] = {i} /\ number[r] # 0})
    /\ bad[i] >= Cardinality({r \in Ping : by[r] = {i} /\ at[r] = "erred"})

(* The types, and the numbers: the client's, those in the answers, and the *)
(* metrics of the instances.                                               *)
EchoSound == EchoTypeOK /\ ClientCountsOnce /\ NumbersFollowOrder /\ MetricsTell
=============================================================================
