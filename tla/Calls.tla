------------------------------- MODULE Calls --------------------------------
(***************************************************************************)
(* RPC between a client and the instances of a service: the request goes   *)
(* to one member of the queue group of the service, exclusive_rpc has it   *)
(* refused where the instance is not active, and the client sends it once  *)
(* (Service.call_rpc) or again after every failure (RPCCallUseCase).       *)
(*                                                                         *)
(* Leadership is what the instances believe of it (is_active): it moves    *)
(* while requests are queued, run and are answered.                        *)
(***************************************************************************)
EXTENDS Naturals, FiniteSets

CONSTANTS
  Instance,     \* the instances of the service
  Call,         \* the logical calls the clients make
  None,         \* no instance, no answer, no result
  MaxRetries,   \* RetryPolicy.max_retries
  MaxMoves,     \* bound: changes of is_active, starts and ends of instances
  MaxTroubles   \* bound: lost messages, early timeouts and raising handlers

Answer == {"ok", "NOT_ACTIVE", "EXECUTION_ERROR", "error"}

ASSUME CallsAssumption ==
  /\ None \notin Instance \cup Answer
  /\ MaxRetries \in Nat /\ MaxMoves \in Nat /\ MaxTroubles \in Nat

(* How a method is registered: with rpc alone, with rpc over exclusive_rpc,*)
(* or with exclusive_rpc alone, which subscribes to nothing.               *)
Method == {"plain", "exclusive", "unserved"}
Client == {"use_case", "service"}

VARIABLES
  up,       \* the instances that are subscribed
  active,   \* the instances whose is_active is set
  listed,   \* the instances with a record in the registry
  method,   \* the method each call is for
  client,   \* who makes the call
  place,    \* where the call is
  attempt,  \* the attempts that have failed
  result,   \* what the call returned
  request,  \* the request of each attempt, at the instance that has it
  runs,     \* how often the handler was entered for the call
  moves, troubles

serverVars == <<up, active, listed, moves>>
clientVars == <<place, attempt, result>>
callVars == <<serverVars, method, client, clientVars, request, runs, troubles>>

Tries == 1 .. (MaxRetries + 1)
Request == [stage : {"unsent", "queued", "running", "answered", "lost"},
            at : Instance \cup {None}, answer : Answer \cup {None}]
Unsent == [stage |-> "unsent", at |-> None, answer |-> None]

CallTypeOK ==
  /\ {up, active, listed} \subseteq SUBSET Instance
  /\ method \in [Call -> Method] /\ client \in [Call -> Client]
  /\ place \in [Call -> {"idle", "ready", "waiting", "done", "failed"}]
  /\ attempt \in [Call -> 0 .. MaxRetries + 1]
  /\ result \in [Call -> (Answer \ {"error"}) \cup {None}]
  /\ request \in [Call -> [Tries -> Request]]
  /\ runs \in [Call -> Nat]
  /\ moves \in 0 .. MaxMoves /\ troubles \in 0 .. MaxTroubles

CallInit ==
  /\ up = Instance /\ listed = Instance
  /\ active \in {{}} \cup {{i} : i \in Instance}
  /\ method \in [Call -> Method] /\ client \in [Call -> Client]
  /\ place = [c \in Call |-> "idle"]
  /\ attempt = [c \in Call |-> 0]
  /\ result = [c \in Call |-> None]
  /\ request = [c \in Call |-> [n \in Tries |-> Unsent]]
  /\ runs = [c \in Call |-> 0]
  /\ moves = 0 /\ troubles = 0

Disturb == troubles < MaxTroubles /\ troubles' = troubles + 1
Calm == UNCHANGED troubles

-----------------------------------------------------------------------------
(* The instances *)

Moves == moves < MaxMoves /\ moves' = moves + 1

Elected(i) ==
  /\ Moves /\ i \in up \ active /\ active' = active \cup {i}
  /\ UNCHANGED <<up, listed, request>>

Deposed(i) ==
  /\ Moves /\ i \in active /\ active' = active \ {i}
  /\ UNCHANGED <<up, listed, request>>

(* The process ends with what it has queued or is running; its record      *)
(* stays until the registry drops it.                                      *)
Ends(i) ==
  /\ Moves /\ i \in up /\ up' = up \ {i} /\ active' = active \ {i}
  /\ request' = [c \in Call |-> [n \in Tries |->
       IF request[c][n].at = i /\ request[c][n].stage \in {"queued", "running"}
       THEN [request[c][n] EXCEPT !.stage = "lost"] ELSE request[c][n]]]
  /\ UNCHANGED listed

Unlisted(i) ==
  /\ i \in listed \ up /\ listed' = listed \ {i}
  /\ UNCHANGED <<up, active, moves, request>>

Returns(i) ==
  /\ Moves /\ i \notin up /\ up' = up \cup {i} /\ listed' = listed \cup {i}
  /\ UNCHANGED <<active, request>>

ServerMove ==
  /\ \E i \in Instance :
       Elected(i) \/ Deposed(i) \/ Ends(i) \/ Unlisted(i) \/ Returns(i)
  /\ UNCHANGED <<method, client, clientVars, runs, troubles>>

-----------------------------------------------------------------------------
(* The handler of a request *)

Answered(c, n, a) ==
  request' = [request EXCEPT ![c][n] = [stage |-> "answered", at |-> @.at, answer |-> a]]

Enter(c, n) ==
  /\ request' = [request EXCEPT ![c][n] = [@ EXCEPT !.stage = "running"]]
  /\ runs' = [runs EXCEPT ![c] = @ + 1]

(* is_active is looked at once, before the handler's first await.          *)
Handle(c, n) ==
  /\ request[c][n].stage = "queued"
  /\ IF method[c] = "exclusive" /\ request[c][n].at \notin active
     THEN Answered(c, n, "NOT_ACTIVE") /\ UNCHANGED runs
     ELSE Enter(c, n)
  /\ Calm

(* An exclusive method answers an exception as its result, which the       *)
(* wrapper of the adapter sends with success set, as it does NOT_ACTIVE.   *)
Finish(c, n) ==
  /\ request[c][n].stage = "running"
  /\ \/ Calm /\ Answered(c, n, "ok")
     \/ /\ Disturb
        /\ Answered(c, n, IF method[c] = "exclusive"
                          THEN "EXECUTION_ERROR" ELSE "error")
  /\ UNCHANGED runs

Serve(c) ==
  /\ \E n \in Tries : Handle(c, n) \/ Finish(c, n)
  /\ UNCHANGED <<serverVars, method, client, clientVars>>

-----------------------------------------------------------------------------
(* The client *)

Allowed(c) == IF client[c] = "use_case" THEN MaxRetries ELSE 1

(* Service.call_rpc wants an instance of the service to be listed, and     *)
(* sends to the queue group all the same; no retries, no call is made.     *)
Begin(c) ==
  /\ place[c] = "idle"
  /\ place' = [place EXCEPT ![c] =
       IF (client[c] = "service" /\ listed = {}) \/ Allowed(c) = 0
       THEN "failed" ELSE "ready"]
  /\ UNCHANGED <<attempt, result, request>> /\ Calm

(* Whatever the error is, a timeout of the adapter included, the use case  *)
(* goes on: the exception it raises for what is not retryable is caught    *)
(* by its own except clause, and tried again.                              *)
AttemptFails(c) ==
  /\ attempt' = [attempt EXCEPT ![c] = @ + 1]
  /\ place' = [place EXCEPT ![c] =
       IF attempt[c] + 1 < Allowed(c) THEN "ready" ELSE "failed"]
  /\ UNCHANGED result

(* After the delay of the attempt: no connection, no responders, or some   *)
(* member of the queue group has the request.                              *)
SendRequest(c) ==
  /\ place[c] = "ready"
  /\ \/ /\ method[c] # "unserved" /\ Calm
        /\ \E i \in up :
             request' = [request EXCEPT ![c][attempt[c] + 1] =
               [stage |-> "queued", at |-> i, answer |-> None]]
        /\ place' = [place EXCEPT ![c] = "waiting"]
        /\ UNCHANGED <<attempt, result>>
     \/ /\ IF method[c] = "unserved" \/ up = {} THEN Calm ELSE Disturb
        /\ AttemptFails(c) /\ UNCHANGED request

Latest(c) == request[c][attempt[c] + 1]

(* Mutant of ReceiveAnswer: the client does not wait for the answer.       *)
ReceiveAny(c) ==
  /\ place[c] = "waiting"
  /\ place' = [place EXCEPT ![c] = "done"]
  /\ result' = [result EXCEPT ![c] = "ok"]
  /\ UNCHANGED <<attempt, request>> /\ Calm

ReceiveAnswer(c) ==
  /\ place[c] = "waiting" /\ Latest(c).stage = "answered"
  /\ IF Latest(c).answer # "error"
     THEN /\ place' = [place EXCEPT ![c] = "done"]
          /\ result' = [result EXCEPT ![c] = Latest(c).answer]
          /\ UNCHANGED attempt
     ELSE AttemptFails(c)
  /\ UNCHANGED request /\ Calm

(* The answer is late or was lost; the request may yet be run.             *)
TimesOut(c) ==
  /\ place[c] = "waiting"
  /\ IF Latest(c).stage = "lost" THEN Calm ELSE Disturb
  /\ AttemptFails(c) /\ UNCHANGED request

ClientStep(c) ==
  /\ SendRequest(c) \/ ReceiveAnswer(c) \/ TimesOut(c)
  /\ UNCHANGED <<serverVars, method, client, runs>>

BeginCall(c) == Begin(c) /\ UNCHANGED <<serverVars, method, client, runs>>

CallNext ==
  \/ ServerMove
  \/ \E c \in Call : BeginCall(c) \/ ClientStep(c) \/ Serve(c)

CallSpec == CallInit /\ [][CallNext]_callVars

(* Nothing is required of the instances' fortunes, or of the calls made.   *)
CallFairness ==
  \A c \in Call : WF_callVars(ClientStep(c)) /\ WF_callVars(Serve(c))

-----------------------------------------------------------------------------
(* A call runs at most as often as its client may send it: once for        *)
(* Service.call_rpc, whatever happens to its answer.                       *)
RunsBounded == \A c \in Call : runs[c] <= Allowed(c)

(* What the client takes for the result of a run is one: "ok" only after   *)
(* the handler ran to its end for the very attempt it waits for.           *)
OkMeansRun ==
  \A c \in Call : result[c] = "ok" =>
    runs[c] > 0 /\ Latest(c).answer = "ok" /\ Latest(c).at # None

(* NOT_ACTIVE is safe to repeat: the handler was not entered, unless by an *)
(* earlier attempt of the same call.                                       *)
NotActiveRanNothing ==
  \A c \in Call : result[c] = "NOT_ACTIVE" => runs[c] <= attempt[c]

(* The types, and what a client is told of its calls.                      *)
CallsSound == CallTypeOK /\ RunsBounded /\ OkMeansRun /\ NotActiveRanNothing

(* Every call that is begun comes to an end, also when no instance serves  *)
(* the method, is active, or is there.                                     *)
EveryCallEnds ==
  \A c \in Call : (place[c] = "ready") ~> (place[c] \in {"done", "failed"})

(* The retry the use case is for: NOT_ACTIVE is tried again, not returned. *)
(* Violated: it comes as the result of a successful response.              *)
NotActiveRetried ==
  \A c \in Call : client[c] = "use_case" => result[c] # "NOT_ACTIVE"
=============================================================================
