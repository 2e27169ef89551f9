---------------------------- MODULE CallsProofs -----------------------------
(***************************************************************************)
(* Theorems about Calls, Pools, Handlers, Aggregates and Hybrid: what a    *)
(* client is told of its calls and how often handlers run, who gets the    *)
(* connections, which handlers come on the bus, and what becomes of events *)
(* and commands; for every value of the constants.                         *)
(***************************************************************************)
EXTENDS Calls, Pools, Handlers, Aggregates, Hybrid,
        FiniteSetTheorems, SequenceTheorems, Recursion, TLAPS

-----------------------------------------------------------------------------
(* Calls                                                                   *)

(* The assumptions on the bounds, one by one.                              *)
LEMMA Bounds ==
  /\ None \notin Instance /\ None \notin Answer
  /\ MaxRetries \in Nat /\ MaxMoves \in Nat /\ MaxTroubles \in Nat
BY CallsAssumption

(* The attempts of a call that may have entered the handler: those that an *)
(* instance has, or had when it ended, and has not refused.                *)
Taken(c) ==
  {n \in Tries : \/ request[c][n].stage \in {"running", "lost"}
                 \/ request[c][n].stage = "answered" /\ request[c][n].answer # "NOT_ACTIVE"}

(* The attempts the client has sent.                                       *)
Sends(c) == attempt[c] + (IF place[c] \in {"waiting", "done"} THEN 1 ELSE 0)

ClientFits(c) ==
  /\ place[c] = "idle" => attempt[c] = 0
  /\ place[c] \in {"ready", "waiting", "done"} => attempt[c] < Allowed(c)
  /\ attempt[c] <= Allowed(c)
  /\ result[c] # None =>
       /\ place[c] = "done"
       /\ Latest(c).stage = "answered" /\ Latest(c).answer = result[c]
RequestsFit(c) ==
  \A n \in Tries :
    /\ request[c][n].stage # "unsent" => n <= Sends(c)
    /\ request[c][n].stage \in {"queued", "running", "answered"} => request[c][n].at # None
    /\ request[c][n].stage = "running" => runs[c] > 0
    /\ request[c][n].answer = "ok" => runs[c] > 0 /\ request[c][n].at # None
RunsFit(c) == runs[c] <= Cardinality(Taken(c))

CallFits(c) == ClientFits(c) /\ RequestsFit(c) /\ RunsFit(c)
CallsInv == CallTypeOK /\ \A c \in Call : CallFits(c)

-----------------------------------------------------------------------------
(* Counting attempts.                                                      *)
LEMMA TakenFinite ==
  ASSUME NEW S, S \subseteq Tries
  PROVE  IsFiniteSet(S) /\ Cardinality(S) \in Nat
<1>1. IsFiniteSet(Tries)
  BY Bounds, FS_Interval DEF Tries
<1>2. QED
  BY <1>1, FS_Subset, FS_CardinalityType

(* A set of numbers up to k has no more than k members.                    *)
LEMMA CountUpTo ==
  ASSUME NEW S, NEW k \in Nat, S \subseteq 1 .. k
  PROVE  Cardinality(S) <= k
<1>1. IsFiniteSet(1 .. k) /\ Cardinality(1 .. k) = k
  BY FS_Interval
<1>2. QED
  BY <1>1, FS_Subset

(* The runs allowed are a number, one for each attempt at most.            *)
LEMMA AllowedType == \A c \in Call :
  CallTypeOK => Allowed(c) \in Nat /\ Allowed(c) <= MaxRetries + 1
BY Bounds DEF Allowed

(* So are the attempts sent.                                               *)
LEMMA SendsType ==
  ASSUME CallTypeOK, NEW c \in Call
  PROVE  Sends(c) \in Nat /\ attempt[c] \in Nat
BY Bounds DEF CallTypeOK, Sends

(* The invariant holds at first.                                           *)
LEMMA CallsInit == CallInit => CallsInv
<1> SUFFICES ASSUME CallInit PROVE CallsInv
  OBVIOUS
<1>1. Unsent \in Request
  BY DEF Unsent, Request
<1>2. CallTypeOK
  BY <1>1, Bounds DEF CallInit, CallTypeOK
<1>3. ASSUME NEW c \in Call PROVE CallFits(c)
  <2>1. \A n \in Tries : request[c][n] = Unsent
    BY DEF CallInit
  <2>2. ClientFits(c)
    <3>1. Allowed(c) \in Nat /\ attempt[c] = 0 /\ place[c] = "idle" /\ result[c] = None
      BY <1>2, AllowedType DEF CallInit
    <3>2. QED
      BY <3>1 DEF ClientFits
  <2>3. RequestsFit(c)
    <3>1. None # "ok"
      BY Bounds DEF Answer
    <3>2. QED
      BY <2>1, <3>1 DEF RequestsFit, Unsent
  <2>4. RunsFit(c)
    <3>1. runs[c] = 0 /\ Taken(c) \subseteq Tries
      BY DEF CallInit, Taken
    <3>2. QED
      BY <3>1, TakenFinite DEF RunsFit
  <2>5. QED
    BY <2>2, <2>3, <2>4 DEF CallFits
<1>4. QED
  BY <1>2, <1>3 DEF CallsInv

(* A call none of whose parts moves stays as it is.                        *)
LEMMA OthersStay ==
  ASSUME NEW c \in Call, CallFits(c),
         method'[c] = method[c], client'[c] = client[c], place'[c] = place[c],
         attempt'[c] = attempt[c], result'[c] = result[c], request'[c] = request[c],
         runs'[c] = runs[c]
  PROVE  CallFits(c)'
<1>1. Allowed(c)' = Allowed(c) /\ Latest(c)' = Latest(c) /\ Sends(c)' = Sends(c)
  BY DEF Allowed, Latest, Sends
<1>2. Taken(c)' = Taken(c)
  BY DEF Taken
<1>3. QED
  BY <1>1, <1>2 DEF CallFits, ClientFits, RequestsFit, RunsFit

-----------------------------------------------------------------------------
(* The instances move: requests queued or running where one ends are lost, *)
(* which takes none out of the attempts that count.                        *)
LEMMA EndsKeeps ==
  ASSUME CallsInv, NEW i \in Instance, NEW c \in Call,
         request' = [d \in Call |-> [n \in Tries |->
           IF request[d][n].at = i /\ request[d][n].stage \in {"queued", "running"}
           THEN [request[d][n] EXCEPT !.stage = "lost"] ELSE request[d][n]]],
         UNCHANGED <<method, client, place, attempt, result, runs>>
  PROVE  /\ request' \in [Call -> [Tries -> Request]]
         /\ CallFits(c)'
<1>1. /\ CallTypeOK /\ ClientFits(c) /\ RequestsFit(c) /\ RunsFit(c)
      /\ \A d \in Call, n \in Tries : request[d][n] \in Request
  BY DEF CallsInv, CallFits, CallTypeOK
<1>2. ASSUME NEW d \in Call, NEW n \in Tries
      PROVE  \/ request'[d][n] = request[d][n]
             \/ /\ request[d][n].stage \in {"queued", "running"}
                /\ request'[d][n] = [request[d][n] EXCEPT !.stage = "lost"]
  OBVIOUS
<1>3. ASSUME NEW d \in Call, NEW n \in Tries
      PROVE  /\ request'[d][n] \in Request
             /\ request'[d][n].at = request[d][n].at
             /\ request'[d][n].answer = request[d][n].answer
             /\ \/ request'[d][n].stage = request[d][n].stage
                \/ /\ request[d][n].stage \in {"queued", "running"}
                   /\ request'[d][n].stage = "lost"
  <2>1. request[d][n] \in Request
    BY <1>1
  <2>2. QED
    BY <1>2, <2>1 DEF Request
<1>4. request' \in [Call -> [Tries -> Request]]
  <2>1. \A d \in Call : request'[d] \in [Tries -> Request]
    BY <1>3
  <2>2. QED
    BY <2>1
<1>5. Allowed(c)' = Allowed(c) /\ Sends(c)' = Sends(c) /\ attempt'[c] = attempt[c]
  BY DEF Allowed, Sends
<1>6. ClientFits(c)'
  <2>1. SUFFICES ASSUME result[c] # None
                 PROVE  Latest(c)'.stage = "answered" /\ Latest(c)'.answer = result[c]
    BY <1>1, <1>5 DEF ClientFits
  <2>2. attempt[c] + 1 \in Tries
    <3>1. attempt[c] < Allowed(c) /\ Allowed(c) \in Nat /\ Allowed(c) <= MaxRetries + 1
          /\ attempt[c] \in Nat
      BY <1>1, <2>1, AllowedType, SendsType DEF ClientFits
    <3>2. QED
      BY <3>1, Bounds DEF Tries
  <2>3. Latest(c).stage = "answered" /\ Latest(c).answer = result[c]
    BY <1>1, <2>1 DEF ClientFits
  <2>4. QED
    BY <1>3, <1>5, <2>2, <2>3 DEF Latest
<1>7. RequestsFit(c)'
  BY <1>1, <1>3, <1>5 DEF RequestsFit
<1>8. RunsFit(c)'
  <2>1. Taken(c) \subseteq Taken(c)' /\ Taken(c)' \subseteq Tries /\ Taken(c) \subseteq Tries
    BY <1>3 DEF Taken
  <2>2. Cardinality(Taken(c)) <= Cardinality(Taken(c)') /\ Cardinality(Taken(c)) \in Nat
        /\ Cardinality(Taken(c)') \in Nat
    BY <2>1, TakenFinite, FS_Subset
  <2>3. runs[c] \in Nat
    BY <1>1 DEF CallTypeOK
  <2>4. QED
    BY <1>1, <2>2, <2>3 DEF RunsFit
<1>9. QED
  BY <1>4, <1>6, <1>7, <1>8 DEF CallFits

(* An instance starts, stops, ends, or leads.                              *)
LEMMA ServersStay ==
  ASSUME CallsInv, ServerMove
  PROVE  CallsInv'
<1>1. CallTypeOK /\ \A c \in Call : CallFits(c)
  BY DEF CallsInv
<1>2. PICK i \in Instance : Elected(i) \/ Deposed(i) \/ Ends(i) \/ Unlisted(i) \/ Returns(i)
  BY DEF ServerMove
<1>3. UNCHANGED <<method, client, place, attempt, result, runs, troubles>>
  BY DEF ServerMove, clientVars
<1>4. moves' \in 0 .. MaxMoves
  BY <1>1, <1>2, Bounds
     DEF CallTypeOK, Moves, Elected, Deposed, Ends, Unlisted, Returns
<1>5. {up, active, listed}' \subseteq SUBSET Instance
  BY <1>1, <1>2 DEF CallTypeOK, Elected, Deposed, Ends, Unlisted, Returns
<1>6. CASE request' = request
  <2>1. CallTypeOK'
    BY <1>1, <1>3, <1>4, <1>5, <1>6 DEF CallTypeOK
  <2>2. \A c \in Call : CallFits(c)'
    BY <1>1, <1>3, <1>6, OthersStay
  <2>3. QED
    BY <2>1, <2>2 DEF CallsInv
<1>7. CASE Ends(i)
  <2>1. \A c \in Call : request' \in [Call -> [Tries -> Request]] /\ CallFits(c)'
    BY <1>3, <1>7, EndsKeeps DEF Ends
  <2>2. request' \in [Call -> [Tries -> Request]]
    <3>1. CASE Call = {}
      BY <1>1, <1>7, <3>1 DEF Ends, CallTypeOK
    <3>2. CASE Call # {}
      BY <2>1, <3>2
    <3>3. QED
      BY <3>1, <3>2
  <2>3. CallTypeOK'
    BY <1>1, <1>3, <1>4, <1>5, <2>2 DEF CallTypeOK
  <2>4. QED
    BY <2>1, <2>3 DEF CallsInv
<1>8. QED
  BY <1>2, <1>6, <1>7 DEF Elected, Deposed, Unlisted, Returns

-----------------------------------------------------------------------------
(* One request of a call becomes another, and the client waits on.         *)
LEMMA RequestIs ==
  ASSUME CallTypeOK, NEW c \in Call, NEW n \in Tries
  PROVE  /\ request[c][n] \in Request /\ request[c] \in [Tries -> Request]
         /\ request[c][n].stage \in {"unsent", "queued", "running", "answered", "lost"}
         /\ request[c][n].at \in Instance \cup {None}
         /\ request[c][n].answer \in Answer \cup {None}
BY DEF CallTypeOK, Request

(* An attempt that is answered.                                            *)
LEMMA AnsweredIs ==
  ASSUME CallTypeOK, NEW c \in Call, NEW n \in Tries, NEW a \in Answer, Answered(c, n, a)
  PROVE  /\ request' \in [Call -> [Tries -> Request]]
         /\ request'[c][n] = [stage |-> "answered", at |-> request[c][n].at, answer |-> a]
         /\ \A m \in Tries \ {n} : request'[c][m] = request[c][m]
         /\ \A d \in Call \ {c} : request'[d] = request[d]
<1> DEFINE r == [stage |-> "answered", at |-> request[c][n].at, answer |-> a]
<1>1. r \in Request
  BY RequestIs DEF Request
<1>2. request[c] \in [Tries -> Request] /\ request \in [Call -> [Tries -> Request]]
  BY DEF CallTypeOK
<1>3. request' = [request EXCEPT ![c] = [request[c] EXCEPT ![n] = r]]
  BY <1>2 DEF Answered
<1>4. QED
  BY <1>1, <1>2, <1>3

(* An attempt that enters the handler.                                     *)
LEMMA EnterIs ==
  ASSUME CallTypeOK, NEW c \in Call, NEW n \in Tries, Enter(c, n)
  PROVE  /\ request' \in [Call -> [Tries -> Request]]
         /\ request'[c][n] = [stage |-> "running", at |-> request[c][n].at,
                              answer |-> request[c][n].answer]
         /\ \A m \in Tries \ {n} : request'[c][m] = request[c][m]
         /\ \A d \in Call \ {c} : request'[d] = request[d]
         /\ runs' = [runs EXCEPT ![c] = runs[c] + 1]
<1> DEFINE r == [stage |-> "running", at |-> request[c][n].at, answer |-> request[c][n].answer]
<1>1. r \in Request
  BY RequestIs DEF Request
<1>2. request[c] \in [Tries -> Request] /\ request \in [Call -> [Tries -> Request]]
  BY DEF CallTypeOK
<1>3. [request[c][n] EXCEPT !.stage = "running"] = r
  <2>1. request[c][n] \in Request
    BY RequestIs
  <2>2. QED
    BY <2>1 DEF Request
<1>4. request' = [request EXCEPT ![c] = [request[c] EXCEPT ![n] = r]]
  BY <1>2, <1>3 DEF Enter
<1>5. runs' = [runs EXCEPT ![c] = runs[c] + 1]
  BY DEF Enter
<1>6. QED
  BY <1>1, <1>2, <1>4, <1>5

-----------------------------------------------------------------------------
(* The instance that has a request refuses it, enters its handler or ends  *)
(* it: an attempt is counted when the handler is entered.                  *)
LEMMA ServeFits ==
  ASSUME CallsInv, NEW c \in Call, NEW n \in Tries,
         request[c][n].stage \in {"queued", "running"},
         UNCHANGED <<method, client, place, attempt, result>>,
         \A m \in Tries \ {n} : request'[c][m] = request[c][m],
         request'[c][n].at = request[c][n].at,
         \/ /\ request[c][n].stage = "queued" /\ request'[c][n].stage = "answered"
            /\ request'[c][n].answer = "NOT_ACTIVE" /\ runs'[c] = runs[c]
         \/ /\ request[c][n].stage = "queued" /\ request'[c][n].stage = "running"
            /\ request'[c][n].answer = request[c][n].answer /\ runs'[c] = runs[c] + 1
         \/ /\ request[c][n].stage = "running" /\ request'[c][n].stage = "answered"
            /\ request'[c][n].answer # "NOT_ACTIVE" /\ runs'[c] = runs[c]
  PROVE  CallFits(c)'
<1>1. /\ CallTypeOK /\ ClientFits(c) /\ RequestsFit(c) /\ RunsFit(c)
      /\ runs[c] \in Nat /\ runs'[c] \in Nat /\ runs'[c] >= runs[c]
  BY DEF CallsInv, CallFits, CallTypeOK
<1>2. Allowed(c)' = Allowed(c) /\ Sends(c)' = Sends(c) /\ attempt'[c] = attempt[c]
  BY DEF Allowed, Sends
<1>3. ClientFits(c)'
  <2>1. SUFFICES ASSUME result[c] # None
                 PROVE  Latest(c)'.stage = "answered" /\ Latest(c)'.answer = result[c]
    BY <1>1, <1>2 DEF ClientFits
  <2>2. Latest(c).stage = "answered" /\ Latest(c).answer = result[c]
    BY <1>1, <2>1 DEF ClientFits
  <2>3. attempt[c] + 1 \in Tries
    <3>1. attempt[c] < Allowed(c) /\ Allowed(c) \in Nat /\ Allowed(c) <= MaxRetries + 1
          /\ attempt[c] \in Nat
      BY <1>1, <2>1, AllowedType, SendsType DEF ClientFits
    <3>2. QED
      BY <3>1, Bounds DEF Tries
  <2>4. attempt[c] + 1 # n
    BY <2>2 DEF Latest
  <2>5. QED
    BY <1>2, <2>2, <2>3, <2>4 DEF Latest
<1>4. RequestsFit(c)'
  <2>1. SUFFICES ASSUME NEW m \in Tries
        PROVE  /\ request'[c][m].stage # "unsent" => m <= Sends(c)
               /\ request'[c][m].stage \in {"queued", "running", "answered"} =>
                    request'[c][m].at # None
               /\ request'[c][m].stage = "running" => runs'[c] > 0
               /\ request'[c][m].answer = "ok" => runs'[c] > 0 /\ request'[c][m].at # None
    BY <1>2 DEF RequestsFit
  <2>2. CASE m = n
    BY <1>1, <2>2 DEF RequestsFit
  <2>3. CASE m # n
    BY <1>1, <2>3 DEF RequestsFit
  <2>4. QED
    BY <2>2, <2>3
<1>5. RunsFit(c)'
  <2>1. Taken(c) \subseteq Tries /\ IsFiniteSet(Taken(c)) /\ Cardinality(Taken(c)) \in Nat
    BY TakenFinite DEF Taken
  <2>2. CASE runs'[c] = runs[c]
    <3>1. Taken(c)' = Taken(c)
      BY <2>2, <1>1 DEF Taken
    <3>2. QED
      BY <1>1, <2>2, <3>1 DEF RunsFit
  <2>3. CASE request[c][n].stage = "queued" /\ request'[c][n].stage = "running"
             /\ runs'[c] = runs[c] + 1
    <3>1. Taken(c)' = Taken(c) \cup {n} /\ n \notin Taken(c)
      BY <2>3 DEF Taken
    <3>2. Cardinality(Taken(c)') = Cardinality(Taken(c)) + 1
      BY <2>1, <3>1, FS_AddElement
    <3>3. QED
      BY <1>1, <2>1, <2>3, <3>2 DEF RunsFit
  <2>4. QED
    BY <2>2, <2>3
<1>6. QED
  BY <1>3, <1>4, <1>5 DEF CallFits

(* An instance takes, runs or answers an attempt.                          *)
LEMMA ServeStays ==
  ASSUME CallsInv, NEW c \in Call, Serve(c)
  PROVE  CallsInv'
<1>1. /\ CallTypeOK /\ \A d \in Call : CallFits(d)
      /\ UNCHANGED <<up, active, listed, moves, method, client, place, attempt, result>>
  BY DEF CallsInv, Serve, serverVars, clientVars
<1>2. PICK n \in Tries : Handle(c, n) \/ Finish(c, n)
  BY DEF Serve
<1>3. /\ request' \in [Call -> [Tries -> Request]] /\ runs' \in [Call -> Nat]
      /\ \A d \in Call \ {c} : request'[d] = request[d] /\ runs'[d] = runs[d]
      /\ CallFits(c)'
  <2>1. CASE request[c][n].stage = "queued" /\ Answered(c, n, "NOT_ACTIVE") /\ UNCHANGED runs
    <3>1. "NOT_ACTIVE" \in Answer
      BY DEF Answer
    <3>2. /\ request'[c][n] = [stage |-> "answered", at |-> request[c][n].at, answer |-> "NOT_ACTIVE"]
          /\ request' \in [Call -> [Tries -> Request]]
          /\ \A m \in Tries \ {n} : request'[c][m] = request[c][m]
          /\ \A d \in Call \ {c} : request'[d] = request[d]
      BY <1>1, <2>1, <3>1, AnsweredIs
    <3>3. CallFits(c)'
      <4>1. /\ request'[c][n].stage = "answered" /\ request'[c][n].answer = "NOT_ACTIVE"
            /\ request'[c][n].at = request[c][n].at
            /\ request[c][n].stage \in {"queued", "running"} /\ runs'[c] = runs[c]
            /\ UNCHANGED <<method, client, place, attempt, result>>
        BY <1>1, <2>1, <3>2
      <4>2. QED
        BY <1>1, <1>2, <2>1, <3>2, <4>1, ServeFits
    <3>4. QED
      BY <1>1, <2>1, <3>2, <3>3 DEF CallTypeOK
  <2>2. CASE request[c][n].stage = "queued" /\ Enter(c, n)
    <3>1. /\ request'[c][n] = [stage |-> "running", at |-> request[c][n].at,
                               answer |-> request[c][n].answer]
          /\ request' \in [Call -> [Tries -> Request]]
          /\ \A m \in Tries \ {n} : request'[c][m] = request[c][m]
          /\ \A d \in Call \ {c} : request'[d] = request[d]
          /\ runs' = [runs EXCEPT ![c] = runs[c] + 1]
      BY <1>1, <2>2, EnterIs
    <3>2. runs'[c] = runs[c] + 1 /\ runs' \in [Call -> Nat]
          /\ \A d \in Call \ {c} : runs'[d] = runs[d]
      <4>1. runs \in [Call -> Nat] /\ runs[c] + 1 \in Nat
        BY <1>1 DEF CallTypeOK
      <4>2. runs' = [runs EXCEPT ![c] = runs[c] + 1]
        BY <3>1
      <4>3. QED
        BY <4>1, <4>2
    <3>3. CallFits(c)'
      <4>1. /\ request'[c][n].stage = "running"
            /\ request'[c][n].answer = request[c][n].answer
            /\ request'[c][n].at = request[c][n].at
            /\ request[c][n].stage \in {"queued", "running"}
            /\ UNCHANGED <<method, client, place, attempt, result>>
        BY <1>1, <2>2, <3>1
      <4>2. QED
        BY <1>1, <1>2, <2>2, <3>1, <3>2, <4>1, ServeFits
    <3>4. QED
      BY <3>1, <3>2, <3>3
  <2>3. CASE request[c][n].stage = "running" /\ UNCHANGED runs
             /\ \E a \in Answer \ {"NOT_ACTIVE"} : Answered(c, n, a)
    <3>1. PICK a \in Answer \ {"NOT_ACTIVE"} : Answered(c, n, a)
      BY <2>3
    <3>2. /\ request'[c][n] = [stage |-> "answered", at |-> request[c][n].at, answer |-> a]
          /\ request' \in [Call -> [Tries -> Request]]
          /\ \A m \in Tries \ {n} : request'[c][m] = request[c][m]
          /\ \A d \in Call \ {c} : request'[d] = request[d]
      BY <1>1, <3>1, AnsweredIs
    <3>3. CallFits(c)'
      <4>1. /\ request'[c][n].stage = "answered" /\ request'[c][n].answer # "NOT_ACTIVE"
            /\ request'[c][n].at = request[c][n].at
            /\ request[c][n].stage \in {"queued", "running"} /\ runs'[c] = runs[c]
            /\ UNCHANGED <<method, client, place, attempt, result>>
        BY <1>1, <2>3, <3>1, <3>2
      <4>2. QED
        BY <1>1, <1>2, <2>3, <3>2, <4>1, ServeFits
    <3>4. QED
      BY <1>1, <2>3, <3>2, <3>3 DEF CallTypeOK
  <2>4. QED
    BY <1>2, <2>1, <2>2, <2>3 DEF Handle, Finish, Answer
<1>4. troubles' \in 0 .. MaxTroubles
  BY <1>1, <1>2, Bounds DEF Handle, Finish, Calm, Disturb, CallTypeOK
<1>5. CallTypeOK'
  BY <1>1, <1>3, <1>4 DEF CallTypeOK
<1>6. ASSUME NEW d \in Call, d # c PROVE CallFits(d)'
  BY <1>1, <1>3, <1>6, OthersStay
<1>7. QED
  BY <1>3, <1>5, <1>6 DEF CallsInv
-----------------------------------------------------------------------------
(* The client moves: its requests stay, and it has sent no fewer of them.  *)
LEMMA ClientFitsOn ==
  ASSUME CallsInv, NEW c \in Call, UNCHANGED <<method, client, request, runs>>,
         Sends(c) <= Sends(c)', Sends(c)' \in Nat, ClientFits(c)'
  PROVE  CallFits(c)'
<1>1. RequestsFit(c) /\ RunsFit(c) /\ Sends(c) \in Nat
  BY SendsType DEF CallsInv, CallFits
<1>2. Taken(c)' = Taken(c)
  BY DEF Taken
<1>3. RequestsFit(c)'
  <2>1. \A n \in Tries : n \in Nat
    BY Bounds DEF Tries
  <2>2. QED
    BY <1>1, <2>1 DEF RequestsFit
<1>4. RunsFit(c)'
  BY <1>1, <1>2 DEF RunsFit
<1>5. QED
  BY <1>3, <1>4 DEF CallFits

(* An attempt that fails: the next one, or the end of the call.            *)
LEMMA FailsFits ==
  ASSUME CallsInv, NEW c \in Call, place[c] \in {"ready", "waiting"}, AttemptFails(c),
         UNCHANGED <<method, client, request, runs>>
  PROVE  /\ attempt' \in [Call -> 0 .. MaxRetries + 1]
         /\ place' \in [Call -> {"idle", "ready", "waiting", "done", "failed"}]
         /\ \A d \in Call \ {c} : attempt'[d] = attempt[d] /\ place'[d] = place[d]
         /\ CallFits(c)'
<1>1. /\ CallTypeOK /\ ClientFits(c) /\ Allowed(c) \in Nat /\ Allowed(c) <= MaxRetries + 1
      /\ attempt[c] \in Nat /\ Sends(c) \in Nat
  BY AllowedType, SendsType DEF CallsInv, CallFits
<1>2. attempt[c] < Allowed(c) /\ result[c] = None
  BY <1>1 DEF ClientFits
<1>3. attempt[c] + 1 \in 0 .. MaxRetries + 1
  BY <1>1, <1>2, Bounds
<1>4. attempt \in [Call -> 0 .. MaxRetries + 1]
      /\ place \in [Call -> {"idle", "ready", "waiting", "done", "failed"}]
  BY <1>1 DEF CallTypeOK
<1>5. /\ attempt' = [attempt EXCEPT ![c] = attempt[c] + 1]
      /\ place' = [place EXCEPT ![c] = IF attempt[c] + 1 < Allowed(c) THEN "ready" ELSE "failed"]
      /\ result' = result
  BY DEF AttemptFails
<1>6. /\ attempt' \in [Call -> 0 .. MaxRetries + 1] /\ attempt'[c] = attempt[c] + 1
      /\ \A d \in Call \ {c} : attempt'[d] = attempt[d]
  BY <1>3, <1>4, <1>5
<1>7. /\ place' \in [Call -> {"idle", "ready", "waiting", "done", "failed"}]
      /\ place'[c] = IF attempt[c] + 1 < Allowed(c) THEN "ready" ELSE "failed"
      /\ \A d \in Call \ {c} : place'[d] = place[d]
  BY <1>4, <1>5
<1>8. Allowed(c)' = Allowed(c)
  BY DEF Allowed
<1>9. Sends(c) <= Sends(c)' /\ Sends(c)' \in Nat
  BY <1>1, <1>6, <1>7 DEF Sends
<1>10. ClientFits(c)'
  BY <1>1, <1>2, <1>5, <1>6, <1>7, <1>8 DEF ClientFits
<1>11. QED
  BY <1>6, <1>7, <1>9, <1>10, ClientFitsOn

(* A call, or the sending of a message, begins.                            *)
LEMMA BeginStays ==
  ASSUME CallsInv, NEW c \in Call, BeginCall(c)
  PROVE  CallsInv'
<1>1. /\ CallTypeOK /\ ClientFits(c) /\ Allowed(c) \in Nat /\ Sends(c) \in Nat
      /\ \A d \in Call : CallFits(d)
  BY AllowedType, SendsType DEF CallsInv, CallFits
<1>2. /\ UNCHANGED <<up, active, listed, moves, method, client, runs, attempt, result,
                     request, troubles>>
      /\ place[c] = "idle"
  BY DEF BeginCall, Begin, serverVars, Calm
<1>3. PICK p \in {"ready", "failed"} :
        /\ place' = [place EXCEPT ![c] = p]
        /\ p = "ready" => Allowed(c) # 0
  <2>1. CASE (client[c] = "service" /\ listed = {}) \/ Allowed(c) = 0
    BY <2>1 DEF BeginCall, Begin
  <2>2. CASE ~((client[c] = "service" /\ listed = {}) \/ Allowed(c) = 0)
    BY <2>2 DEF BeginCall, Begin
  <2>3. QED
    BY <2>1, <2>2
<1>4. place \in [Call -> {"idle", "ready", "waiting", "done", "failed"}]
  BY <1>1 DEF CallTypeOK
<1>5. /\ place' \in [Call -> {"idle", "ready", "waiting", "done", "failed"}]
      /\ place'[c] = p /\ p \in {"ready", "failed"}
      /\ \A d \in Call \ {c} : place'[d] = place[d]
  <2>1. p \in {"idle", "ready", "waiting", "done", "failed"}
    OBVIOUS
  <2>2. place' = [place EXCEPT ![c] = p]
    BY <1>3
  <2>3. QED
    BY <1>4, <2>1, <2>2
<1>6. CallTypeOK'
  BY <1>1, <1>2, <1>5 DEF CallTypeOK
<1>7. attempt[c] = 0 /\ result[c] = None
  BY <1>1, <1>2 DEF ClientFits
<1>8. Allowed(c)' = Allowed(c)
  BY <1>2 DEF Allowed
<1>9. ClientFits(c)'
  <2>1. /\ attempt'[c] = 0 /\ result'[c] = None /\ 0 <= Allowed(c)'
        /\ place'[c] \in {"ready", "waiting", "done"} => 0 < Allowed(c)'
    <3>1. p = "ready" => Allowed(c) # 0
      BY <1>3
    <3>2. QED
      BY <1>1, <1>2, <1>5, <1>7, <1>8, <3>1
  <2>2. QED
    BY <2>1, <1>5 DEF ClientFits
<1>10. Sends(c) <= Sends(c)' /\ Sends(c)' \in Nat
  BY <1>2, <1>3, <1>5, <1>7 DEF Sends
<1>11. CallFits(c)'
  BY <1>2, <1>9, <1>10, ClientFitsOn
<1>12. ASSUME NEW d \in Call, d # c PROVE CallFits(d)'
  BY <1>1, <1>2, <1>5, <1>12, OthersStay
<1>13. QED
  BY <1>6, <1>11, <1>12 DEF CallsInv

(* A step of the client that fails the attempt, whatever made it fail.     *)
LEMMA FailureStays ==
  ASSUME CallsInv, NEW c \in Call, place[c] \in {"ready", "waiting"}, AttemptFails(c),
         UNCHANGED <<up, active, listed, moves, method, client, request, runs>>,
         Calm \/ Disturb
  PROVE  CallsInv'
<1>1. CallTypeOK /\ \A d \in Call : CallFits(d)
  BY DEF CallsInv
<1>2. result' = result
  BY DEF AttemptFails
<1>3. /\ attempt' \in [Call -> 0 .. MaxRetries + 1]
      /\ place' \in [Call -> {"idle", "ready", "waiting", "done", "failed"}]
      /\ \A d \in Call \ {c} : attempt'[d] = attempt[d] /\ place'[d] = place[d]
      /\ CallFits(c)'
  BY FailsFits
<1>4. troubles' \in 0 .. MaxTroubles
  BY <1>1, Bounds DEF Calm, Disturb, CallTypeOK
<1>5. CallTypeOK'
  BY <1>1, <1>2, <1>3, <1>4 DEF CallTypeOK
<1>6. ASSUME NEW d \in Call, d # c PROVE CallFits(d)'
  BY <1>1, <1>2, <1>3, <1>6, OthersStay
<1>7. QED
  BY <1>3, <1>5, <1>6 DEF CallsInv

(* A request that replaces another.                                        *)
LEMMA SlotIs ==
  ASSUME CallTypeOK, NEW c \in Call, NEW n \in Tries, NEW r \in Request,
         request' = [request EXCEPT ![c][n] = r]
  PROVE  /\ request' \in [Call -> [Tries -> Request]]
         /\ request'[c][n] = r
         /\ \A m \in Tries \ {n} : request'[c][m] = request[c][m]
         /\ \A d \in Call \ {c} : request'[d] = request[d]
<1>1. request[c] \in [Tries -> Request] /\ request \in [Call -> [Tries -> Request]]
  BY DEF CallTypeOK
<1>2. request' = [request EXCEPT ![c] = [request[c] EXCEPT ![n] = r]]
  BY <1>1
<1>3. QED
  BY <1>1, <1>2

(* A request goes out in the first slot that was not used.                 *)
LEMMA SentFits ==
  ASSUME CallsInv, NEW c \in Call, NEW i \in Instance, place[c] = "ready",
         request' = [request EXCEPT ![c][attempt[c] + 1] =
                       [stage |-> "queued", at |-> i, answer |-> None]],
         place' = [place EXCEPT ![c] = "waiting"],
         UNCHANGED <<method, client, attempt, result, runs>>
  PROVE  /\ request' \in [Call -> [Tries -> Request]]
         /\ place' \in [Call -> {"idle", "ready", "waiting", "done", "failed"}]
         /\ \A d \in Call \ {c} : request'[d] = request[d] /\ place'[d] = place[d]
         /\ CallFits(c)'
<1> DEFINE n == attempt[c] + 1
           r == [stage |-> "queued", at |-> i, answer |-> None]
<1>1. /\ CallTypeOK /\ ClientFits(c) /\ RequestsFit(c) /\ RunsFit(c)
      /\ Allowed(c) \in Nat /\ Allowed(c) <= MaxRetries + 1
      /\ attempt[c] \in Nat
  BY AllowedType, SendsType DEF CallsInv, CallFits
<1>2. attempt[c] < Allowed(c) /\ result[c] = None /\ Sends(c) = attempt[c]
  BY <1>1 DEF ClientFits, Sends
<1>3. n \in Tries
  BY <1>1, <1>2, Bounds DEF Tries
<1>4. request[c][n].stage = "unsent"
  BY <1>1, <1>2, <1>3 DEF RequestsFit
<1>5. r \in Request
  BY DEF Request
<1>6. place \in [Call -> {"idle", "ready", "waiting", "done", "failed"}]
  BY <1>1 DEF CallTypeOK
<1>7. request' = [request EXCEPT ![c][n] = r]
  OBVIOUS
<1>8. /\ request' \in [Call -> [Tries -> Request]]
      /\ request'[c][n] = r
      /\ \A m \in Tries \ {n} : request'[c][m] = request[c][m]
      /\ \A d \in Call \ {c} : request'[d] = request[d]
  <2> HIDE DEF n, r
  <2>1. QED
    BY <1>1, <1>3, <1>5, <1>7, SlotIs
<1>9. /\ place' \in [Call -> {"idle", "ready", "waiting", "done", "failed"}]
      /\ place'[c] = "waiting" /\ \A d \in Call \ {c} : place'[d] = place[d]
  BY <1>6
<1>10. Allowed(c)' = Allowed(c) /\ Sends(c)' = Sends(c) + 1
  BY <1>2, <1>9 DEF Allowed, Sends
<1>11. ClientFits(c)'
  BY <1>1, <1>2, <1>9, <1>10 DEF ClientFits
<1>12. RequestsFit(c)'
  <2>1. SUFFICES ASSUME NEW m \in Tries
        PROVE  /\ request'[c][m].stage # "unsent" => m <= Sends(c)'
               /\ request'[c][m].stage \in {"queued", "running", "answered"} =>
                    request'[c][m].at # None
               /\ request'[c][m].stage = "running" => runs'[c] > 0
               /\ request'[c][m].answer = "ok" => runs'[c] > 0 /\ request'[c][m].at # None
    BY DEF RequestsFit
  <2>2. CASE m = n
    <3>1. None # "ok" /\ i # None
      BY Bounds DEF Answer
    <3>2. request'[c][m].stage = "queued" /\ request'[c][m].at = i
          /\ request'[c][m].answer = None
      BY <1>8, <2>2
    <3>3. m <= Sends(c)'
      BY <1>1, <1>2, <1>10, <2>2
    <3>4. QED
      BY <3>1, <3>2, <3>3
  <2>3. CASE m # n
    <3>1. request'[c][m] = request[c][m] /\ m \in Nat
      BY <1>8, <2>3, Bounds DEF Tries
    <3>2. QED
      BY <1>1, <1>2, <1>10, <3>1 DEF RequestsFit
  <2>4. QED
    BY <2>2, <2>3
<1>13. RunsFit(c)'
  <2>1. ASSUME NEW m \in Tries, m # n PROVE request'[c][m] = request[c][m]
    BY <1>8, <2>1
  <2>2. request'[c][n].stage = "queued"
    BY <1>8
  <2>3. Taken(c)' = Taken(c)
    BY <1>3, <1>4, <2>1, <2>2 DEF Taken
  <2>4. QED
    BY <1>1, <2>3 DEF RunsFit
<1>14. QED
  BY <1>8, <1>9, <1>11, <1>12, <1>13 DEF CallFits

(* The client sends an attempt.                                            *)
LEMMA SendStays ==
  ASSUME CallsInv, NEW c \in Call, SendRequest(c),
         UNCHANGED <<serverVars, method, client, runs>>
  PROVE  CallsInv'
<1>1. /\ CallTypeOK /\ \A d \in Call : CallFits(d)
      /\ UNCHANGED <<up, active, listed, moves>>
  BY DEF CallsInv, serverVars
<1>2. CASE AttemptFails(c) /\ UNCHANGED request /\ (Calm \/ Disturb)
  BY <1>1, <1>2, FailureStays DEF SendRequest
<1>3. CASE /\ Calm /\ UNCHANGED <<attempt, result>>
           /\ place' = [place EXCEPT ![c] = "waiting"]
           /\ \E i \in up :
                request' = [request EXCEPT ![c][attempt[c] + 1] =
                  [stage |-> "queued", at |-> i, answer |-> None]]
  <2>1. PICK i \in up :
          request' = [request EXCEPT ![c][attempt[c] + 1] =
                        [stage |-> "queued", at |-> i, answer |-> None]]
    BY <1>3
  <2>2. i \in Instance /\ place[c] = "ready"
    BY <1>1, <2>1 DEF CallTypeOK, SendRequest
  <2>3. /\ request' \in [Call -> [Tries -> Request]]
        /\ place' \in [Call -> {"idle", "ready", "waiting", "done", "failed"}]
        /\ \A d \in Call \ {c} : request'[d] = request[d] /\ place'[d] = place[d]
        /\ CallFits(c)'
    BY <1>3, <2>1, <2>2, SentFits
  <2>4. CallTypeOK'
    BY <1>1, <1>3, <2>3 DEF CallTypeOK, Calm
  <2>5. ASSUME NEW d \in Call, d # c PROVE CallFits(d)'
    BY <1>1, <1>3, <2>3, <2>5, OthersStay
  <2>6. QED
    BY <2>3, <2>4, <2>5 DEF CallsInv
<1>4. QED
  BY <1>2, <1>3 DEF SendRequest

(* The client takes an answer.                                             *)
LEMMA ReceiveStays ==
  ASSUME CallsInv, NEW c \in Call, ReceiveAnswer(c),
         UNCHANGED <<serverVars, method, client, runs>>
  PROVE  CallsInv'
<1>1. /\ CallTypeOK /\ ClientFits(c) /\ \A d \in Call : CallFits(d)
      /\ Allowed(c) \in Nat /\ Allowed(c) <= MaxRetries + 1
      /\ attempt[c] \in Nat /\ Sends(c) \in Nat
      /\ UNCHANGED <<up, active, listed, moves>>
  BY AllowedType, SendsType DEF CallsInv, CallFits, serverVars
<1>2. place[c] = "waiting" /\ Latest(c).stage = "answered" /\ UNCHANGED request /\ Calm
  BY DEF ReceiveAnswer
<1>3. CASE Latest(c).answer = "error"
  BY <1>1, <1>2, <1>3, FailureStays DEF ReceiveAnswer
<1>4. CASE Latest(c).answer # "error"
  <2>1. /\ place' = [place EXCEPT ![c] = "done"]
        /\ result' = [result EXCEPT ![c] = Latest(c).answer]
        /\ attempt' = attempt
    BY <1>4 DEF ReceiveAnswer
  <2>2. attempt[c] < Allowed(c)
    BY <1>1, <1>2 DEF ClientFits
  <2>3. attempt[c] + 1 \in Tries
    BY <1>1, <2>2, Bounds DEF Tries
  <2>4. Latest(c).answer \in (Answer \ {"error"}) \cup {None}
    BY <1>1, <1>4, <2>3, RequestIs DEF Latest
  <2>5. /\ place \in [Call -> {"idle", "ready", "waiting", "done", "failed"}]
        /\ result \in [Call -> (Answer \ {"error"}) \cup {None}]
    BY <1>1 DEF CallTypeOK
  <2>6. /\ place' \in [Call -> {"idle", "ready", "waiting", "done", "failed"}]
        /\ place'[c] = "done" /\ \A d \in Call \ {c} : place'[d] = place[d]
    BY <2>1, <2>5
  <2>7. /\ result' \in [Call -> (Answer \ {"error"}) \cup {None}]
        /\ result'[c] = Latest(c).answer /\ \A d \in Call \ {c} : result'[d] = result[d]
    BY <2>1, <2>4, <2>5
  <2>8. CallTypeOK'
    BY <1>1, <1>2, <2>1, <2>6, <2>7 DEF CallTypeOK, Calm
  <2>9. Allowed(c)' = Allowed(c) /\ Latest(c)' = Latest(c)
    BY <1>2, <2>1 DEF Allowed, Latest
  <2>10. ClientFits(c)'
    BY <1>1, <1>2, <2>1, <2>2, <2>6, <2>7, <2>9 DEF ClientFits
  <2>11. Sends(c) <= Sends(c)' /\ Sends(c)' \in Nat
    BY <1>1, <1>2, <2>1, <2>6 DEF Sends
  <2>12. CallFits(c)'
    BY <1>2, <2>10, <2>11, ClientFitsOn
  <2>13. ASSUME NEW d \in Call, d # c PROVE CallFits(d)'
    BY <1>1, <1>2, <2>1, <2>6, <2>7, <2>13, OthersStay
  <2>14. QED
    BY <2>8, <2>12, <2>13 DEF CallsInv
<1>5. QED
  BY <1>3, <1>4

(* The client has waited long enough.                                      *)
LEMMA TimeoutStays ==
  ASSUME CallsInv, NEW c \in Call, TimesOut(c),
         UNCHANGED <<serverVars, method, client, runs>>
  PROVE  CallsInv'
<1>1. /\ UNCHANGED <<up, active, listed, moves, request>> /\ place[c] = "waiting"
      /\ AttemptFails(c)
  BY DEF TimesOut, serverVars
<1>2. Calm \/ Disturb
  BY DEF TimesOut
<1>3. QED
  BY <1>1, <1>2, FailureStays

-----------------------------------------------------------------------------
(* Every step keeps the invariant.                                         *)
LEMMA CallsInductive ==
  ASSUME CallsInv, [CallNext]_callVars
  PROVE  CallsInv'
<1>1. CASE ServerMove
  BY <1>1, ServersStay
<1>2. ASSUME NEW c \in Call, BeginCall(c)
      PROVE  CallsInv'
  BY <1>2, BeginStays
<1>3. ASSUME NEW c \in Call, ClientStep(c)
      PROVE  CallsInv'
  <2>1. UNCHANGED <<serverVars, method, client, runs>>
    BY <1>3 DEF ClientStep
  <2>2. SendRequest(c) \/ ReceiveAnswer(c) \/ TimesOut(c)
    BY <1>3 DEF ClientStep
  <2>3. QED
    BY <2>1, <2>2, SendStays, ReceiveStays, TimeoutStays
<1>4. ASSUME NEW c \in Call, Serve(c)
      PROVE  CallsInv'
  BY <1>4, ServeStays
<1>5. CASE UNCHANGED callVars
  <2>1. UNCHANGED <<up, active, listed, moves, method, client, place, attempt, result,
                    request, runs, troubles>>
    BY <1>5 DEF callVars, serverVars, clientVars
  <2>2. CallTypeOK /\ \A c \in Call : CallFits(c)
    BY DEF CallsInv
  <2>3. CallTypeOK'
    BY <2>1, <2>2 DEF CallTypeOK
  <2>4. \A c \in Call : CallFits(c)'
    BY <2>1, <2>2, OthersStay
  <2>5. QED
    BY <2>3, <2>4 DEF CallsInv
<1>6. QED
  BY <1>1, <1>2, <1>3, <1>4, <1>5 DEF CallNext

(* The invariant says what the property does.                              *)
LEMMA CallsInvTells == CallsInv => CallsSound
<1> SUFFICES ASSUME CallsInv PROVE CallsSound
  OBVIOUS
<1>1. CallTypeOK
  BY DEF CallsInv
<1>2. ASSUME NEW c \in Call
      PROVE  /\ runs[c] <= Allowed(c)
             /\ result[c] = "ok" =>
                  runs[c] > 0 /\ Latest(c).answer = "ok" /\ Latest(c).at # None
             /\ result[c] = "NOT_ACTIVE" => runs[c] <= attempt[c]
  <2>1. /\ ClientFits(c) /\ RequestsFit(c) /\ RunsFit(c)
        /\ Allowed(c) \in Nat /\ Allowed(c) <= MaxRetries + 1
        /\ attempt[c] \in Nat /\ Sends(c) \in Nat /\ runs[c] \in Nat
    BY <1>1, AllowedType, SendsType DEF CallsInv, CallFits, CallTypeOK
  <2>2. Sends(c) <= Allowed(c)
    BY <2>1 DEF ClientFits, Sends
  <2>3. Taken(c) \subseteq 1 .. Sends(c) /\ Taken(c) \subseteq Tries
    BY <2>1, Bounds DEF Taken, RequestsFit, Tries
  <2>4. Cardinality(Taken(c)) <= Sends(c) /\ Cardinality(Taken(c)) \in Nat
    BY <2>1, <2>3, CountUpTo, TakenFinite
  <2>5. runs[c] <= Allowed(c)
    BY <2>1, <2>2, <2>4 DEF RunsFit
  <2>6. ASSUME result[c] # None
        PROVE  /\ place[c] = "done" /\ attempt[c] + 1 \in Tries
               /\ Latest(c).stage = "answered" /\ Latest(c).answer = result[c]
    <3>1. place[c] = "done" /\ Latest(c).stage = "answered" /\ Latest(c).answer = result[c]
      BY <2>1, <2>6 DEF ClientFits
    <3>2. attempt[c] < Allowed(c)
      BY <2>1, <3>1 DEF ClientFits
    <3>3. QED
      BY <2>1, <3>1, <3>2, Bounds DEF Tries
  <2>7. None # "ok" /\ None # "NOT_ACTIVE"
    BY Bounds DEF Answer
  <2>8. result[c] = "ok" => runs[c] > 0 /\ Latest(c).answer = "ok" /\ Latest(c).at # None
    BY <2>1, <2>6, <2>7 DEF RequestsFit, Latest
  <2>9. ASSUME result[c] = "NOT_ACTIVE" PROVE runs[c] <= attempt[c]
    <3>1. attempt[c] + 1 \notin Taken(c) /\ Sends(c) = attempt[c] + 1
      BY <2>6, <2>7, <2>9 DEF Taken, Latest, Sends
    <3>2. Taken(c) \subseteq 1 .. attempt[c]
      BY <2>1, <2>3, <3>1
    <3>3. Cardinality(Taken(c)) <= attempt[c]
      BY <2>1, <3>2, CountUpTo
    <3>4. QED
      BY <2>1, <2>4, <3>3 DEF RunsFit
  <2>10. QED
    BY <2>5, <2>8, <2>9
<1>3. QED
  BY <1>1, <1>2 DEF CallsSound, RunsBounded, OkMeansRun, NotActiveRanNothing

(* A call runs at most as often as its client may send it, "ok" comes only *)
(* of a run of the attempt the client waits for, and NOT_ACTIVE only of an *)
(* attempt whose handler was not entered: for every number of instances,   *)
(* calls, retries, changes of leadership, lost messages and timeouts.      *)
THEOREM CallsAreSound == CallSpec => []CallsSound
<1>1. CallInit => CallsInv
  BY CallsInit
<1>2. CallsInv /\ [CallNext]_callVars => CallsInv'
  BY CallsInductive
<1>3. CallsInv => CallsSound
  BY CallsInvTells
<1>4. QED
  BY <1>1, <1>2, <1>3, PTL DEF CallSpec

-----------------------------------------------------------------------------
(* Pools                                                                   *)

(* The least of some numbers is one of them.                               *)
LEMMA MinIs ==
  ASSUME NEW T, T \subseteq Nat, T # {}
  PROVE  Min(T) \in T
<1>1. \E n \in T : \A m \in T : n <= m
  BY LeastNumber
<1>2. QED
  BY <1>1 DEF Min

(* A place on the round, once and twice round.                             *)
LEMMA ModSmall ==
  ASSUME NEW n \in Nat \ {0}, NEW j \in 0 .. n - 1
  PROVE  j % n = j /\ (j + n) % n = j /\ (j + n + n) % n = j
OBVIOUS

(* The remainder of a number that is given with it.                        *)
LEMMA ModOf ==
  ASSUME NEW n \in Nat \ {0}, NEW q \in Nat, NEW r \in 0 .. n - 1
  PROVE  (n * q + r) % n = r
OBVIOUS

(* The next place on the round.                                            *)
LEMMA ModNext ==
  ASSUME NEW n \in Nat \ {0}, NEW c \in Nat
  PROVE  /\ c % n \in 0 .. n - 1
         /\ (c + 1) % n = IF c % n = n - 1 THEN 0 ELSE (c % n) + 1
<1>1. c % n \in 0 .. n - 1
  OBVIOUS
<1>2. c - (c % n) = n * (c \div n)
  OBVIOUS
<1>3. c \div n \in Nat
  OBVIOUS
<1> DEFINE q == c \div n
<1> DEFINE r == c % n
<1>4. q \in Nat /\ r \in 0 .. n - 1 /\ c = n * q + r
  BY <1>1, <1>2, <1>3
<1> HIDE DEF q, r
<1>5. CASE r = n - 1
  <2>1. c + 1 = n * (q + 1) + 0
    BY <1>4, <1>5
  <2>2. (n * (q + 1) + 0) % n = 0
    BY <1>4, ModOf
  <2>3. QED
    BY <1>1, <1>5, <2>1, <2>2 DEF r
<1>6. CASE r # n - 1
  <2>1. c + 1 = n * q + (r + 1) /\ r + 1 \in 0 .. n - 1
    BY <1>4, <1>6
  <2>2. (n * q + (r + 1)) % n = r + 1
    BY <1>4, <2>1, ModOf
  <2>3. QED
    BY <1>1, <1>6, <2>1, <2>2 DEF r
<1>7. QED
  BY <1>5, <1>6

(* Once around, from wherever one stands, is everywhere.                   *)
LEMMA OnceAround ==
  ASSUME NEW n \in Nat \ {0}, NEW c \in 1 .. n, NEW j \in 0 .. n - 1
  PROVE  \E k \in 1 .. n : (c + k) % n = j
<1>1. CASE j > c
  <2>1. j - c \in 1 .. n /\ c + (j - c) = j
    BY <1>1
  <2>2. QED
    BY <2>1, ModSmall
<1>2. CASE j <= c /\ j + n > c
  <2>1. j + n - c \in 1 .. n /\ c + (j + n - c) = j + n
    BY <1>2
  <2>2. QED
    BY <2>1, ModSmall
<1>3. CASE j + n <= c
  <2>1. j = 0 /\ c = n /\ c + n = j + n + n /\ n \in 1 .. n
    BY <1>3
  <2>2. QED
    BY <2>1, ModSmall
<1>4. QED
  BY <1>1, <1>2, <1>3
(* A function on 1 .. n is a list.                                         *)
LEMMA FunctionIsSeq ==
  ASSUME NEW S, NEW n \in Nat, NEW f \in [1 .. n -> S]
  PROVE  f \in Seq(S) /\ Len(f) = n
<1>1. f \in Seq(S)
  BY SeqDef
<1>2. DOMAIN f = 1 .. Len(f) /\ Len(f) \in Nat
  BY <1>1, LenProperties
<1>3. QED
  BY <1>1, <1>2

(* The assumptions on the sizes and the bounds, one by one.                *)
LEMMA PoolBounds ==
  /\ PoolSize \in Nat \ {0} /\ MinSize \in Nat /\ MinSize # 0 /\ MinSize <= PoolSize
  /\ AdapterSize \in Nat /\ MaxTurns \in Nat /\ MaxOutages \in Nat
BY PoolAssumption

-----------------------------------------------------------------------------
(* The adapter's connections: whose turn it is lay within those there were *)
(* when it was set.                                                        *)
LinksFit ==
  /\ links \in Seq(BOOLEAN) /\ current \in Nat /\ circle \in Nat
  /\ chosen \in {"none", "gave", "raised"}
  /\ current = 0 \/ current < circle
  /\ LiveLinkFound

(* The instances selected once more than the others lie between the one    *)
(* where the turns began and the one whose turn it is.                     *)
Within(b, r, i) == IF b <= r THEN b <= i /\ i < r ELSE b <= i \/ i < r
Turns(b, m) ==
  \A k \in DOMAIN shown :
    picks[shown[k]] = m + (IF Within(b, counter % Len(shown), k - 1) THEN 1 ELSE 0)
PicksFit ==
  /\ shown \in Seq(Target) /\ counter \in 0 .. MaxTurns /\ picks \in [Target -> 0 .. MaxTurns]
  /\ \A t \in Target : picks[t] <= counter
  /\ \A k, l \in DOMAIN shown : shown[k] = shown[l] => k = l
  /\ shown # <<>> => \E b \in 0 .. Len(shown) - 1, m \in Nat : Turns(b, m)

(* A connection that a task has is in use, and the lock keeps a place.     *)
LendsFit ==
  /\ pool \in Seq([used: BOOLEAN, up: BOOLEAN])
  /\ borrower \in [Borrower -> [at: {"idle", "connecting", "has", "refused"}, conn: Nat]]
  /\ locked \subseteq Borrower
  /\ LentOnce
  /\ \A b \in Borrower :
       borrower[b].at = "has" => borrower[b].conn \in DOMAIN pool /\ pool[borrower[b].conn].used
  /\ \A b \in Borrower : borrower[b].at = "connecting" => b \in locked /\ locked = {b}
  /\ locked # {} => Len(pool) < PoolSize

PoolInv == LinksFit /\ PicksFit /\ LendsFit /\ outages \in 0 .. MaxOutages

(* The invariant holds at first.                                           *)
LEMMA PoolsBegin == PoolInit => PoolInv
<1> SUFFICES ASSUME PoolInit PROVE PoolInv
  OBVIOUS
<1>1. LinksFit
  <2>1. links = <<>> /\ <<>> \in Seq(BOOLEAN)
    BY DEF PoolInit
  <2>2. current = 0 /\ circle = 0 /\ chosen = "none"
    BY DEF PoolInit
  <2>3. LiveLinkFound /\ chosen \in {"none", "gave", "raised"}
    BY <2>2 DEF LiveLinkFound
  <2>4. QED
    BY <2>1, <2>2, <2>3 DEF LinksFit
<1>2. PicksFit
  BY PoolBounds DEF PoolInit, PicksFit
<1>3. LendsFit
  <2>1. [k \in 1 .. MinSize |-> [used |-> FALSE, up |-> TRUE]]
          \in [1 .. MinSize -> [used: BOOLEAN, up: BOOLEAN]]
    OBVIOUS
  <2>2. pool \in Seq([used: BOOLEAN, up: BOOLEAN]) /\ Len(pool) = MinSize
    BY <2>1, PoolBounds, FunctionIsSeq DEF PoolInit
  <2>3. borrower \in [Borrower -> [at: {"idle", "connecting", "has", "refused"}, conn: Nat]]
        /\ \A b \in Borrower : borrower[b].at = "idle"
    BY DEF PoolInit
  <2>4. locked = {} /\ Len(pool) <= PoolSize
    BY <2>2, PoolBounds DEF PoolInit
  <2>5. QED
    BY <2>2, <2>3, <2>4 DEF LendsFit, LentOnce
<1>4. outages \in 0 .. MaxOutages
  BY PoolBounds DEF PoolInit
<1>5. QED
  BY <1>1, <1>2, <1>3, <1>4 DEF PoolInv

-----------------------------------------------------------------------------
(* What the steps of others leave of the connections of the adapter.       *)
LEMMA LinksSame ==
  ASSUME LinksFit, UNCHANGED linkVars PROVE LinksFit'
BY Zenon DEF LinksFit, LiveLinkFound, linkVars
(* What the steps of others leave of the selection.                        *)
LEMMA PicksSame ==
  ASSUME PicksFit, UNCHANGED pickVars PROVE PicksFit'
<1>1. UNCHANGED <<shown, counter, picks>>
  BY DEF pickVars
<1>2. \A b, m : Turns(b, m)' = Turns(b, m)
  BY <1>1 DEF Turns, Within
<1>3. QED
  BY <1>1, <1>2 DEF PicksFit
(* What the steps of others leave of the pool.                             *)
LEMMA LendsSame ==
  ASSUME LendsFit, UNCHANGED lendVars PROVE LendsFit'
BY Zenon DEF LendsFit, LentOnce, lendVars

(* The bound on outages is kept.                                           *)
LEMMA OutageFits ==
  ASSUME outages \in 0 .. MaxOutages, Outage \/ NoOutage
  PROVE  outages' \in 0 .. MaxOutages
BY PoolBounds DEF Outage, NoOutage

(* A search that raises has found every connection down.                   *)
LEMMA SearchFindsUp ==
  ASSUME LinksFit, current < Len(links)
  PROVE  /\ Search \in 0 .. Len(links) - 1
         /\ Up(Search) \/ \A k \in DOMAIN links : ~links[k]
<1> DEFINE n == Len(links)
<1> DEFINE tried == {j \in 1 .. n : Up(Step(current + 1, j))}
<1>1. n \in Nat \ {0} /\ current \in Nat /\ current + 1 \in 1 .. n /\ DOMAIN links = 1 .. n
  BY LenProperties DEF LinksFit
<1>2. Search = IF tried = {} THEN Step(current + 1, n) ELSE Step(current + 1, Min(tried))
  BY DEF Search
<1> HIDE DEF n
<1>3. \A j \in Nat : Step(current + 1, j) \in 0 .. n - 1
  <2> SUFFICES ASSUME NEW j \in Nat PROVE (current + 1 + j) % n \in 0 .. n - 1
    BY DEF Step, n
  <2>1. current + 1 + j \in Nat
    BY <1>1
  <2>2. QED
    BY <1>1, <2>1, ModNext
<1>4. CASE tried = {}
  <2>1. Search = Step(current + 1, n)
    BY <1>2, <1>4
  <2>2. ASSUME NEW k \in DOMAIN links PROVE ~links[k]
    <3>1. k - 1 \in 0 .. n - 1
      BY <1>1, <2>2
    <3>2. PICK j \in 1 .. n : (current + 1 + j) % n = k - 1
      BY <1>1, <3>1, OnceAround
    <3>3. ~Up(Step(current + 1, j))
      BY <1>4
    <3>4. Step(current + 1, j) = k - 1
      BY <3>2 DEF Step, n
    <3>5. ~links[(k - 1) + 1]
      BY <3>3, <3>4 DEF Up
    <3>6. (k - 1) + 1 = k
      BY <1>1
    <3>7. QED
      BY <3>5, <3>6
  <2>3. QED
    BY <1>1, <1>3, <2>1, <2>2 DEF n
<1>5. CASE tried # {}
  <2>1. tried \subseteq Nat
    BY <1>1
  <2>2. Min(tried) \in tried
    BY <1>5, <2>1, MinIs
  <2>3. Min(tried) \in 1 .. n /\ Up(Step(current + 1, Min(tried)))
    BY <2>2
  <2>4. Search = Step(current + 1, Min(tried))
    BY <1>2, <1>5
  <2>5. QED
    BY <1>1, <1>3, <2>3, <2>4 DEF n
<1>6. QED
  BY <1>4, <1>5

(* A request looks at every connection on its round, or finds one.         *)
LEMMA GetConnectionFits ==
  ASSUME LinksFit, GetConnection
  PROVE  LinksFit'
<1>1. /\ links \in Seq(BOOLEAN) /\ current \in Nat /\ circle \in Nat /\ links' = links
      /\ Len(links) \in Nat /\ DOMAIN links = 1 .. Len(links)
      /\ current = 0 \/ current < circle
  BY LenProperties DEF LinksFit, GetConnection
<1>2. CASE current >= Len(links)
  <2>1. chosen' = "raised" /\ current' = current /\ circle' = circle
    BY <1>2 DEF GetConnection
  <2>2. Len(links) < circle \/ Len(links) = 0
    BY <1>1, <1>2
  <2>3. LiveLinkFound'
    BY <1>1, <2>1, <2>2 DEF LiveLinkFound
  <2>4. chosen' \in {"none", "gave", "raised"}
    BY <2>1
  <2>5. QED
    BY <1>1, <2>1, <2>3, <2>4, Zenon DEF LinksFit
<1>3. CASE current < Len(links) /\ Up(current)
  <2>1. Give(current, Step(current, 1))
    BY <1>1, <1>3 DEF GetConnection
  <2>2. /\ chosen' = "gave" /\ current' = (current + 1) % Len(links)
        /\ circle' = Len(links)
    BY <1>3, <2>1 DEF Give, Step
  <2>3. current' \in 0 .. Len(links) - 1
    <3>1. Len(links) \in Nat \ {0} /\ current + 1 \in Nat
      BY <1>1, <1>3
    <3>2. QED
      BY <2>2, <3>1, ModNext
  <2>4. LiveLinkFound' /\ current' \in Nat /\ current' < circle' /\ circle' \in Nat
    BY <1>1, <2>2, <2>3 DEF LiveLinkFound
  <2>5. chosen' \in {"none", "gave", "raised"}
    BY <2>2
  <2>6. QED
    BY <1>1, <2>4, <2>5, Zenon DEF LinksFit
<1>4. CASE current < Len(links) /\ ~Up(current)
  <2>1. Give(Search, Search)
    BY <1>1, <1>4 DEF GetConnection
  <2>2. /\ current' = Search /\ chosen' = IF Up(Search) THEN "gave" ELSE "raised"
        /\ circle' = Len(links)
    BY <2>1 DEF Give
  <2>3. /\ Search \in 0 .. Len(links) - 1
        /\ Up(Search) \/ \A k \in DOMAIN links : ~links[k]
    BY <1>4, SearchFindsUp
  <2>4. chosen' = "raised" => \A k \in DOMAIN links : ~links[k]
    BY <2>2, <2>3
  <2>5. LiveLinkFound' /\ chosen' \in {"none", "gave", "raised"}
    BY <1>1, <2>2, <2>4 DEF LiveLinkFound
  <2>6. current' \in Nat /\ current' < circle' /\ circle' \in Nat
    BY <1>1, <2>2, <2>3
  <2>7. QED
    BY <1>1, <2>5, <2>6, Zenon DEF LinksFit
<1>5. QED
  BY <1>1, <1>2, <1>3, <1>4

(* The steps of the adapter keep the invariant.                            *)
LEMMA LinksStay ==
  ASSUME PoolInv, LinkNext
  PROVE  PoolInv'
<1>1. LinksFit /\ outages \in 0 .. MaxOutages /\ links \in Seq(BOOLEAN) /\ Len(links) \in Nat
      /\ DOMAIN links = 1 .. Len(links)
  BY LenProperties DEF PoolInv, LinksFit
<1>2. UNCHANGED <<pickVars, lendVars>> /\ (Outage \/ NoOutage)
  BY DEF LinkNext, ConnectAll, Disconnect, GetConnection, LinkBreaks, LinkRecovers
<1>3. CASE ConnectAll
  <2>1. ASSUME NEW n \in Nat
        PROVE  links \o [k \in 1 .. n |-> TRUE] \in Seq(BOOLEAN)
    <3>1. [k \in 1 .. n |-> TRUE] \in [1 .. n -> BOOLEAN]
      OBVIOUS
    <3>2. [k \in 1 .. n |-> TRUE] \in Seq(BOOLEAN)
      BY <3>1, FunctionIsSeq
    <3>3. QED
      BY <1>1, <3>2, ConcatProperties
  <2>2. chosen' = "none" /\ current' = current /\ circle' = circle /\ LiveLinkFound'
    BY <1>3 DEF ConnectAll, LinksChange, LiveLinkFound
  <2>3. PICK n \in Nat : links' = links \o [k \in 1 .. n |-> TRUE]
    <3>1. CASE links' = links \o [k \in 1 .. AdapterSize |-> TRUE]
      BY <3>1, PoolBounds
    <3>2. CASE \E n \in 0 .. AdapterSize - 1 : links' = links \o [k \in 1 .. n |-> TRUE]
      <4>1. 0 .. AdapterSize - 1 \subseteq Nat
        BY PoolBounds
      <4>2. QED
        BY <3>2, <4>1
    <3>3. QED
      BY <1>3, <3>1, <3>2 DEF ConnectAll
  <2>4. links' \in Seq(BOOLEAN) /\ chosen' \in {"none", "gave", "raised"}
    BY <2>1, <2>2, <2>3
  <2>5. LinksFit'
    BY <1>1, <2>2, <2>4, Zenon DEF LinksFit
  <2>6. QED
    BY <1>1, <1>2, <2>5, OutageFits, PicksSame, LendsSame DEF PoolInv
<1>4. CASE Disconnect
  <2>1. links' = <<>> /\ chosen' = "none" /\ UNCHANGED <<current, circle>>
    BY <1>4 DEF Disconnect, LinksChange
  <2>2. <<>> \in Seq(BOOLEAN)
    OBVIOUS
  <2>3. LinksFit'
    <3>1. links' \in Seq(BOOLEAN) /\ chosen' \in {"none", "gave", "raised"} /\ chosen' # "raised"
      BY <2>1, <2>2
    <3>2. QED
      BY <1>1, <2>1, <3>1, Zenon DEF LinksFit, LiveLinkFound
  <2>4. QED
    BY <1>1, <1>2, <2>3, OutageFits, PicksSame, LendsSame DEF PoolInv
<1>5. CASE GetConnection
  <2>1. LinksFit'
    BY <1>1, <1>5, GetConnectionFits
  <2>2. QED
    BY <1>1, <1>2, <2>1, OutageFits, PicksSame, LendsSame DEF PoolInv
<1>6. ASSUME NEW k \in DOMAIN links, LinkBreaks(k) \/ LinkRecovers(k) PROVE PoolInv'
  <2>1. chosen' = "none" /\ UNCHANGED <<current, circle>>
        /\ \E x \in BOOLEAN : links' = [links EXCEPT ![k] = x]
    BY <1>6 DEF LinkBreaks, LinkRecovers, LinksChange
  <2>2. links' \in Seq(BOOLEAN) /\ Len(links') = Len(links)
    BY <1>1, <2>1, ExceptSeq
  <2>3. LinksFit'
    <3>1. chosen' \in {"none", "gave", "raised"} /\ chosen' # "raised"
      BY <2>1
    <3>2. QED
      BY <1>1, <2>1, <2>2, <3>1, Zenon DEF LinksFit, LiveLinkFound
  <2>4. QED
    BY <1>1, <1>2, <2>3, OutageFits, PicksSame, LendsSame DEF PoolInv
<1>7. QED
  BY <1>3, <1>4, <1>5, <1>6 DEF LinkNext

-----------------------------------------------------------------------------
(* A list without one of its members.                                      *)
LEMMA RemoveAtIs ==
  ASSUME NEW S, NEW s \in Seq(S), NEW k \in 1 .. Len(s)
  PROVE  /\ RemoveAt(s, k) \in Seq(S) /\ Len(RemoveAt(s, k)) = Len(s) - 1
         /\ \A i \in 1 .. Len(s) - 1 : RemoveAt(s, k)[i] = s[IF i < k THEN i ELSE i + 1]
<1> DEFINE a == SubSeq(s, 1, k - 1)
<1> DEFINE b == SubSeq(s, k + 1, Len(s))
<1>1. Len(s) \in Nat /\ \A i \in 1 .. Len(s) : s[i] \in S
  BY LenProperties, ElementOfSeq
<1>2. /\ a \in Seq(S) /\ Len(a) = k - 1
      /\ \A i \in 1 .. k - 1 : a[i] = s[i]
  <2>1. \A i \in 1 .. k - 1 : s[i] \in S
    BY <1>1
  <2>2. /\ a \in Seq(S) /\ Len(a) = IF 1 <= k - 1 THEN (k - 1) - 1 + 1 ELSE 0
        /\ \A i \in 1 .. (k - 1) - 1 + 1 : a[i] = s[1 + i - 1]
    BY <1>1, <2>1, SubSeqProperties
  <2>3. QED
    BY <1>1, <2>2
<1>3. /\ b \in Seq(S) /\ Len(b) = Len(s) - k
      /\ \A i \in 1 .. Len(s) - k : b[i] = s[k + i]
  <2>1. \A i \in k + 1 .. Len(s) : s[i] \in S
    BY <1>1
  <2>2. /\ b \in Seq(S) /\ Len(b) = IF k + 1 <= Len(s) THEN Len(s) - (k + 1) + 1 ELSE 0
        /\ \A i \in 1 .. Len(s) - (k + 1) + 1 : b[i] = s[(k + 1) + i - 1]
    BY <1>1, <2>1, SubSeqProperties
  <2>3. QED
    BY <1>1, <2>2
<1>4. RemoveAt(s, k) = a \o b
  BY DEF RemoveAt
<1> HIDE DEF a, b
<1>5. /\ a \o b \in Seq(S) /\ Len(a \o b) = Len(a) + Len(b)
      /\ \A i \in 1 .. Len(a) + Len(b) : (a \o b)[i] = IF i <= Len(a) THEN a[i] ELSE b[i - Len(a)]
  BY <1>2, <1>3, ConcatProperties
<1>6. Len(a \o b) = Len(s) - 1
  BY <1>1, <1>2, <1>3, <1>5
<1>7. ASSUME NEW i \in 1 .. Len(s) - 1 PROVE (a \o b)[i] = s[IF i < k THEN i ELSE i + 1]
  <2>1. CASE i < k
    BY <1>1, <1>2, <1>3, <1>5, <2>1
  <2>2. CASE i >= k
    <3>1. (a \o b)[i] = b[i - (k - 1)] /\ i - (k - 1) \in 1 .. Len(s) - k
      BY <1>1, <1>2, <1>3, <1>5, <2>2
    <3>2. b[i - (k - 1)] = s[k + (i - (k - 1))] /\ k + (i - (k - 1)) = i + 1
      BY <1>1, <1>3, <3>1
    <3>3. QED
      BY <2>2, <3>1, <3>2
  <2>3. i < k \/ i >= k
    OBVIOUS
  <2>4. QED
    BY <2>1, <2>2, <2>3, Zenon
<1>8. QED
  BY <1>4, <1>5, <1>6, <1>7

(* A change of the list starts the turns anew.                             *)
LEMMA ListChangesFits ==
  ASSUME PicksFit, ListChanges
  PROVE  PicksFit'
<1>1. /\ shown \in Seq(Target) /\ Len(shown) \in Nat /\ DOMAIN shown = 1 .. Len(shown)
      /\ counter \in 0 .. MaxTurns /\ counter \in Nat /\ counter' = counter
      /\ \A k, l \in DOMAIN shown : shown[k] = shown[l] => k = l
  BY LenProperties, PoolBounds DEF PicksFit, ListChanges
<1>2. picks' = [t \in Target |-> 0]
  BY DEF ListChanges
<1>3. picks' \in [Target -> 0 .. MaxTurns] /\ \A t \in Target : picks'[t] = 0
  BY <1>2, PoolBounds
<1>4. /\ shown' \in Seq(Target)
      /\ \A k, l \in 1 .. Len(shown') : shown'[k] = shown'[l] => k = l
  <2>1. ASSUME NEW t \in Target, \A k \in DOMAIN shown : shown[k] # t, shown' = Append(shown, t)
        PROVE  /\ shown' \in Seq(Target)
               /\ \A k, l \in 1 .. Len(shown') : shown'[k] = shown'[l] => k = l
    <3>1. /\ shown' \in Seq(Target) /\ Len(shown') = Len(shown) + 1
          /\ \A i \in 1 .. Len(shown) : shown'[i] = shown[i]
          /\ shown'[Len(shown) + 1] = t
      BY <1>1, <2>1, AppendProperties
    <3>2. ASSUME NEW k \in 1 .. Len(shown) + 1, NEW l \in 1 .. Len(shown) + 1,
                 shown'[k] = shown'[l]
          PROVE  k = l
      <4>1. CASE k = Len(shown) + 1 \/ l = Len(shown) + 1
        BY <1>1, <2>1, <3>1, <3>2, <4>1
      <4>2. CASE k \in 1 .. Len(shown) /\ l \in 1 .. Len(shown)
        BY <1>1, <3>1, <3>2, <4>2
      <4>3. QED
        BY <1>1, <4>1, <4>2
    <3>3. QED
      BY <3>1, <3>2
  <2>2. ASSUME NEW j \in DOMAIN shown, shown' = RemoveAt(shown, j)
        PROVE  /\ shown' \in Seq(Target)
               /\ \A k, l \in 1 .. Len(shown') : shown'[k] = shown'[l] => k = l
    <3> DEFINE without == RemoveAt(shown, j)
    <3>4. j \in 1 .. Len(shown) /\ shown \in Seq(Target)
      BY <1>1
    <3>5. /\ without \in Seq(Target) /\ Len(without) = Len(shown) - 1
          /\ \A i \in 1 .. Len(shown) - 1 : without[i] = shown[IF i < j THEN i ELSE i + 1]
      BY <3>4, RemoveAtIs
    <3>6. shown' = without
      BY <2>2
    <3> HIDE DEF without
    <3>1. /\ shown' \in Seq(Target) /\ Len(shown') = Len(shown) - 1
          /\ \A i \in 1 .. Len(shown) - 1 : shown'[i] = shown[IF i < j THEN i ELSE i + 1]
      BY <3>5, <3>6
    <3>2. ASSUME NEW k \in 1 .. Len(shown) - 1, NEW l \in 1 .. Len(shown) - 1,
                 shown'[k] = shown'[l]
          PROVE  k = l
      <4>1. (IF k < j THEN k ELSE k + 1) \in DOMAIN shown /\ (IF l < j THEN l ELSE l + 1) \in DOMAIN shown
        BY <1>1
      <4>2. (IF k < j THEN k ELSE k + 1) = (IF l < j THEN l ELSE l + 1)
        BY <1>1, <3>1, <3>2, <4>1
      <4>3. QED
        BY <1>1, <4>2
    <3>3. QED
      BY <3>1, <3>2
  <2>3. QED
    BY <2>1, <2>2 DEF ListChanges
<1>5. Len(shown') \in Nat /\ DOMAIN shown' = 1 .. Len(shown')
      /\ (shown' # <<>> => Len(shown') # 0) /\ \A k \in 1 .. Len(shown') : shown'[k] \in Target
  BY <1>4, LenProperties, EmptySeq, ElementOfSeq
<1>6. ASSUME shown' # <<>>
      PROVE  \E b \in 0 .. Len(shown') - 1, m \in Nat : Turns(b, m)'
  <2>6. Len(shown') \in Nat \ {0} /\ counter \in Nat
    BY <1>1, <1>5, <1>6
  <2>7. counter % Len(shown') \in 0 .. Len(shown') - 1
    BY <2>6, ModNext
  <2>1. PICK b \in 0 .. Len(shown') - 1 : b = counter % Len(shown')
    BY <2>7
  <2>2. \A i \in Nat : ~Within(b, counter' % Len(shown'), i)
    BY <1>1, <2>1, <2>6, <2>7 DEF Within
  <2>3. \A k \in DOMAIN shown' : picks'[shown'[k]] = 0
    BY <1>3, <1>5
  <2>8. \A k \in DOMAIN shown' : k - 1 \in Nat
    BY <1>5
  <2>4. Turns(b, 0)'
    BY <2>2, <2>3, <2>8 DEF Turns, Within
  <2>5. QED
    BY <2>4
<1>7. QED
  BY <1>1, <1>3, <1>4, <1>5, <1>6 DEF PicksFit

(* The turns go on from the one whose turn it was.                         *)
LEMMA SelectFits ==
  ASSUME PicksFit, SelectInstance
  PROVE  PicksFit'
<1> DEFINE n == Len(shown)
<1> DEFINE r == counter % n
<1>1. /\ shown \in Seq(Target) /\ shown # <<>> /\ n \in Nat \ {0} /\ DOMAIN shown = 1 .. n
      /\ \A k \in 1 .. n : shown[k] \in Target
  BY LenProperties, EmptySeq, ElementOfSeq DEF PicksFit, SelectInstance
<1>2. /\ counter \in Nat /\ counter + 1 \in 0 .. MaxTurns /\ counter' = counter + 1
      /\ shown' = shown /\ picks' = [picks EXCEPT ![RoundRobin(counter)] = @ + 1]
      /\ picks \in [Target -> 0 .. MaxTurns] /\ \A t \in Target : picks[t] <= counter
      /\ \A k, l \in DOMAIN shown : shown[k] = shown[l] => k = l
  BY PoolBounds DEF PicksFit, SelectInstance
<1>3. /\ r \in 0 .. n - 1 /\ (counter + 1) % n = IF r = n - 1 THEN 0 ELSE r + 1
  BY <1>1, <1>2, ModNext
<1>4. RoundRobin(counter) = shown[r + 1] /\ r + 1 \in 1 .. n
  BY <1>1, <1>3 DEF RoundRobin
<1>5. \A t \in Target : picks'[t] = IF t = shown[r + 1] THEN picks[t] + 1 ELSE picks[t]
  BY <1>1, <1>2, <1>4
<1>6. picks' \in [Target -> 0 .. MaxTurns] /\ \A t \in Target : picks'[t] <= counter'
  <2>1. shown[r + 1] \in Target
    BY <1>1, <1>4
  <2>2. picks[shown[r + 1]] + 1 \in 0 .. MaxTurns
    BY <1>2, <2>1, PoolBounds
  <2>3. QED
    BY <1>1, <1>2, <1>4, <1>5, <2>1, <2>2, PoolBounds
<1>7. PICK b \in 0 .. n - 1, m \in Nat : Turns(b, m)
  BY <1>1 DEF PicksFit
<1>8. \A k \in 1 .. n : picks[shown[k]] = m + (IF Within(b, r, k - 1) THEN 1 ELSE 0)
  BY <1>1, <1>7 DEF Turns
<1>9. \A k \in 1 .. n : picks'[shown[k]] = IF k = r + 1 THEN picks[shown[k]] + 1 ELSE picks[shown[k]]
  BY <1>1, <1>2, <1>4, <1>5
<1> DEFINE s == (counter + 1) % n
<1>10. n' = n /\ DOMAIN shown' = 1 .. n /\ counter' % n = s
  BY <1>1, <1>2
<1> HIDE DEF n, r, s
<1>11. s \in 0 .. n - 1 /\ s = (IF r = n - 1 THEN 0 ELSE r + 1)
  BY <1>1, <1>3 DEF s
<1>12. CASE s # b
  <2>1. ASSUME NEW k \in 1 .. n
        PROVE  picks'[shown[k]] = m + (IF Within(b, s, k - 1) THEN 1 ELSE 0)
    BY <1>1, <1>3, <1>7, <1>8, <1>9, <1>11, <1>12 DEF Within
  <2>2. Turns(b, m)'
    BY <1>2, <1>10, <2>1 DEF Turns, n, Within
  <2>3. QED
    BY <1>1, <1>2, <1>6, <1>7, <2>2 DEF PicksFit, n
<1>13. CASE s = b
  <2>1. ASSUME NEW k \in 1 .. n PROVE picks'[shown[k]] = m + 1
    <3>1. n \in Nat /\ m \in Nat /\ r \in 0 .. n - 1 /\ k - 1 \in 0 .. n - 1
      BY <1>1, <1>3
    <3>2. Within(b, r, k - 1) <=> k # r + 1
      BY <3>1, <1>11, <1>13 DEF Within
    <3>3. /\ picks[shown[k]] = m + (IF Within(b, r, k - 1) THEN 1 ELSE 0)
          /\ picks'[shown[k]] = IF k = r + 1 THEN picks[shown[k]] + 1 ELSE picks[shown[k]]
      BY <1>8, <1>9
    <3>4. CASE k = r + 1
      BY <3>1, <3>2, <3>3, <3>4
    <3>5. CASE k # r + 1
      BY <3>1, <3>2, <3>3, <3>5
    <3>6. QED
      BY <3>4, <3>5
  <2>2. \A i \in Nat : ~Within(b, s, i)
    BY <1>13, <1>7 DEF Within
  <2>5. \A k \in 1 .. n : k - 1 \in Nat
    BY <1>1
  <2>3. Turns(b, m + 1)'
    BY <1>2, <1>7, <1>10, <2>1, <2>2, <2>5, SMTT(60) DEF Turns, n, Within
  <2>4. QED
    BY <1>1, <1>2, <1>6, <1>7, <2>3, SMTT(60) DEF PicksFit, n
<1>14. QED
  BY <1>12, <1>13

(* The steps of the selection keep the invariant.                          *)
LEMMA PicksStay ==
  ASSUME PoolInv, PickNext
  PROVE  PoolInv'
<1>1. UNCHANGED <<linkVars, lendVars>> /\ NoOutage
  BY DEF PickNext, ListChanges, SelectInstance
<1>2. PicksFit'
  BY ListChangesFits, SelectFits DEF PickNext, PoolInv
<1>3. QED
  BY <1>1, <1>2, OutageFits, LinksSame, LendsSame DEF PoolInv


-----------------------------------------------------------------------------
(* The pool: a connection is lent when it is free, and taken back when the *)
(* task that has it gives it back.                                         *)
LEMMA Marked ==
  ASSUME NEW p \in Seq([used: BOOLEAN, up: BOOLEAN]), NEW k \in 1 .. Len(p),
         NEW u \in BOOLEAN, NEW w \in BOOLEAN, NEW q,
         q = [p EXCEPT ![k] = [used |-> u, up |-> w]]
  PROVE  /\ q \in Seq([used: BOOLEAN, up: BOOLEAN]) /\ Len(q) = Len(p)
         /\ q[k].used = u /\ \A j \in 1 .. Len(p) : j # k => q[j] = p[j]
BY ExceptSeq
(* To mark a connection as used is to replace it.                          *)
LEMMA UsedMarked ==
  ASSUME NEW p \in Seq([used: BOOLEAN, up: BOOLEAN]), NEW k \in 1 .. Len(p), NEW v \in BOOLEAN
  PROVE  [p EXCEPT ![k].used = v] = [p EXCEPT ![k] = [used |-> v, up |-> p[k].up]]
<1>1. p[k] \in [used: BOOLEAN, up: BOOLEAN]
  BY ElementOfSeq
<1>2. [p[k] EXCEPT !.used = v] = [used |-> v, up |-> p[k].up]
  BY <1>1
<1>3. [p EXCEPT ![k].used = v] = [p EXCEPT ![k] = [p[k] EXCEPT !.used = v]]
  OBVIOUS
<1>4. QED
  BY <1>2, <1>3
(* To mark a connection as up is to replace it.                            *)
LEMMA UpMarked ==
  ASSUME NEW p \in Seq([used: BOOLEAN, up: BOOLEAN]), NEW k \in 1 .. Len(p), NEW v \in BOOLEAN
  PROVE  [p EXCEPT ![k].up = v] = [p EXCEPT ![k] = [used |-> p[k].used, up |-> v]]
<1>1. p[k] \in [used: BOOLEAN, up: BOOLEAN]
  BY ElementOfSeq
<1>2. [p[k] EXCEPT !.up = v] = [used |-> p[k].used, up |-> v]
  BY <1>1
<1>3. [p EXCEPT ![k].up = v] = [p EXCEPT ![k] = [p[k] EXCEPT !.up = v]]
  OBVIOUS
<1>4. QED
  BY <1>2, <1>3
(* The marks of a connection of the pool.                                  *)
LEMMA ElementUp ==
  ASSUME NEW p \in Seq([used: BOOLEAN, up: BOOLEAN]), NEW k \in 1 .. Len(p)
  PROVE  p[k].used \in BOOLEAN /\ p[k].up \in BOOLEAN
<1>1. p[k] \in [used: BOOLEAN, up: BOOLEAN]
  BY ElementOfSeq
<1>2. QED
  BY <1>1

(* A task without a connection does not have that of another.              *)
LEMMA GivenUp ==
  ASSUME LendsFit, NEW b \in Borrower, NEW at \in {"idle", "connecting", "refused"},
         borrower' = [borrower EXCEPT ![b] = [at |-> at, conn |-> 0]]
  PROVE  /\ borrower' \in [Borrower -> [at: {"idle", "connecting", "has", "refused"}, conn: Nat]]
         /\ borrower'[b].at # "has" /\ borrower'[b].at = at
         /\ \A c \in Borrower : c # b => borrower'[c] = borrower[c]
         /\ \A c, d \in Borrower :
              borrower'[c].at = "has" /\ borrower'[d].at = "has" /\ c # d
                => borrower'[c].conn # borrower'[d].conn
<1>1. borrower \in [Borrower -> [at: {"idle", "connecting", "has", "refused"}, conn: Nat]]
  BY DEF LendsFit
<1>2. /\ borrower' \in [Borrower -> [at: {"idle", "connecting", "has", "refused"}, conn: Nat]]
      /\ borrower'[b].at # "has" /\ borrower'[b].at = at
      /\ \A c \in Borrower : c # b => borrower'[c] = borrower[c]
  BY <1>1
<1>3. QED
  BY <1>2 DEF LendsFit, LentOnce

(* A task gets a free connection, or the place of a new one.               *)
LEMMA AcquireFits ==
  ASSUME LendsFit, NEW b \in Borrower, Acquire(b)
  PROVE  LendsFit'
<1>1. /\ pool \in Seq([used: BOOLEAN, up: BOOLEAN]) /\ Len(pool) \in Nat
      /\ DOMAIN pool = 1 .. Len(pool) /\ locked = {} /\ Len(pool) <= PoolSize
      /\ borrower \in [Borrower -> [at: {"idle", "connecting", "has", "refused"}, conn: Nat]]
  BY LenProperties DEF LendsFit, Acquire, LentOnce
<1>2. \A c \in Borrower : borrower[c].at # "connecting"
  BY <1>1 DEF LendsFit
<1>3. CASE Free # {}
  <2> DEFINE k == Min(Free)
  <2>1. Free \subseteq Nat
    BY <1>1 DEF Free
  <2>2. k \in Free
    BY <1>3, <2>1, MinIs
  <2>3. k \in DOMAIN pool /\ ~pool[k].used /\ k \in Nat
    BY <2>1, <2>2 DEF Free
  <2>4. /\ pool' = [pool EXCEPT ![k].used = TRUE] /\ locked' = locked
        /\ borrower' = [borrower EXCEPT ![b] = [at |-> "has", conn |-> k]]
    BY <1>3 DEF Acquire, Becomes
  <2> HIDE DEF k
  <2>5. k \in 1 .. Len(pool) /\ TRUE \in BOOLEAN /\ pool[k].up \in BOOLEAN
    BY <1>1, <2>3, ElementUp
  <2>6. pool' = [pool EXCEPT ![k] = [used |-> TRUE, up |-> pool[k].up]]
    BY <1>1, <2>4, <2>5, UsedMarked
  <2>7. /\ pool' \in Seq([used: BOOLEAN, up: BOOLEAN]) /\ Len(pool') = Len(pool)
        /\ pool'[k].used = TRUE /\ \A j \in 1 .. Len(pool) : j # k => pool'[j] = pool[j]
    BY <1>1, <2>5, <2>6, Marked
  <2>8. DOMAIN pool' = 1 .. Len(pool)
    BY <2>7, LenProperties
  <2>9. /\ borrower' \in [Borrower -> [at: {"idle", "connecting", "has", "refused"}, conn: Nat]]
        /\ borrower'[b] = [at |-> "has", conn |-> k]
        /\ \A c \in Borrower : c # b => borrower'[c] = borrower[c]
    BY <1>1, <2>3, <2>4
  <2>10. \A c \in Borrower : c # b /\ borrower'[c].at = "has"
           => /\ borrower'[c].conn \in 1 .. Len(pool) /\ borrower'[c].conn # k
              /\ pool'[borrower'[c].conn].used
    BY <1>1, <2>3, <2>7, <2>9 DEF LendsFit
  <2>11. \A c \in Borrower : borrower'[c].at = "has"
           => borrower'[c].conn \in DOMAIN pool' /\ pool'[borrower'[c].conn].used
    BY <2>5, <2>7, <2>8, <2>9, <2>10
  <2>12. \A c, d \in Borrower :
           borrower'[c].at = "has" /\ borrower'[d].at = "has" /\ c # d
             => borrower'[c].conn # borrower'[d].conn
    <3>1. \A c, d \in Borrower : c # b /\ d # b /\ c # d
            /\ borrower'[c].at = "has" /\ borrower'[d].at = "has"
              => borrower'[c].conn # borrower'[d].conn
      BY <2>9 DEF LendsFit, LentOnce
    <3>2. borrower'[b].conn = k
      BY <2>9
    <3>3. QED
      BY <2>10, <3>1, <3>2
  <2>13. \A c \in Borrower : borrower'[c].at # "connecting"
    BY <1>2, <2>9
  <2>14. QED
    BY <1>1, <2>4, <2>7, <2>9, <2>11, <2>12, <2>13 DEF LendsFit, LentOnce
<1>4. CASE Free = {}
  <2>1. /\ pool' = pool
        /\ \/ /\ Len(pool) < PoolSize /\ locked' = {b}
              /\ borrower' = [borrower EXCEPT ![b] = [at |-> "connecting", conn |-> 0]]
           \/ /\ locked' = locked
              /\ borrower' = [borrower EXCEPT ![b] = [at |-> "refused", conn |-> 0]]
    BY <1>4 DEF Acquire, Becomes
  <2>2. /\ borrower' \in [Borrower -> [at: {"idle", "connecting", "has", "refused"}, conn: Nat]]
        /\ borrower'[b].at # "has" /\ \A c \in Borrower : c # b => borrower'[c] = borrower[c]
        /\ \A c, d \in Borrower :
             borrower'[c].at = "has" /\ borrower'[d].at = "has" /\ c # d
               => borrower'[c].conn # borrower'[d].conn
    BY <2>1, GivenUp
  <2>3. LentOnce'
    BY <1>1, <2>1, <2>2 DEF LentOnce
  <2>4. \A c \in Borrower : borrower'[c].at = "has"
          => borrower'[c].conn \in DOMAIN pool' /\ pool'[borrower'[c].conn].used
    BY <2>1, <2>2 DEF LendsFit
  <2>5. /\ locked' \subseteq Borrower /\ (locked' # {} => Len(pool') < PoolSize)
        /\ \A c \in Borrower : borrower'[c].at = "connecting" => c \in locked' /\ locked' = {c}
    <3>1. CASE locked' = locked /\ borrower' = [borrower EXCEPT ![b] = [at |-> "refused", conn |-> 0]]
      <4>1. \A c \in Borrower : borrower'[c].at # "connecting"
        BY <1>1, <1>2, <3>1
      <4>2. QED
        BY <1>1, <3>1, <4>1
    <3>2. CASE Len(pool) < PoolSize /\ locked' = {b}
      BY <1>1, <1>2, <2>1, <2>2, <3>2
    <3>3. QED
      BY <2>1, <3>1, <3>2
  <2>6. QED
    BY <1>1, <2>1, <2>2, <2>3, <2>4, <2>5 DEF LendsFit
<1>5. QED
  BY <1>3, <1>4

(* The new connection comes to the task that waits for it.                 *)
LEMMA ConnectedFits ==
  ASSUME LendsFit, NEW b \in Borrower, Connected(b)
  PROVE  LendsFit'
<1>1. /\ pool \in Seq([used: BOOLEAN, up: BOOLEAN]) /\ Len(pool) \in Nat
      /\ DOMAIN pool = 1 .. Len(pool) /\ locked = {b} /\ Len(pool) < PoolSize /\ locked' = {}
      /\ \A c \in Borrower : c # b => borrower[c].at # "connecting"
      /\ borrower \in [Borrower -> [at: {"idle", "connecting", "has", "refused"}, conn: Nat]]
  BY LenProperties DEF LendsFit, Connected
<1>2. CASE pool' = Append(pool, [used |-> TRUE, up |-> TRUE]) /\ Becomes(b, "has", Len(pool) + 1)
  <2>1. [used |-> TRUE, up |-> TRUE] \in [used: BOOLEAN, up: BOOLEAN]
    OBVIOUS
  <2>2. /\ pool' \in Seq([used: BOOLEAN, up: BOOLEAN]) /\ Len(pool') = Len(pool) + 1
        /\ \A j \in 1 .. Len(pool) : pool'[j] = pool[j]
        /\ pool'[Len(pool) + 1] = [used |-> TRUE, up |-> TRUE]
    BY <1>1, <1>2, <2>1, AppendProperties
  <2>3. DOMAIN pool' = 1 .. Len(pool) + 1 /\ Len(pool') <= PoolSize
    BY <1>1, <2>2, PoolBounds, LenProperties
  <2>4. /\ borrower' \in [Borrower -> [at: {"idle", "connecting", "has", "refused"}, conn: Nat]]
        /\ borrower'[b] = [at |-> "has", conn |-> Len(pool) + 1]
        /\ \A c \in Borrower : c # b => borrower'[c] = borrower[c]
    BY <1>1, <1>2 DEF Becomes
  <2>5. \A c \in Borrower : c # b /\ borrower'[c].at = "has"
          => borrower'[c].conn \in 1 .. Len(pool) /\ pool'[borrower'[c].conn].used
    BY <1>1, <2>2, <2>4 DEF LendsFit
  <2>6. \A c \in Borrower : borrower'[c].at = "has"
          => borrower'[c].conn \in DOMAIN pool' /\ pool'[borrower'[c].conn].used
    <3>1. borrower'[b].conn \in DOMAIN pool' /\ pool'[borrower'[b].conn].used
      BY <1>1, <2>2, <2>3, <2>4
    <3>2. QED
      BY <1>1, <2>3, <2>5, <3>1
  <2>7. \A c, d \in Borrower :
           borrower'[c].at = "has" /\ borrower'[d].at = "has" /\ c # d
             => borrower'[c].conn # borrower'[d].conn
    <3>1. \A c, d \in Borrower : c # b /\ d # b /\ c # d
            /\ borrower'[c].at = "has" /\ borrower'[d].at = "has"
              => borrower'[c].conn # borrower'[d].conn
      BY <2>4 DEF LendsFit, LentOnce
    <3>2. \A c \in Borrower : c # b /\ borrower'[c].at = "has" => borrower'[c].conn # borrower'[b].conn
      BY <1>1, <2>4, <2>5
    <3>3. QED
      BY <3>1, <3>2
  <2>8. \A c \in Borrower : borrower'[c].at # "connecting"
    BY <1>1, <2>4
  <2>9. QED
    BY <1>1, <2>2, <2>3, <2>4, <2>6, <2>7, <2>8 DEF LendsFit, LentOnce
<1>3. CASE pool' = pool /\ Becomes(b, "idle", 0)
  <2>1. /\ borrower' \in [Borrower -> [at: {"idle", "connecting", "has", "refused"}, conn: Nat]]
        /\ borrower'[b].at # "has" /\ borrower'[b].at = "idle"
        /\ \A c \in Borrower : c # b => borrower'[c] = borrower[c]
        /\ \A c, d \in Borrower :
             borrower'[c].at = "has" /\ borrower'[d].at = "has" /\ c # d
               => borrower'[c].conn # borrower'[d].conn
    BY <1>3, GivenUp DEF Becomes
  <2>2. \A c \in Borrower : borrower'[c].at = "has"
          => borrower'[c].conn \in DOMAIN pool' /\ pool'[borrower'[c].conn].used
    BY <1>3, <2>1 DEF LendsFit
  <2>3. \A c \in Borrower : borrower'[c].at # "connecting"
    BY <1>1, <2>1
  <2>4. Len(pool') <= PoolSize /\ pool' \in Seq([used: BOOLEAN, up: BOOLEAN])
    BY <1>1, <1>3, PoolBounds
  <2>5. QED
    BY <1>1, <2>1, <2>2, <2>3, <2>4 DEF LendsFit, LentOnce
<1>4. QED
  BY <1>2, <1>3 DEF Connected

(* A task gives its connection back.                                       *)
LEMMA ReleaseFits ==
  ASSUME LendsFit, NEW b \in Borrower, Release(b)
  PROVE  LendsFit'
<1> DEFINE k == borrower[b].conn
<1>1. /\ pool \in Seq([used: BOOLEAN, up: BOOLEAN]) /\ Len(pool) \in Nat
      /\ DOMAIN pool = 1 .. Len(pool) /\ k \in 1 .. Len(pool) /\ locked = {} /\ locked' = {}
      /\ \A c \in Borrower : borrower[c].at # "connecting"
  BY LenProperties DEF LendsFit, Release
<1>2. /\ pool' = [pool EXCEPT ![k].used = FALSE] /\ pool[k].up \in BOOLEAN
      /\ borrower' = [borrower EXCEPT ![b] = [at |-> "idle", conn |-> 0]]
  BY <1>1, ElementUp DEF Release, Becomes
<1>3. \A c \in Borrower : borrower[c].at = "has" /\ c # b => borrower[c].conn # k
  BY DEF LendsFit, LentOnce, Release
<1>4. PICK j \in 1 .. Len(pool) : j = k
  BY <1>1
<1>5. pool' = [pool EXCEPT ![j] = [used |-> FALSE, up |-> pool[j].up]]
  BY <1>1, <1>2, <1>4, UsedMarked
<1>6. /\ pool' \in Seq([used: BOOLEAN, up: BOOLEAN]) /\ Len(pool') = Len(pool)
      /\ \A i \in 1 .. Len(pool) : i # j => pool'[i] = pool[i]
  <2>1. FALSE \in BOOLEAN /\ pool[j].up \in BOOLEAN /\ pool \in Seq([used: BOOLEAN, up: BOOLEAN])
    BY <1>1, <1>2, <1>4
  <2>2. QED
    BY <1>5, <2>1, Marked
<1>7. DOMAIN pool' = 1 .. Len(pool)
  BY <1>6, LenProperties
<1>8. /\ borrower' \in [Borrower -> [at: {"idle", "connecting", "has", "refused"}, conn: Nat]]
      /\ borrower'[b].at # "has" /\ borrower'[b].at = "idle"
      /\ \A c \in Borrower : c # b => borrower'[c] = borrower[c]
      /\ \A c, d \in Borrower :
           borrower'[c].at = "has" /\ borrower'[d].at = "has" /\ c # d
             => borrower'[c].conn # borrower'[d].conn
  BY <1>2, GivenUp
<1>9. \A c \in Borrower : borrower'[c].at = "has"
        => borrower'[c].conn \in DOMAIN pool' /\ pool'[borrower'[c].conn].used
  BY <1>1, <1>3, <1>4, <1>6, <1>7, <1>8 DEF LendsFit
<1>10. \A c \in Borrower : borrower'[c].at # "connecting"
  BY <1>1, <1>8
<1>11. QED
  BY <1>1, <1>6, <1>8, <1>9, <1>10 DEF LendsFit, LentOnce

(* A connection that breaks stays lent.                                    *)
LEMMA PoolLinkBreaksFits ==
  ASSUME LendsFit, NEW k \in DOMAIN pool, PoolLinkBreaks(k)
  PROVE  LendsFit'
<1>1. /\ pool \in Seq([used: BOOLEAN, up: BOOLEAN]) /\ Len(pool) \in Nat
      /\ DOMAIN pool = 1 .. Len(pool) /\ k \in 1 .. Len(pool)
  BY LenProperties DEF LendsFit
<1>2. pool' = [pool EXCEPT ![k] = [used |-> pool[k].used, up |-> FALSE]]
  BY <1>1, UpMarked DEF PoolLinkBreaks
<1>3. pool[k].used \in BOOLEAN
  BY <1>1, ElementUp
<1>4. /\ pool' \in Seq([used: BOOLEAN, up: BOOLEAN]) /\ Len(pool') = Len(pool)
      /\ pool'[k].used = pool[k].used /\ \A i \in 1 .. Len(pool) : i # k => pool'[i] = pool[i]
  BY <1>1, <1>2, <1>3, Marked
<1>5. DOMAIN pool' = DOMAIN pool /\ \A i \in DOMAIN pool : pool'[i].used = pool[i].used
  BY <1>1, <1>4, LenProperties
<1>6. borrower' = borrower /\ locked' = locked
  BY DEF PoolLinkBreaks
<1>7. QED
  BY <1>4, <1>5, <1>6, Zenon DEF LendsFit, LentOnce

-----------------------------------------------------------------------------
(* The steps of the pool keep the invariant.                               *)
LEMMA LendsStay ==
  ASSUME PoolInv, LendNext
  PROVE  PoolInv'
<1>1. UNCHANGED <<linkVars, pickVars>> /\ (Outage \/ NoOutage)
  BY DEF LendNext, Acquire, Connected, Release, PoolLinkBreaks, PoolOnly
<1>2. LendsFit'
  BY AcquireFits, ConnectedFits, ReleaseFits, PoolLinkBreaksFits DEF LendNext, PoolInv
<1>3. QED
  BY <1>1, <1>2, OutageFits, LinksSame, PicksSame DEF PoolInv

(* Every step keeps the invariant.                                         *)
LEMMA PoolInductive ==
  ASSUME PoolInv, [PoolNext]_poolVars
  PROVE  PoolInv'
<1>1. CASE UNCHANGED poolVars
  BY <1>1, LinksSame, PicksSame, LendsSame DEF PoolInv, poolVars
<1>2. CASE PoolNext
  BY <1>2, LinksStay, PicksStay, LendsStay DEF PoolNext
<1>3. QED
  BY <1>1, <1>2

(* Those whose turn has been and those whose turn is to come differ by one *)
LEMMA TurnsAreFair ==
  ASSUME PicksFit
  PROVE  InstancesTakeTurns
<1> SUFFICES ASSUME NEW k \in DOMAIN shown, NEW l \in DOMAIN shown
             PROVE  picks[shown[k]] <= picks[shown[l]] + 1
  BY DEF InstancesTakeTurns
<1>1. shown # <<>>
  BY EmptySeq
<1>2. PICK b \in 0 .. Len(shown) - 1, m \in Nat : Turns(b, m)
  BY <1>1 DEF PicksFit
<1>3. picks[shown[k]] \in {m, m + 1} /\ picks[shown[l]] \in {m, m + 1}
  BY <1>2 DEF Turns
<1>4. QED
  BY <1>3

(* PoolsSound, for every number of connections, instances and tasks: a     *)
(* live connection is found, instances take turns, and no connection is    *)
(* lent twice.                                                             *)
THEOREM CallsAreSharedOut == PoolSpec => []PoolsSound
<1>1. PoolInv => PoolsSound
  <2>1. PoolInv => PoolTypeOK /\ LiveLinkFound /\ LentOnce
    BY Zenon DEF PoolInv, PoolTypeOK, LinksFit, PicksFit, LendsFit
  <2>2. QED
    BY <2>1, TurnsAreFair DEF PoolsSound, PoolInv
<1>2. QED
  BY <1>1, PoolsBegin, PoolInductive, PTL DEF PoolSpec

-----------------------------------------------------------------------------
(* Handlers                                                                *)

(* The recursion that goes through a list has a solution, and what it      *)
(* leaves is the list without the handler.                                 *)
LEMMA LeftKeeps ==
  ASSUME NEW S, NEW s \in Seq(S), NEW h
  PROVE  /\ Left(s, h) \in Seq(S)
         /\ \A i \in 1 .. Len(s) : s[i] # h => \E j \in DOMAIN Left(s, h) : Left(s, h)[j] = s[i]
<1> DEFINE n == Len(s)
<1> DEFINE step == [p \in (1 .. n) \X Seq(S) |->
                      IF s[p[1]] = h THEN p[2] ELSE Append(p[2], s[p[1]])]
<1> DEFINE left[k \in 0 .. Len(s)] ==
      IF k = 0 THEN <<>>
      ELSE IF s[k] = h THEN left[k - 1] ELSE Append(left[k - 1], s[k])
<1>1. n \in Nat /\ \A i \in 1 .. n : s[i] \in S
  BY LenProperties, ElementOfSeq
<1>2. step \in [(1 .. n) \X Seq(S) -> Seq(S)]
  <2> SUFFICES ASSUME NEW k \in 1 .. n, NEW r \in Seq(S)
               PROVE  (IF s[k] = h THEN r ELSE Append(r, s[k])) \in Seq(S)
    OBVIOUS
  <2>1. QED
    BY <1>1, AppendProperties
<1>3. <<>> \in Seq(S)
  OBVIOUS
<1>4. \A k \in 1 .. n, r \in Seq(S) :
        step[<<k, r>>] = IF s[k] = h THEN r ELSE Append(r, s[k])
  OBVIOUS
<1> HIDE DEF n, step
<1>5. PICK g \in [0 .. n -> Seq(S)] : Solves(g, n, <<>>, step)
  BY <1>1, <1>2, <1>3, RecursionSolved
<1>6. g[0] = <<>> /\ \A k \in 1 .. n : g[k] = IF s[k] = h THEN g[k - 1] ELSE Append(g[k - 1], s[k])
  <2>1. \A k \in 1 .. n : k - 1 \in 0 .. n
    BY <1>1
  <2>2. QED
    BY <1>4, <1>5, <2>1 DEF Solves
<1>7. g = [k \in 0 .. Len(s) |->
             IF k = 0 THEN <<>> ELSE IF s[k] = h THEN g[k - 1] ELSE Append(g[k - 1], s[k])]
  <2>1. \A k \in 0 .. Len(s) : k = 0 \/ k \in 1 .. n
    BY <1>1 DEF n
  <2>2. \A k \in 0 .. Len(s) :
          g[k] = IF k = 0 THEN <<>> ELSE IF s[k] = h THEN g[k - 1] ELSE Append(g[k - 1], s[k])
    BY <1>6, <2>1
  <2>3. QED
    BY <1>5, <2>2 DEF n
<1>8. left = [k \in 0 .. Len(s) |->
                IF k = 0 THEN <<>>
                ELSE IF s[k] = h THEN left[k - 1] ELSE Append(left[k - 1], s[k])]
  BY <1>7, Zenon
<1>9. Left(s, h) = left[n]
  BY DEF Left, n
<1> HIDE DEF left
<1>10. /\ left[0] = <<>>
       /\ \A k \in 1 .. n : left[k] = IF s[k] = h THEN left[k - 1] ELSE Append(left[k - 1], s[k])
  <2>1. 0 \in 0 .. Len(s) /\ \A k \in 1 .. n : k \in 0 .. Len(s) /\ k # 0
    BY <1>1 DEF n
  <2>2. \A k \in 0 .. Len(s) :
          left[k] = IF k = 0 THEN <<>>
                    ELSE IF s[k] = h THEN left[k - 1] ELSE Append(left[k - 1], s[k])
    BY <1>8
  <2>3. QED
    BY <2>1, <2>2
<1> DEFINE keeps(k) == /\ left[k] \in Seq(S)
                       /\ \A i \in 1 .. k : s[i] # h => \E j \in 1 .. Len(left[k]) : left[k][j] = s[i]
<1> DEFINE kept == {k \in Nat : k <= n => keeps(k)}
<1>11. 0 \in kept
  <2>1. <<>> \in Seq(S) /\ \A i \in 1 .. 0 : FALSE
    OBVIOUS
  <2>2. keeps(0)
    BY <1>10, <2>1
  <2>3. QED
    BY <2>2
<1>12. ASSUME NEW k \in Nat, k \in kept PROVE k + 1 \in kept
  <2>0. k + 1 \in Nat
    OBVIOUS
  <2> SUFFICES ASSUME k + 1 <= n PROVE keeps(k + 1)
    BY <2>0, Zenon
  <2>1. k + 1 \in 1 .. n /\ keeps(k) /\ k + 1 - 1 = k /\ s[k + 1] \in S
    <3>1. k <= n /\ k + 1 \in 1 .. n /\ k + 1 - 1 = k
      BY <1>1, <1>12
    <3>2. keeps(k)
      BY <1>12, <3>1
    <3>3. s[k + 1] \in S
      BY <1>1, <3>1
    <3>4. QED
      BY <3>1, <3>2, <3>3
  <2>2. left[k + 1] = IF s[k + 1] = h THEN left[k] ELSE Append(left[k], s[k + 1])
    BY <1>10, <2>1
  <2>3. CASE s[k + 1] = h
    BY <2>1, <2>2, <2>3
  <2>4. CASE s[k + 1] # h
    <3>1. /\ left[k + 1] \in Seq(S) /\ Len(left[k + 1]) = Len(left[k]) + 1 /\ Len(left[k]) \in Nat
          /\ \A i \in 1 .. Len(left[k]) : left[k + 1][i] = left[k][i]
          /\ left[k + 1][Len(left[k]) + 1] = s[k + 1]
      BY <2>1, <2>2, <2>4, AppendProperties, LenProperties
    <3>2. ASSUME NEW i \in 1 .. k + 1, s[i] # h
          PROVE  \E j \in 1 .. Len(left[k + 1]) : left[k + 1][j] = s[i]
      <4>1. CASE i = k + 1
        BY <3>1, <4>1
      <4>2. CASE i # k + 1
        <5>1. PICK j \in 1 .. Len(left[k]) : left[k][j] = s[i]
          BY <2>1, <3>2, <4>2
        <5>2. j \in 1 .. Len(left[k + 1]) /\ left[k + 1][j] = s[i]
          BY <3>1, <5>1
        <5>3. QED
          BY <5>2
      <4>3. QED
        BY <4>1, <4>2
    <3>3. QED
      BY <3>1, <3>2
  <2>5. QED
    BY <2>3, <2>4
<1> HIDE DEF kept
<1>13. n \in kept
  BY <1>1, <1>11, <1>12, InductiveSet
<1>14. keeps(n)
  BY <1>1, <1>13 DEF kept
<1> HIDE DEF keeps
<1>15. left[n] \in Seq(S) /\ \A i \in 1 .. Len(s) :
         s[i] # h => \E j \in 1 .. Len(left[n]) : left[n][j] = s[i]
  BY <1>14 DEF keeps, n
<1>16. DOMAIN left[n] = 1 .. Len(left[n])
  BY <1>15, LenProperties
<1>17. QED
  BY <1>9, <1>15, <1>16, Zenon

-----------------------------------------------------------------------------
(* The assumptions on the constants, one by one.                           *)
LEMMA HandlerBounds == MaxChanges \in Nat /\ Nothing \notin Handler
BY HandlersAssumption

(* Where a wanted handler is: in the registry; once the start has begun,   *)
(* in its copy, or in a list beyond the place it has reached; or served.   *)
AsMethod(m, h) ==
  /\ phase = "new" => named[m] = h
  /\ phase = "names" => copyNamed[m] = h \/ <<m, h>> \in served
  /\ phase \in {"events", "started"} => <<m, h>> \in served
AsPattern(p, h) ==
  /\ phase \in {"new", "names"} => \E k \in 1 .. Len(lists[p]) : lists[p][k] = h
  /\ phase = "events" =>
       \/ <<p, h>> \in served
       \/ \E k \in 1 .. Len(ListOf(p)) : k > position[p] /\ ListOf(p)[k] = h
  /\ phase = "started" => <<p, h>> \in served
Kept(x, h) == (x \in MethodName /\ AsMethod(x, h)) \/ (x \in Pattern /\ AsPattern(x, h))

HandlersInv ==
  /\ HandlersTypeOK
  /\ phase \in {"new", "names"} => \A p \in Pattern : position[p] = 0
  /\ \A x \in MethodName \cup Pattern, h \in Handler : <<x, h>> \in wanted => Kept(x, h)

(* The invariant holds at first.                                           *)
LEMMA HandlersBegin == HandlersInit => HandlersInv
<1> SUFFICES ASSUME HandlersInit PROVE HandlersInv
  OBVIOUS
<1>1. HandlersTypeOK
  <2>1. /\ named \in [MethodName -> Handler \cup {Nothing}] /\ copyNamed = named
        /\ lists \in [Pattern -> Seq(Handler)] /\ position \in [Pattern -> Nat]
    BY DEF HandlersInit
  <2>2. detached = <<>> /\ DOMAIN detached = {} /\ changes \in 0 .. MaxChanges
    BY HandlerBounds DEF HandlersInit
  <2>3. QED
    BY <2>1, <2>2 DEF HandlersInit, HandlersTypeOK
<1>2. QED
  BY <1>1 DEF HandlersInit, HandlersInv

(* The lists of handlers are lists.                                        *)
LEMMA ListOfIs ==
  ASSUME HandlersTypeOK, NEW p \in Pattern
  PROVE  /\ ListOf(p) \in Seq(Handler) /\ Len(ListOf(p)) \in Nat
         /\ lists[p] \in Seq(Handler) /\ Len(lists[p]) \in Nat
<1>1. lists[p] \in Seq(Handler) /\ (p \in DOMAIN detached => detached[p] \in Seq(Handler))
  BY DEF HandlersTypeOK
<1>2. ListOf(p) \in Seq(Handler)
  BY <1>1 DEF ListOf
<1>3. QED
  BY <1>1, <1>2, LenProperties

(* The bound on changes is kept.                                           *)
LEMMA ChangeFits ==
  ASSUME HandlersTypeOK, Changed
  PROVE  changes' \in 0 .. MaxChanges
BY HandlerBounds DEF HandlersTypeOK, Changed

(* What the start does not see of a change leaves the others where they    *)
(* are.                                                                    *)
LEMMA NamedChangeKeeps ==
  ASSUME HandlersInv, NEW m \in MethodName, NEW h \in Handler \cup {Nothing}, Changed,
         named' = [named EXCEPT ![m] = h], StartOnly, UNCHANGED <<lists, detached>>,
         wanted' \subseteq (MethodName \cup Pattern) \X Handler,
         \A x \in MethodName \cup Pattern, g \in Handler :
           <<x, g>> \in wanted' =>
             (<<x, g>> \in wanted /\ x # m) \/ (phase = "new" /\ x = m /\ g = h)
  PROVE  HandlersInv'
<1>1. /\ phase' = phase /\ copyNamed' = copyNamed /\ position' = position /\ served' = served
      /\ lists' = lists /\ detached' = detached
  BY DEF StartOnly
<1>2. named \in [MethodName -> Handler \cup {Nothing}]
  BY DEF HandlersInv, HandlersTypeOK
<1>3. /\ named' \in [MethodName -> Handler \cup {Nothing}] /\ named'[m] = h
      /\ \A n \in MethodName : n # m => named'[n] = named[n]
  BY <1>2
<1>4. HandlersTypeOK'
  BY <1>1, <1>3, ChangeFits DEF HandlersInv, HandlersTypeOK
<1>5. \A p : ListOf(p)' = ListOf(p)
  BY <1>1 DEF ListOf
<1>6. ASSUME NEW x \in MethodName \cup Pattern, NEW g \in Handler, <<x, g>> \in wanted'
      PROVE  Kept(x, g)'
  <2>1. CASE <<x, g>> \in wanted /\ x # m
    <3>1. Kept(x, g)
      BY <2>1 DEF HandlersInv
    <3>2. x \in MethodName => named'[x] = named[x]
      BY <1>3, <2>1
    <3>3. QED
      BY <1>1, <1>5, <3>1, <3>2 DEF Kept, AsMethod, AsPattern
  <2>2. CASE phase = "new" /\ x = m /\ g = h
    BY <1>1, <1>3, <2>2 DEF Kept, AsMethod
  <2>3. QED
    BY <1>6, <2>1, <2>2
<1>7. QED
  BY <1>1, <1>4, <1>6 DEF HandlersInv

(* A method is registered.                                                 *)
LEMMA RegisterNamedStays ==
  ASSUME HandlersInv, NEW m \in MethodName, NEW h \in Handler, RegisterNamed(m, h)
  PROVE  HandlersInv'
<1>1. wanted' = {w \in wanted : w[1] # m} \cup (IF phase = "new" THEN {<<m, h>>} ELSE {})
  BY DEF RegisterNamed, Wanted, Without
<1>2. wanted' \subseteq (MethodName \cup Pattern) \X Handler
  BY <1>1 DEF HandlersInv, HandlersTypeOK
<1>3. \A x \in MethodName \cup Pattern, g \in Handler :
        <<x, g>> \in wanted' => (<<x, g>> \in wanted /\ x # m) \/ (phase = "new" /\ x = m /\ g = h)
  BY <1>1
<1>4. /\ Changed /\ named' = [named EXCEPT ![m] = h] /\ StartOnly
      /\ UNCHANGED <<lists, detached>> /\ h \in Handler \cup {Nothing}
  BY DEF RegisterNamed
<1>5. QED
  BY <1>2, <1>3, <1>4, NamedChangeKeeps, Zenon

(* A method is removed.                                                    *)
LEMMA UnregisterNamedStays ==
  ASSUME HandlersInv, NEW m \in MethodName, UnregisterNamed(m)
  PROVE  HandlersInv'
<1>1. wanted' = {w \in wanted : w[1] # m}
  BY DEF UnregisterNamed, Without
<1>2. wanted' \subseteq (MethodName \cup Pattern) \X Handler
  BY <1>1 DEF HandlersInv, HandlersTypeOK
<1>3. \A x \in MethodName \cup Pattern, g \in Handler :
        <<x, g>> \in wanted' => (<<x, g>> \in wanted /\ x # m)
  BY <1>1
<1>4. QED
  BY <1>2, <1>3, NamedChangeKeeps DEF UnregisterNamed

(* An event handler is registered.                                         *)
LEMMA RegisterEventStays ==
  ASSUME HandlersInv, NEW p \in Pattern, NEW h \in Handler, RegisterEvent(p, h)
  PROVE  HandlersInv'
<1>1. /\ phase' = phase /\ copyNamed' = copyNamed /\ position' = position /\ served' = served
      /\ named' = named /\ detached' = detached
      /\ lists' = [lists EXCEPT ![p] = Append(@, h)]
      /\ wanted' = wanted \cup (IF phase = "new" THEN {<<p, h>>} ELSE {})
  BY DEF RegisterEvent, StartOnly, Wanted
<1>2. lists \in [Pattern -> Seq(Handler)] /\ position \in [Pattern -> Nat]
  BY DEF HandlersInv, HandlersTypeOK
<1>3. /\ Append(lists[p], h) \in Seq(Handler)
      /\ Len(Append(lists[p], h)) = Len(lists[p]) + 1 /\ Len(lists[p]) \in Nat
      /\ \A k \in 1 .. Len(lists[p]) : Append(lists[p], h)[k] = lists[p][k]
      /\ Append(lists[p], h)[Len(lists[p]) + 1] = h
  BY <1>2, AppendProperties, LenProperties
<1>4. /\ lists' \in [Pattern -> Seq(Handler)] /\ lists'[p] = Append(lists[p], h)
      /\ \A q \in Pattern : q # p => lists'[q] = lists[q]
  BY <1>1, <1>2, <1>3
<1>5. HandlersTypeOK'
  <2>1. wanted' \subseteq (MethodName \cup Pattern) \X Handler
    BY <1>1 DEF HandlersInv, HandlersTypeOK
  <2>2. changes' \in 0 .. MaxChanges
    BY ChangeFits DEF RegisterEvent, HandlersInv
  <2>3. QED
    BY <1>1, <1>4, <2>1, <2>2 DEF HandlersInv, HandlersTypeOK
<1>6. \A q \in Pattern : \A k \in 1 .. Len(lists[q]) :
        k \in 1 .. Len(lists'[q]) /\ lists'[q][k] = lists[q][k]
  BY <1>3, <1>4
<1>7. \A q \in Pattern : \A k \in 1 .. Len(ListOf(q)) :
        k \in 1 .. Len(ListOf(q)') /\ ListOf(q)'[k] = ListOf(q)[k]
  BY <1>1, <1>6 DEF ListOf
<1>8. ASSUME NEW x \in MethodName \cup Pattern, NEW g \in Handler, <<x, g>> \in wanted'
      PROVE  Kept(x, g)'
  <2>1. CASE <<x, g>> \in wanted
    <3>1. CASE x \in MethodName /\ AsMethod(x, g)
      BY <1>1, <3>1 DEF Kept, AsMethod
    <3>2. CASE x \in Pattern /\ AsPattern(x, g)
      <4>1. (\E k \in 1 .. Len(lists[x]) : lists[x][k] = g)
               => \E k \in 1 .. Len(lists'[x]) : lists'[x][k] = g
        BY <1>6, <3>2
      <4>2. (\E k \in 1 .. Len(ListOf(x)) : k > position[x] /\ ListOf(x)[k] = g)
               => \E k \in 1 .. Len(ListOf(x)') : k > position[x] /\ ListOf(x)'[k] = g
        BY <1>7, <3>2
      <4>3. QED
        BY <1>1, <3>2, <4>1, <4>2, Zenon DEF Kept, AsPattern
    <3>3. QED
      BY <2>1, <3>1, <3>2 DEF HandlersInv, Kept
  <2>2. CASE phase = "new" /\ x = p /\ g = h
    <3>1. Len(lists[p]) + 1 \in 1 .. Len(lists'[p]) /\ lists'[p][Len(lists[p]) + 1] = h
      BY <1>3, <1>4
    <3>2. QED
      BY <1>1, <2>2, <3>1 DEF Kept, AsPattern
  <2>3. QED
    BY <1>1, <1>8, <2>1, <2>2
<1>9. QED
  BY <1>1, <1>5, <1>8 DEF HandlersInv

(* A handler that is removed leaves the others in the list, and the start  *)
(* with the list it works through.                                         *)
LEMMA UnregisterEventStays ==
  ASSUME HandlersInv, NEW p \in Pattern, NEW h \in Handler \cup {Nothing}, UnregisterEvent(p, h)
  PROVE  HandlersInv'
<1>1. /\ phase' = phase /\ copyNamed' = copyNamed /\ position' = position /\ served' = served
      /\ named' = named /\ Changed
      /\ lists' = [lists EXCEPT ![p] = IF h = Nothing THEN <<>> ELSE Left(@, h)]
      /\ detached' = IF phase \in {"names", "new"} \/ p \in DOMAIN detached THEN detached
                     ELSE [q \in DOMAIN detached \cup {p} |->
                             IF q = p THEN lists[p] ELSE detached[q]]
      /\ wanted' = {w \in wanted : w[1] # p \/ (h # Nothing /\ w[2] # h)}
  BY DEF UnregisterEvent, StartOnly, Without
<1>2. /\ lists \in [Pattern -> Seq(Handler)] /\ lists[p] \in Seq(Handler)
      /\ DOMAIN detached \subseteq Pattern /\ \A q \in DOMAIN detached : detached[q] \in Seq(Handler)
      /\ wanted \subseteq (MethodName \cup Pattern) \X Handler
  BY DEF HandlersInv, HandlersTypeOK
<1>3. /\ Left(lists[p], h) \in Seq(Handler) /\ <<>> \in Seq(Handler)
      /\ \A i \in 1 .. Len(lists[p]) : lists[p][i] # h =>
           \E j \in 1 .. Len(Left(lists[p], h)) : Left(lists[p], h)[j] = lists[p][i]
  <2>1. /\ Left(lists[p], h) \in Seq(Handler)
        /\ \A i \in 1 .. Len(lists[p]) : lists[p][i] # h =>
             \E j \in DOMAIN Left(lists[p], h) : Left(lists[p], h)[j] = lists[p][i]
    <3>1. lists[p] \in Seq(Handler)
      BY <1>2
    <3>2. Left(lists[p], h) \in Seq(Handler)
      BY <3>1, LeftKeeps
    <3>3. \A i \in 1 .. Len(lists[p]) : lists[p][i] # h =>
             \E j \in DOMAIN Left(lists[p], h) : Left(lists[p], h)[j] = lists[p][i]
      <4>1. \A s \in Seq(Handler) :
              \A i \in 1 .. Len(s) : s[i] # h => \E j \in DOMAIN Left(s, h) : Left(s, h)[j] = s[i]
        <5> SUFFICES ASSUME NEW s \in Seq(Handler)
                     PROVE  \A i \in 1 .. Len(s) :
                              s[i] # h => \E j \in DOMAIN Left(s, h) : Left(s, h)[j] = s[i]
          OBVIOUS
        <5>1. QED
          BY LeftKeeps
      <4>2. QED
        BY <3>1, <4>1
    <3>4. QED
      BY <3>2, <3>3
  <2>2. DOMAIN Left(lists[p], h) = 1 .. Len(Left(lists[p], h))
    BY <2>1, LenProperties
  <2>3. QED
    BY <2>1, <2>2
<1>4. /\ lists' \in [Pattern -> Seq(Handler)]
      /\ lists'[p] = IF h = Nothing THEN <<>> ELSE Left(lists[p], h)
      /\ \A q \in Pattern : q # p => lists'[q] = lists[q]
  BY <1>1, <1>2, <1>3
<1>5. /\ DOMAIN detached' \subseteq Pattern
      /\ \A q \in DOMAIN detached' : detached'[q] \in Seq(Handler)
  BY <1>1, <1>2
<1>6. HandlersTypeOK'
  <2>1. changes' \in 0 .. MaxChanges
    BY <1>1, ChangeFits DEF HandlersInv
  <2>2. wanted' \subseteq (MethodName \cup Pattern) \X Handler
    BY <1>1, <1>2
  <2>3. QED
    BY <1>1, <1>4, <1>5, <2>1, <2>2 DEF HandlersInv, HandlersTypeOK
<1>7. phase \notin {"names", "new"} => \A q \in Pattern : ListOf(q)' = ListOf(q)
  BY <1>1, <1>4 DEF ListOf
<1>8. ASSUME NEW x \in MethodName \cup Pattern, NEW g \in Handler, <<x, g>> \in wanted'
      PROVE  Kept(x, g)'
  <2>1. <<x, g>> \in wanted /\ (x = p => h # Nothing /\ g # h) /\ Kept(x, g)
    BY <1>1, <1>8 DEF HandlersInv
  <2>2. CASE x \in MethodName /\ AsMethod(x, g)
    BY <1>1, <2>2 DEF Kept, AsMethod
  <2>3. CASE x \in Pattern /\ AsPattern(x, g) /\ phase \notin {"names", "new"}
    BY <1>1, <1>7, <2>3 DEF Kept, AsPattern
  <2>4. CASE x \in Pattern /\ AsPattern(x, g) /\ phase \in {"names", "new"}
    <3>1. PICK i \in 1 .. Len(lists[x]) : lists[x][i] = g
      BY <2>4 DEF AsPattern
    <3>2. \E j \in 1 .. Len(lists'[x]) : lists'[x][j] = g
      <4>1. CASE x # p
        BY <1>4, <2>4, <3>1, <4>1
      <4>2. CASE x = p
        <5>1. lists'[p] = Left(lists[p], h)
          BY <1>4, <2>1, <4>2
        <5>2. lists[p][i] # h /\ i \in 1 .. Len(lists[p])
          BY <2>1, <3>1, <4>2
        <5>3. QED
          BY <1>3, <3>1, <4>2, <5>1, <5>2
      <4>3. QED
        BY <4>1, <4>2
    <3>3. QED
      BY <1>1, <2>4, <3>2 DEF Kept, AsPattern
  <2>5. QED
    BY <2>1, <2>2, <2>3, <2>4 DEF Kept
<1>9. QED
  BY <1>1, <1>6, <1>8 DEF HandlersInv

-----------------------------------------------------------------------------
(* The start: what leaves the copy or is passed in a list is served.       *)
LEMMA BeginStartStays ==
  ASSUME HandlersInv, BeginStart
  PROVE  HandlersInv'
<1>1. /\ phase = "new" /\ phase' = "names" /\ copyNamed' = named /\ named' = named /\ lists' = lists
      /\ wanted' = wanted /\ changes' = changes /\ detached' = detached /\ position' = position
      /\ served' = served
  BY DEF BeginStart, RegistryOnly
<1>2. HandlersTypeOK'
  BY <1>1 DEF HandlersInv, HandlersTypeOK
<1>3. ASSUME NEW x \in MethodName \cup Pattern, NEW g \in Handler, <<x, g>> \in wanted'
      PROVE  Kept(x, g)'
  <2>1. Kept(x, g)
    BY <1>1, <1>3 DEF HandlersInv
  <2>2. QED
    BY <1>1, <2>1 DEF Kept, AsMethod, AsPattern
<1>4. QED
  BY <1>1, <1>2, <1>3 DEF HandlersInv

(* A method comes on the bus.                                              *)
LEMMA ServeNamedStays ==
  ASSUME HandlersInv, NEW m \in MethodName, ServeNamed(m)
  PROVE  HandlersInv'
<1>1. /\ phase = "names" /\ phase' = phase /\ named' = named /\ lists' = lists
      /\ wanted' = wanted /\ changes' = changes /\ detached' = detached /\ position' = position
      /\ copyNamed[m] # Nothing /\ served' = served \cup {<<m, copyNamed[m]>>}
      /\ copyNamed' = [copyNamed EXCEPT ![m] = Nothing]
  BY DEF ServeNamed, RegistryOnly
<1>2. copyNamed \in [MethodName -> Handler \cup {Nothing}] /\ copyNamed[m] \in Handler
  BY <1>1 DEF HandlersInv, HandlersTypeOK
<1>3. HandlersTypeOK'
  BY <1>1, <1>2 DEF HandlersInv, HandlersTypeOK
<1>4. \A n \in MethodName, g \in Handler :
        copyNamed[n] = g => copyNamed'[n] = g \/ <<n, g>> \in served'
  BY <1>1, <1>2
<1>5. ASSUME NEW x \in MethodName \cup Pattern, NEW g \in Handler, <<x, g>> \in wanted'
      PROVE  Kept(x, g)'
  <2>1. Kept(x, g)
    BY <1>1, <1>5 DEF HandlersInv
  <2>2. QED
    BY <1>1, <1>4, <2>1 DEF Kept, AsMethod, AsPattern
<1>6. QED
  BY <1>1, <1>3, <1>5 DEF HandlersInv

(* The start turns to the event handlers.                                  *)
LEMMA BeginEventsStays ==
  ASSUME HandlersInv, BeginEvents
  PROVE  HandlersInv'
<1>1. /\ phase = "names" /\ phase' = "events" /\ named' = named /\ lists' = lists
      /\ wanted' = wanted /\ changes' = changes /\ position' = position /\ served' = served
      /\ copyNamed' = copyNamed /\ \A m \in MethodName : copyNamed[m] = Nothing
      /\ detached' = [p \in {q \in Pattern : lists[q] = <<>>} |-> <<>>]
  BY DEF BeginEvents, RegistryOnly
<1>2. /\ DOMAIN detached' = {q \in Pattern : lists[q] = <<>>}
      /\ \A p \in DOMAIN detached' : detached'[p] = <<>> /\ <<>> \in Seq(Handler)
  BY <1>1
<1>3. HandlersTypeOK'
  BY <1>1, <1>2 DEF HandlersInv, HandlersTypeOK
<1>4. \A p \in Pattern : ListOf(p)' = lists[p]
  BY <1>1, <1>2 DEF ListOf
<1>5. \A p \in Pattern : position[p] = 0
  BY <1>1 DEF HandlersInv
<1>6. ASSUME NEW x \in MethodName \cup Pattern, NEW g \in Handler, <<x, g>> \in wanted'
      PROVE  Kept(x, g)'
  <2>1. Kept(x, g)
    BY <1>1, <1>6 DEF HandlersInv
  <2>2. CASE x \in MethodName /\ AsMethod(x, g)
    <3>1. copyNamed[x] # g
      BY <1>1, <2>2, HandlerBounds
    <3>2. QED
      BY <1>1, <2>2, <3>1 DEF Kept, AsMethod
  <2>3. CASE x \in Pattern /\ AsPattern(x, g)
    <3>1. PICK k \in 1 .. Len(lists[x]) : lists[x][k] = g
      BY <1>1, <2>3 DEF AsPattern
    <3>2. Len(lists[x]) \in Nat /\ k > position[x]
      BY <1>5, <2>3, ListOfIs DEF HandlersInv
    <3>3. k \in 1 .. Len(ListOf(x)') /\ k > position'[x] /\ ListOf(x)'[k] = g
      BY <1>1, <1>4, <2>3, <3>1, <3>2
    <3>4. QED
      BY <1>1, <2>3, <3>3 DEF Kept, AsPattern
  <2>4. QED
    BY <2>1, <2>2, <2>3 DEF Kept
<1>7. QED
  BY <1>1, <1>3, <1>6 DEF HandlersInv

(* An event handler comes on the bus, and the start to the next.           *)
LEMMA ServeEventStays ==
  ASSUME HandlersInv, NEW p \in Pattern, ServeEvent(p)
  PROVE  HandlersInv'
<1>1. /\ phase = "events" /\ phase' = phase /\ named' = named /\ lists' = lists
      /\ wanted' = wanted /\ changes' = changes /\ detached' = detached /\ copyNamed' = copyNamed
      /\ position[p] < Len(ListOf(p)) /\ position' = [position EXCEPT ![p] = @ + 1]
      /\ served' = served \cup {<<p, ListOf(p)[position[p] + 1]>>}
  BY DEF ServeEvent, RegistryOnly
<1>2. /\ position \in [Pattern -> Nat] /\ Len(ListOf(p)) \in Nat /\ ListOf(p) \in Seq(Handler)
  BY ListOfIs DEF HandlersInv, HandlersTypeOK
<1>3. ListOf(p)[position[p] + 1] \in Handler
  <2>1. position[p] + 1 \in 1 .. Len(ListOf(p))
    BY <1>1, <1>2
  <2>2. QED
    BY <1>2, <2>1, ElementOfSeq
<1>4. position' \in [Pattern -> Nat] /\ position'[p] = position[p] + 1
      /\ \A q \in Pattern : q # p => position'[q] = position[q]
  BY <1>1, <1>2
<1>5. HandlersTypeOK'
  <2>1. served' \subseteq (MethodName \cup Pattern) \X Handler
    BY <1>1, <1>3 DEF HandlersInv, HandlersTypeOK
  <2>2. QED
    BY <1>1, <1>4, <2>1 DEF HandlersInv, HandlersTypeOK
<1>6. \A q : ListOf(q)' = ListOf(q)
  BY <1>1 DEF ListOf
<1>7. ASSUME NEW x \in MethodName \cup Pattern, NEW g \in Handler, <<x, g>> \in wanted'
      PROVE  Kept(x, g)'
  <2>1. Kept(x, g)
    BY <1>1, <1>7 DEF HandlersInv
  <2>2. CASE x \in MethodName /\ AsMethod(x, g)
    BY <1>1, <2>2 DEF Kept, AsMethod
  <2>3. CASE x \in Pattern /\ <<x, g>> \in served
    BY <1>1, <2>3 DEF Kept, AsPattern
  <2>4. ASSUME x \in Pattern, NEW k \in 1 .. Len(ListOf(x)), k > position[x], ListOf(x)[k] = g
        PROVE  <<x, g>> \in served' \/ (k > position'[x] /\ ListOf(x)'[k] = g)
    <3>1. CASE x = p /\ k = position[p] + 1
      BY <1>1, <2>4, <3>1
    <3>2. CASE x # p
      BY <1>4, <1>6, <2>4, <3>2
    <3>3. CASE x = p /\ k # position[p] + 1
      <4>1. k > position[p] + 1
        BY <1>2, <2>4, <3>3
      <4>2. QED
        BY <1>4, <1>6, <2>4, <3>3, <4>1
    <3>4. QED
      BY <3>1, <3>2, <3>3
  <2>5. CASE x \in Pattern /\ \E k \in 1 .. Len(ListOf(x)) : k > position[x] /\ ListOf(x)[k] = g
    <3>1. <<x, g>> \in served' \/ \E k \in 1 .. Len(ListOf(x)) : k > position'[x] /\ ListOf(x)'[k] = g
      BY <2>4, <2>5
    <3>2. QED
      BY <1>1, <1>6, <2>5, <3>1 DEF Kept, AsPattern
  <2>6. QED
    BY <1>1, <2>1, <2>2, <2>3, <2>5 DEF Kept, AsPattern
<1>8. QED
  BY <1>1, <1>5, <1>7 DEF HandlersInv

(* The start ends.                                                         *)
LEMMA StartedStays ==
  ASSUME HandlersInv, Started
  PROVE  HandlersInv'
<1>1. /\ phase = "events" /\ phase' = "started" /\ named' = named /\ lists' = lists
      /\ wanted' = wanted /\ changes' = changes /\ detached' = detached /\ copyNamed' = copyNamed
      /\ position' = position /\ served' = served
      /\ \A p \in Pattern : position[p] >= Len(ListOf(p))
  BY DEF Started, RegistryOnly
<1>2. HandlersTypeOK'
  BY <1>1 DEF HandlersInv, HandlersTypeOK
<1>3. \A p \in Pattern : \A k \in 1 .. Len(ListOf(p)) : ~(k > position[p])
  <2>1. \A p \in Pattern : position[p] \in Nat /\ Len(ListOf(p)) \in Nat
    BY ListOfIs DEF HandlersInv, HandlersTypeOK
  <2>2. QED
    BY <1>1, <2>1
<1>4. ASSUME NEW x \in MethodName \cup Pattern, NEW g \in Handler, <<x, g>> \in wanted'
      PROVE  Kept(x, g)'
  <2>1. Kept(x, g)
    BY <1>1, <1>4 DEF HandlersInv
  <2>2. QED
    BY <1>1, <1>3, <2>1 DEF Kept, AsMethod, AsPattern
<1>5. QED
  BY <1>1, <1>2, <1>4 DEF HandlersInv

(* Every step keeps the invariant.                                         *)
LEMMA HandlersInductive ==
  ASSUME HandlersInv, [HandlersNext]_handlerVars
  PROVE  HandlersInv'
<1>1. CASE UNCHANGED handlerVars
  <2>1. \A p : ListOf(p)' = ListOf(p)
    BY <1>1 DEF ListOf, handlerVars
  <2>2. HandlersTypeOK'
    BY <1>1 DEF HandlersInv, HandlersTypeOK, handlerVars
  <2>3. phase' \in {"new", "names"} => \A p \in Pattern : position'[p] = 0
    BY <1>1 DEF HandlersInv, handlerVars
  <2>4. ASSUME NEW x \in MethodName \cup Pattern, NEW h \in Handler, <<x, h>> \in wanted'
        PROVE  Kept(x, h)'
    <3>1. Kept(x, h)
      BY <1>1, <2>4 DEF HandlersInv, handlerVars
    <3>2. AsMethod(x, h)' = AsMethod(x, h)
      BY <1>1 DEF AsMethod, handlerVars
    <3>3. AsPattern(x, h)' = AsPattern(x, h)
      BY <1>1, <2>1 DEF AsPattern, handlerVars
    <3>4. QED
      BY <1>1, <3>1, <3>2, <3>3 DEF Kept, handlerVars
  <2>5. QED
    BY <2>2, <2>3, <2>4 DEF HandlersInv
<1>2. CASE HandlersNext
  BY <1>2, BeginStartStays, BeginEventsStays, StartedStays, UnregisterNamedStays, ServeNamedStays,
     RegisterNamedStays, ServeEventStays, RegisterEventStays, UnregisterEventStays
     DEF HandlersNext
<1>3. QED
  BY <1>1, <1>2

(* HandlersSound, for every set of handlers, methods and patterns: what    *)
(* was registered before the start and not removed is on the bus after it. *)
THEOREM HandlersGetServed == HandlersSpec => []HandlersSound
<1>1. HandlersInv => HandlersSound
  <2> SUFFICES ASSUME HandlersInv PROVE WantedIsServed
    BY DEF HandlersInv, HandlersSound
  <2> SUFFICES ASSUME phase = "started", NEW w \in wanted PROVE w \in served
    BY DEF WantedIsServed
  <2>1. PICK x \in MethodName \cup Pattern, h \in Handler : w = <<x, h>>
    BY DEF HandlersInv, HandlersTypeOK
  <2>2. Kept(x, h)
    BY <2>1 DEF HandlersInv
  <2>3. QED
    BY <2>1, <2>2 DEF Kept, AsMethod, AsPattern
<1>2. QED
  BY <1>1, HandlersBegin, HandlersInductive, PTL DEF HandlersSpec

-----------------------------------------------------------------------------
(* Aggregates                                                              *)

(* What an aggregate has recorded goes on from where it was.               *)
Tells(a) ==
  \E last \in Told(a) :
    /\ \A e \in Told(a) : e <= last
    /\ event[last].after = status[a]
    /\ \A d, e \in Told(a) :
         (d < e /\ \A b \in Told(a) : ~(d < b /\ b < e)) =>
           event[d].after = event[e].before /\ event[d].after # "SHUTDOWN"

(* Events belong to aggregates there are; an aggregate that is not there   *)
(* yet has none.                                                           *)
LivesFit ==
  /\ \A a \in Life : a > lives => status[a] = "ACTIVE" /\ pending[a] = {}
  /\ \A a \in Life : \A e \in pending[a] : event[e].life = a
  /\ \A e \in 1 .. recorded : event[e].life \in 1 .. lives

(* An execution has copied events of its aggregate, and of those that came *)
(* before them all that are not yet out.                                   *)
BatchFits(x) ==
  /\ stage[x] # "idle" => works[x] \in 1 .. lives
  /\ stage[x] # "publish" => batch[x] = {}
  /\ \A e \in batch[x] : event[e].life = works[x]
  /\ \A e \in batch[x], d \in 1 .. recorded :
       d < e /\ event[d].life = works[x] => d \in batch[x] \cup published \cup swept

AggregateInv ==
  /\ AggregatesSound /\ LivesFit
  /\ \A x \in Execution : BatchFits(x)

(* The assumptions on the bounds, one by one.                              *)
LEMMA EventBounds == MaxEvents \in Nat /\ MaxLives \in Nat /\ MaxLives # 0
BY AggregateAssumption

(* The invariant holds at first.                                           *)
LEMMA EventsBegin == AggregateInit => AggregateInv
<1> SUFFICES ASSUME AggregateInit PROVE AggregateInv
  OBVIOUS
<1>1. recorded = 0 /\ lives = 0 /\ published = {} /\ swept = {} /\ 1 .. 0 = {}
  BY DEF AggregateInit
<1>2. AggregateTypeOK
  <2>1. /\ status \in [Life -> AggregateStatus] /\ pending \in [Life -> SUBSET (1 .. recorded)]
        /\ published \in SUBSET (1 .. recorded) /\ swept \in SUBSET (1 .. recorded)
    BY DEF AggregateInit, AggregateStatus
  <2>2. event \in [EventId -> [before : AggregateStatus, after : AggregateStatus,
                              life : 0 .. MaxLives]]
    BY EventBounds DEF AggregateInit, AggregateStatus, Blank
  <2>3. /\ stage \in [Execution -> {"idle", "bus", "publish"}]
        /\ works \in [Execution -> 0 .. MaxLives]
        /\ batch \in [Execution -> SUBSET (1 .. recorded)]
    BY EventBounds DEF AggregateInit
  <2>4. lives \in 0 .. MaxLives /\ recorded \in 0 .. MaxEvents /\ failures \in 0 .. MaxFailures
    BY AggregateAssumption DEF AggregateInit
  <2>5. QED
    BY <2>1, <2>2, <2>3, <2>4 DEF AggregateTypeOK
<1>3. EventsAccountedFor
  BY <1>1 DEF AggregateInit, EventsAccountedFor
<1>4. EventsTellStatus /\ FirstPublishedInOrder
  BY <1>1 DEF EventsTellStatus, FirstPublishedInOrder
<1>5. LivesFit /\ \A x \in Execution : BatchFits(x)
  BY <1>1 DEF AggregateInit, LivesFit, BatchFits
<1>6. QED
  BY <1>2, <1>3, <1>4, <1>5 DEF AggregateInv, AggregatesSound

-----------------------------------------------------------------------------
(* New events of aggregate a, the last of all: what they say by themselves.*)
LEMMA NewEvents ==
  ASSUME AggregateInv, NEW a \in 1 .. lives, NEW path \in Seq(AggregateStatus),
         Len(path) \in 1 .. 3, path[1] = status[a],
         \A i \in 1 .. Len(path) - 1 : path[i] # "SHUTDOWN",
         Record(a, path), lives' = lives
  PROVE  /\ recorded' \in recorded .. MaxEvents
         /\ status' \in [Life -> AggregateStatus]
         /\ event' \in [EventId -> [before : AggregateStatus, after : AggregateStatus,
                                    life : 0 .. MaxLives]]
         /\ \A e \in 1 .. recorded : event'[e] = event[e]
         /\ \A e \in recorded + 1 .. recorded' :
              /\ event'[e].life = a
              /\ event'[e].before # "SHUTDOWN"
              /\ event'[e].before = path[e - recorded]
              /\ event'[e].after = path[e - recorded + 1]
         /\ \A c \in Life : c # a => pending'[c] = pending[c] /\ status'[c] = status[c]
         /\ pending'[a] = pending[a] \cup (recorded + 1 .. recorded')
         /\ pending' \in [Life -> SUBSET (1 .. recorded')]
         /\ status'[a] = path[recorded' - recorded + 1]
         /\ recorded' - recorded \in 0 .. 2
<1> DEFINE n == Len(path) - 1
<1>1. AggregateTypeOK
  BY DEF AggregateInv, AggregatesSound
<1>2. n \in 0 .. 2 /\ recorded \in 0 .. MaxEvents /\ recorded' = recorded + n /\ recorded + n <= MaxEvents
  BY <1>1 DEF Record, AggregateTypeOK
<1>3. a \in Life
  BY <1>1, EventBounds DEF AggregateTypeOK, Life
<1>4. \A i \in 1 .. n + 1 : path[i] \in AggregateStatus
  BY <1>2
<1>5. /\ status' = [status EXCEPT ![a] = path[n + 1]]
      /\ status' \in [Life -> AggregateStatus]
  BY <1>1, <1>2, <1>3, <1>4 DEF Record, AggregateTypeOK
<1>6. event' = [e \in EventId |->
         IF e \in recorded + 1 .. recorded + n
         THEN [before |-> path[e - recorded], after |-> path[e - recorded + 1], life |-> a]
         ELSE event[e]]
  BY DEF Record
<1>7. \A e \in recorded + 1 .. recorded' : e \in EventId /\ e - recorded \in 1 .. n /\ e - recorded + 1 \in 1 .. n + 1
  BY <1>2, EventBounds DEF EventId
<1>8. event' \in [EventId -> [before : AggregateStatus, after : AggregateStatus, life : 0 .. MaxLives]]
  <2> SUFFICES ASSUME NEW e \in EventId
      PROVE  event'[e] \in [before : AggregateStatus, after : AggregateStatus, life : 0 .. MaxLives]
    BY <1>6
  <2>1. CASE e \in recorded + 1 .. recorded + n
    <3>1. path[e - recorded] \in AggregateStatus /\ path[e - recorded + 1] \in AggregateStatus
      BY <2>1, <1>2, <1>4, <1>7
    <3>2. a \in 0 .. MaxLives
      BY <1>3, EventBounds DEF Life
    <3>3. QED
      BY <2>1, <3>1, <3>2, <1>6
  <2>2. CASE e \notin recorded + 1 .. recorded + n
    BY <2>2, <1>6, <1>1 DEF AggregateTypeOK
  <2>3. QED
    BY <2>1, <2>2
<1>9. \A e \in 1 .. recorded : event'[e] = event[e]
  BY <1>2, <1>6, EventBounds DEF EventId
<1>10. \A e \in recorded + 1 .. recorded' :
         /\ event'[e].life = a
         /\ event'[e].before = path[e - recorded]
         /\ event'[e].after = path[e - recorded + 1]
  BY <1>2, <1>6, <1>7
<1>11. \A e \in recorded + 1 .. recorded' : event'[e].before # "SHUTDOWN"
  BY <1>7, <1>10
<1>12. pending' = [pending EXCEPT ![a] = pending[a] \cup (recorded + 1 .. recorded')]
  BY <1>2 DEF Record
<1>13. pending \in [Life -> SUBSET (1 .. recorded)]
  BY <1>1 DEF AggregateTypeOK
<1>14. pending' \in [Life -> SUBSET (1 .. recorded')]
  <2>1. 1 .. recorded \subseteq 1 .. recorded' /\ recorded + 1 .. recorded' \subseteq 1 .. recorded'
    BY <1>2
  <2>2. pending[a] \cup (recorded + 1 .. recorded') \in SUBSET (1 .. recorded')
    BY <1>3, <1>13, <2>1
  <2>3. pending \in [Life -> SUBSET (1 .. recorded')]
    BY <1>13, <2>1
  <2>4. QED
    BY <1>12, <2>2, <2>3
<1>15. \A c \in Life : c # a => pending'[c] = pending[c] /\ status'[c] = status[c]
  BY <1>1, <1>5, <1>12, <1>13 DEF AggregateTypeOK
<1>16. status'[a] = path[recorded' - recorded + 1]
  BY <1>1, <1>2, <1>3, <1>5 DEF AggregateTypeOK
<1>17. pending'[a] = pending[a] \cup (recorded + 1 .. recorded')
  BY <1>3, <1>12, <1>13
<1>18. recorded' \in recorded .. MaxEvents /\ recorded' - recorded \in 0 .. 2
  BY <1>2, EventBounds
<1>19. QED
  BY <1>5, <1>8, <1>9, <1>10, <1>11, <1>14, <1>15, <1>16, <1>17, <1>18

(* A history that is gone on with from where it was tells the status.      *)
LEMMA TellsOn ==
  ASSUME AggregateInv, NEW a \in 1 .. lives, NEW path \in Seq(AggregateStatus),
         Len(path) \in 1 .. 3, path[1] = status[a],
         \A i \in 1 .. Len(path) - 1 : path[i] # "SHUTDOWN",
         Record(a, path), lives' = lives
  PROVE  EventsTellStatus'
<1> DEFINE m == recorded' - recorded
<1> HIDE DEF m
<1>1. AggregateTypeOK /\ EventsTellStatus /\ LivesFit
  BY DEF AggregateInv, AggregatesSound
<1>2. /\ recorded \in Nat /\ m \in 0 .. 2 /\ recorded' = recorded + m
      /\ \A e \in 1 .. recorded : event'[e] = event[e]
      /\ \A e \in recorded + 1 .. recorded + m :
              /\ event'[e].life = a
              /\ event'[e].before # "SHUTDOWN"
              /\ event'[e].before = path[e - recorded]
              /\ event'[e].after = path[e - recorded + 1]
      /\ \A c \in Life : c # a => status'[c] = status[c]
      /\ status'[a] = path[m + 1]
  BY <1>1, NewEvents DEF AggregateTypeOK, m
<1>3. ASSUME NEW c \in 1 .. lives PROVE c \in Life
  BY <1>1, EventBounds DEF AggregateTypeOK, Life
<1>4. ASSUME NEW c \in 1 .. lives, c # a PROVE Tells(c)'
  <2>1. Told(c)' = Told(c)
    <3>1. ASSUME NEW e \in 1 .. recorded PROVE e \in 1 .. recorded' /\ event'[e] = event[e]
      BY <1>2
    <3>2. ASSUME NEW e \in 1 .. recorded', e \notin 1 .. recorded PROVE event'[e].life # c
      <4>1. e \in recorded + 1 .. recorded + m
        BY <1>2, <3>2
      <4>2. QED
        BY <1>2, <1>4, <4>1
    <3>3. QED
      BY <3>1, <3>2 DEF Told
  <2>2. \A e \in Told(c) : event'[e] = event[e]
    BY <1>2 DEF Told
  <2>3. Tells(c)
    BY <1>1 DEF EventsTellStatus, Tells
  <2>4. status'[c] = status[c]
    BY <1>2, <1>3, <1>4
  <2>5. PICK last \in Told(c) :
          /\ \A e \in Told(c) : e <= last
          /\ event[last].after = status[c]
          /\ \A d, e \in Told(c) :
               (d < e /\ \A b \in Told(c) : ~(d < b /\ b < e)) =>
                 event[d].after = event[e].before /\ event[d].after # "SHUTDOWN"
    BY <2>3 DEF Tells
  <2>6. /\ last \in Told(c)' /\ \A e \in Told(c)' : e <= last
        /\ event'[last].after = status'[c]
    BY <2>1, <2>2, <2>4, <2>5
  <2>7. \A d, e \in Told(c)' :
               (d < e /\ \A b \in Told(c)' : ~(d < b /\ b < e)) =>
                 event'[d].after = event'[e].before /\ event'[d].after # "SHUTDOWN"
    BY <2>1, <2>2, <2>5
  <2>8. QED
    BY <2>6, <2>7 DEF Tells
<1>5. Tells(a)'
  <2>1. PICK last \in Told(a) :
          /\ \A e \in Told(a) : e <= last
          /\ event[last].after = status[a]
          /\ \A d, e \in Told(a) :
               (d < e /\ \A b \in Told(a) : ~(d < b /\ b < e)) =>
                 event[d].after = event[e].before /\ event[d].after # "SHUTDOWN"
    BY <1>1 DEF EventsTellStatus
  <2>2. Told(a)' = Told(a) \cup (recorded + 1 .. recorded + m) /\ Told(a) \subseteq 1 .. recorded
    BY <1>2 DEF Told
  <2>3. \A e \in Told(a) : event'[e] = event[e]
    BY <1>2 DEF Told
  <2>4. CASE m = 0
    <3>1. Told(a)' = Told(a)
      BY <2>2, <2>4, <1>2
    <3>2. last \in Told(a)' /\ (\A e \in Told(a)' : e <= last) /\ event'[last].after = status'[a]
      BY <2>1, <2>3, <2>4, <3>1, <1>2
    <3>3. \A d, e \in Told(a)' :
               (d < e /\ \A b \in Told(a)' : ~(d < b /\ b < e)) =>
                 event'[d].after = event'[e].before /\ event'[d].after # "SHUTDOWN"
      BY <2>1, <2>3, <3>1
    <3>4. QED
      BY <3>2, <3>3 DEF Tells
  <2>5. CASE m # 0
    <3>1. /\ recorded + m \in Told(a)' /\ \A e \in Told(a)' : e <= recorded + m
          /\ event'[recorded + m].after = status'[a]
      BY <1>2, <2>2, <2>5
    <3>2. ASSUME NEW d \in Told(a)', NEW e \in Told(a)', d < e,
                 \A b \in Told(a)' : ~(d < b /\ b < e)
          PROVE  event'[d].after = event'[e].before /\ event'[d].after # "SHUTDOWN"
      <4>1. CASE e \in 1 .. recorded
        <5>1. d \in Told(a) /\ e \in Told(a)
          BY <3>2, <4>1, <2>2, <1>2
        <5>2. \A b \in Told(a) : ~(d < b /\ b < e)
          BY <3>2, <2>2
        <5>3. QED
          BY <3>2, <5>1, <5>2, <2>1, <2>3
      <4>2. CASE e = recorded + 1
        <5>1. d \in Told(a)
          BY <3>2, <4>2, <2>2, <1>2
        <5>2. d = last
          BY <5>1, <3>2, <4>2, <2>1, <2>2, <1>2, SMTT(60)
        <5>3. event'[d].after = path[1]
          BY <5>1, <5>2, <2>1, <2>3
        <5>4. event'[e].before = path[1] /\ event'[e].before # "SHUTDOWN"
          BY <4>2, <2>5, <1>2
        <5>5. QED
          BY <5>3, <5>4
      <4>3. CASE e = recorded + 2 /\ m = 2
        <5>1. recorded + 1 \in Told(a)'
          <6>1. recorded \in Nat /\ recorded + 1 \in recorded + 1 .. recorded + m
            BY <4>3, <1>2
          <6>2. QED
            BY <2>2, <6>1
        <5>2. d = recorded + 1
          BY <5>1, <3>2, <4>3, <2>2, <1>2
        <5>3. event'[d].after = path[2]
          BY <5>2, <4>3, <1>2
        <5>4. event'[e].before = path[2] /\ event'[e].before # "SHUTDOWN"
          BY <4>3, <1>2
        <5>5. QED
          BY <5>3, <5>4
      <4>4. QED
        BY <4>1, <4>2, <4>3, <3>2, <2>2, <1>2, SMTT(60)
    <3>3. QED
      BY <3>1, <3>2 DEF Tells
  <2>6. QED
    BY <2>4, <2>5
<1>6. QED
  BY <1>4, <1>5 DEF EventsTellStatus, Tells

(* What else a change of an aggregate keeps.                               *)
LEMMA RecordKeeps ==
  ASSUME AggregateInv, NEW a \in 1 .. lives, NEW path \in Seq(AggregateStatus),
         Len(path) \in 1 .. 3, path[1] = status[a],
         \A i \in 1 .. Len(path) - 1 : path[i] # "SHUTDOWN",
         Record(a, path), UNCHANGED <<lives, published, swept>>
  PROVE  /\ EventsAccountedFor' /\ EventsTellStatus' /\ FirstPublishedInOrder' /\ LivesFit'
         /\ 1 .. recorded \subseteq 1 .. recorded' /\ recorded' \in 0 .. MaxEvents
         /\ status' \in [Life -> AggregateStatus]
         /\ pending' \in [Life -> SUBSET (1 .. recorded')]
         /\ event' \in [EventId -> [before : AggregateStatus, after : AggregateStatus,
                                    life : 0 .. MaxLives]]
<1>1. /\ AggregateTypeOK /\ LivesFit /\ EventsAccountedFor /\ FirstPublishedInOrder
      /\ recorded \in 0 .. MaxEvents
  BY DEF AggregateInv, AggregatesSound, AggregateTypeOK
<1>2. /\ recorded' \in recorded .. MaxEvents
      /\ status' \in [Life -> AggregateStatus]
      /\ event' \in [EventId -> [before : AggregateStatus, after : AggregateStatus,
                                 life : 0 .. MaxLives]]
      /\ \A e \in 1 .. recorded : event'[e] = event[e]
      /\ \A e \in recorded + 1 .. recorded' : event'[e].life = a
      /\ \A c \in Life : c # a => pending'[c] = pending[c] /\ status'[c] = status[c]
      /\ pending'[a] = pending[a] \cup (recorded + 1 .. recorded')
      /\ pending' \in [Life -> SUBSET (1 .. recorded')]
  BY NewEvents
<1>3. EventsTellStatus'
  BY TellsOn
<1>4. 1 .. recorded' = (1 .. recorded) \cup (recorded + 1 .. recorded')
  BY <1>1, <1>2
<1>5. a \in Life /\ pending \in [Life -> SUBSET (1 .. recorded)]
  BY <1>1, EventBounds DEF AggregateTypeOK, Life
<1>6. EventsAccountedFor'
  <2>1. \A e : e \in UNION {pending[c] : c \in Life} <=> \E c \in Life : e \in pending[c]
    OBVIOUS
  <2>2. \A e : e \in UNION {pending'[c] : c \in Life} <=> \E c \in Life : e \in pending'[c]
    OBVIOUS
  <2>3. \A e : (\E c \in Life : e \in pending'[c])
                <=> (\E c \in Life : e \in pending[c]) \/ e \in recorded + 1 .. recorded'
    BY <1>2, <1>5, Zenon
  <2>4. 1 .. recorded = published \cup swept \cup UNION {pending[c] : c \in Life}
    BY <1>1 DEF EventsAccountedFor
  <2>5. 1 .. recorded' = published \cup swept \cup UNION {pending'[c] : c \in Life}
    BY <1>4, <2>1, <2>2, <2>3, <2>4, Zenon
  <2>6. QED
    BY <2>5 DEF EventsAccountedFor
<1>7. FirstPublishedInOrder'
  <2> SUFFICES ASSUME NEW e \in published, NEW d \in 1 .. recorded', d < e,
                      event'[d].life = event'[e].life
               PROVE  d \in published \cup swept
    BY DEF FirstPublishedInOrder
  <2>1. e \in 1 .. recorded /\ d \in 1 .. recorded
    BY <1>1 DEF AggregateTypeOK
  <2>2. QED
    BY <1>1, <1>2, <2>1 DEF FirstPublishedInOrder
<1>8. LivesFit'
  <2>1. \A c \in Life : c > lives => status'[c] = "ACTIVE" /\ pending'[c] = {}
    <3>1. \A c \in Life : c > lives => c # a
      BY <1>1 DEF AggregateTypeOK
    <3>2. QED
      BY <1>1, <1>2, <3>1 DEF LivesFit
  <2>2. ASSUME NEW c \in Life, NEW e \in pending'[c] PROVE event'[e].life = c
    <3>1. CASE e \in pending[c]
      <4>1. e \in 1 .. recorded /\ event[e].life = c
        BY <1>1, <1>5, <3>1 DEF LivesFit
      <4>2. QED
        BY <1>2, <4>1
    <3>2. CASE c = a /\ e \in recorded + 1 .. recorded'
      BY <1>2, <3>2
    <3>3. QED
      BY <1>2, <2>2, <3>1, <3>2
  <2>3. \A e \in 1 .. recorded' : event'[e].life \in 1 .. lives
    BY <1>1, <1>2, <1>4 DEF LivesFit
  <2>4. QED
    BY <2>1, <2>2, <2>3 DEF LivesFit
<1>9. QED
  BY <1>1, <1>2, <1>3, <1>4, <1>6, <1>7, <1>8

(* An execution that stays as it is still fits when nothing that was       *)
(* recorded or is out is taken back.                                       *)
LEMMA BatchStays ==
  ASSUME AggregateInv, NEW x \in Execution,
         stage'[x] = stage[x], works'[x] = works[x], batch'[x] = batch[x],
         lives' >= lives, lives' \in Nat, recorded' \in Nat,
         \A e \in 1 .. recorded : event'[e] = event[e],
         published \subseteq published', swept \subseteq swept'
  PROVE  BatchFits(x)'
<1>1. BatchFits(x) /\ batch[x] \subseteq 1 .. recorded /\ recorded \in Nat /\ lives \in Nat
  BY DEF AggregateInv, AggregatesSound, AggregateTypeOK
<1>2. stage'[x] # "idle" => works'[x] \in 1 .. lives'
  BY <1>1 DEF BatchFits
<1>3. /\ stage'[x] # "publish" => batch'[x] = {}
      /\ \A e \in batch'[x] : event'[e].life = works'[x]
  BY <1>1 DEF BatchFits
<1>4. ASSUME NEW e \in batch'[x], NEW d \in 1 .. recorded', d < e, event'[d].life = works'[x]
      PROVE  d \in batch'[x] \cup published' \cup swept'
  <2>1. e \in 1 .. recorded /\ d \in 1 .. recorded
    BY <1>1, <1>4
  <2>2. QED
    BY <1>1, <1>4, <2>1 DEF BatchFits
<1>5. QED
  BY <1>2, <1>3, <1>4 DEF BatchFits

(* A heartbeat passes one, two or three statuses, the last of them the new *)
(* one.                                                                    *)
LEMMA AfterHeartbeatIs ==
  ASSUME NEW s \in AggregateStatus, s # "SHUTDOWN", NEW well \in BOOLEAN
  PROVE  /\ AfterHeartbeat(s, well) \in Seq(AggregateStatus)
         /\ Len(AfterHeartbeat(s, well)) \in 1 .. 3
         /\ AfterHeartbeat(s, well)[1] = s
         /\ \A i \in 1 .. Len(AfterHeartbeat(s, well)) - 1 : AfterHeartbeat(s, well)[i] # "SHUTDOWN"
<1> DEFINE beaten == IF s = "UNHEALTHY" THEN <<s, "ACTIVE">> ELSE <<s>>
<1>1. beaten \in Seq(AggregateStatus) /\ Len(beaten) \in 1 .. 2
  <2>1. <<s>> \in Seq(AggregateStatus) /\ Len(<<s>>) = 1
    OBVIOUS
  <2>2. <<s, "ACTIVE">> \in Seq(AggregateStatus) /\ Len(<<s, "ACTIVE">>) = 2
    BY DEF AggregateStatus
  <2>3. QED
    BY <2>1, <2>2
<1>2. beaten[1] = s /\ \A i \in 1 .. Len(beaten) : beaten[i] # "SHUTDOWN"
  OBVIOUS
<1> HIDE DEF beaten
<1>3. CASE well
  <2>1. AfterHeartbeat(s, well) = beaten
    BY <1>3 DEF AfterHeartbeat, beaten
  <2>2. QED
    BY <1>1, <1>2, <2>1
<1>4. CASE ~well
  <2> DEFINE path == Append(beaten, "UNHEALTHY")
  <2>1. AfterHeartbeat(s, well) = path
    BY <1>4 DEF AfterHeartbeat, beaten
  <2>2. "UNHEALTHY" \in AggregateStatus
    BY DEF AggregateStatus
  <2>3. /\ path \in Seq(AggregateStatus) /\ Len(path) = Len(beaten) + 1
        /\ \A i \in 1 .. Len(beaten) : path[i] = beaten[i]
    BY <1>1, <2>2, AppendProperties
  <2>4. QED
    BY <1>1, <1>2, <2>1, <2>3
<1>5. QED
  BY <1>3, <1>4

(* Changes outside the use cases.                                          *)
LEMMA ChangeStays ==
  ASSUME AggregateInv, UpdateMetadata \/ \E s \in AggregateStatus : Change(s)
  PROVE  AggregateInv'
<1>1. AggregateTypeOK
  BY DEF AggregateInv, AggregatesSound
<1>2. /\ lives \in 1 .. lives /\ status[lives] \in AggregateStatus /\ status[lives] # "SHUTDOWN"
      /\ UNCHANGED lives /\ Quiet
      /\ \E s \in AggregateStatus : Record(lives, <<status[lives], s>>)
  <2>1. lives \in 0 .. MaxLives /\ lives > 0 /\ status[lives] # "SHUTDOWN"
    BY <1>1 DEF AggregateTypeOK, UpdateMetadata, Change, Newest
  <2>2. lives \in 1 .. lives /\ status[lives] \in AggregateStatus
    BY <1>1, <2>1, EventBounds DEF AggregateTypeOK, Life
  <2>3. QED
    BY <2>1, <2>2 DEF UpdateMetadata, Change, Newest
<1>3. PICK s \in AggregateStatus : Record(lives, <<status[lives], s>>)
  BY <1>2
<1> DEFINE path == <<status[lives], s>>
<1>4. /\ path \in Seq(AggregateStatus) /\ Len(path) = 2 /\ path[1] = status[lives]
      /\ \A i \in 1 .. Len(path) - 1 : path[i] # "SHUTDOWN"
  BY <1>2
<1>5. UNCHANGED <<lives, published, swept, stage, works, batch, failures>>
  BY <1>2 DEF Quiet
<1> HIDE DEF path
<1>6. /\ EventsAccountedFor' /\ EventsTellStatus' /\ FirstPublishedInOrder' /\ LivesFit'
      /\ 1 .. recorded \subseteq 1 .. recorded' /\ recorded' \in 0 .. MaxEvents
      /\ status' \in [Life -> AggregateStatus]
      /\ pending' \in [Life -> SUBSET (1 .. recorded')]
      /\ event' \in [EventId -> [before : AggregateStatus, after : AggregateStatus,
                                 life : 0 .. MaxLives]]
      /\ \A e \in 1 .. recorded : event'[e] = event[e]
  <2>1. /\ lives \in 1 .. lives /\ Record(lives, path) /\ path \in Seq(AggregateStatus)
        /\ Len(path) \in 1 .. 3 /\ path[1] = status[lives] /\ lives' = lives
        /\ \A i \in 1 .. Len(path) - 1 : path[i] # "SHUTDOWN"
        /\ UNCHANGED <<lives, published, swept>>
    BY <1>2, <1>3, <1>4, <1>5 DEF path
  <2>2. QED
    BY <2>1, RecordKeeps, NewEvents, Zenon
<1>7. AggregateTypeOK'
  BY <1>1, <1>5, <1>6 DEF AggregateTypeOK
<1>8. \A x \in Execution : BatchFits(x)'
  BY <1>1, <1>5, <1>6, BatchStays DEF AggregateTypeOK
<1>9. QED
  BY <1>6, <1>7, <1>8 DEF AggregateInv, AggregatesSound

(* A heartbeat records the events of the statuses it passes.               *)
LEMMA HeartbeatStays ==
  ASSUME AggregateInv, NEW x \in Execution, NEW well \in BOOLEAN, Heartbeat(x, well)
  PROVE  AggregateInv'
<1>1. AggregateTypeOK /\ BatchFits(x)
  BY DEF AggregateInv, AggregatesSound
<1>2. /\ lives \in 1 .. lives /\ status[lives] \in AggregateStatus /\ status[lives] # "SHUTDOWN"
      /\ Record(lives, AfterHeartbeat(status[lives], well))
  <2>1. lives \in 0 .. MaxLives /\ lives > 0 /\ status[lives] # "SHUTDOWN"
    BY <1>1 DEF AggregateTypeOK, Heartbeat, Newest
  <2>2. lives \in 1 .. lives /\ status[lives] \in AggregateStatus
    BY <1>1, <2>1, EventBounds DEF AggregateTypeOK, Life
  <2>3. QED
    BY <2>1, <2>2 DEF Heartbeat, Newest
<1> DEFINE path == AfterHeartbeat(status[lives], well)
<1>4. /\ path \in Seq(AggregateStatus) /\ Len(path) \in 1 .. 3 /\ path[1] = status[lives]
      /\ \A i \in 1 .. Len(path) - 1 : path[i] # "SHUTDOWN"
  BY <1>2, AfterHeartbeatIs
<1>5. /\ UNCHANGED <<lives, published, swept, batch, failures>> /\ stage[x] = "idle"
      /\ stage' = [stage EXCEPT ![x] = "bus"] /\ works' = [works EXCEPT ![x] = lives]
  BY DEF Heartbeat, Newest
<1> HIDE DEF path
<1>6. /\ EventsAccountedFor' /\ EventsTellStatus' /\ FirstPublishedInOrder' /\ LivesFit'
      /\ 1 .. recorded \subseteq 1 .. recorded' /\ recorded' \in 0 .. MaxEvents
      /\ status' \in [Life -> AggregateStatus]
      /\ pending' \in [Life -> SUBSET (1 .. recorded')]
      /\ event' \in [EventId -> [before : AggregateStatus, after : AggregateStatus,
                                 life : 0 .. MaxLives]]
      /\ \A e \in 1 .. recorded : event'[e] = event[e]
  BY <1>2, <1>4, <1>5, RecordKeeps, NewEvents DEF path
<1>7. AggregateTypeOK'
  <2>1. stage' \in [Execution -> {"idle", "bus", "publish"}] /\ works' \in [Execution -> 0 .. MaxLives]
    BY <1>1, <1>5 DEF AggregateTypeOK
  <2>2. QED
    BY <1>1, <1>5, <1>6, <2>1 DEF AggregateTypeOK
<1>8. BatchFits(x)'
  BY <1>1, <1>2, <1>5 DEF AggregateTypeOK, BatchFits
<1>9. ASSUME NEW y \in Execution, y # x PROVE BatchFits(y)'
  <2>1. stage'[y] = stage[y] /\ works'[y] = works[y] /\ batch'[y] = batch[y]
    BY <1>1, <1>5, <1>9 DEF AggregateTypeOK
  <2>2. QED
    BY <1>1, <1>5, <1>6, <2>1, BatchStays DEF AggregateTypeOK
<1>10. QED
  BY <1>6, <1>7, <1>8, <1>9 DEF AggregateInv, AggregatesSound

(* A registration begins a life with its first event.                      *)
LEMMA RegisterStays ==
  ASSUME AggregateInv, NEW x \in Execution, RegisterService(x)
  PROVE  AggregateInv'
<1> DEFINE a == lives + 1
<1> DEFINE n == recorded + 1
<1>1. /\ AggregateTypeOK /\ EventsAccountedFor /\ EventsTellStatus /\ FirstPublishedInOrder
      /\ LivesFit /\ BatchFits(x)
  BY DEF AggregateInv, AggregatesSound
<1>2. /\ lives \in 0 .. MaxLives /\ lives < MaxLives /\ recorded \in 0 .. MaxEvents
      /\ recorded < MaxEvents /\ lives' = a /\ recorded' = n /\ stage[x] = "idle"
      /\ UNCHANGED <<status, published, swept, batch, failures>>
  BY <1>1 DEF AggregateTypeOK, RegisterService
<1>3. a \in Life /\ n \in EventId /\ a \in 1 .. lives' /\ 1 .. lives \subseteq Life
  BY <1>2, EventBounds DEF Life, EventId
<1>4. pending \in [Life -> SUBSET (1 .. recorded)] /\ pending[a] = {} /\ status[a] = "ACTIVE"
  BY <1>1, <1>2, <1>3 DEF AggregateTypeOK, LivesFit
<1>5. /\ pending'[a] = {n} /\ \A c \in Life : c # a => pending'[c] = pending[c]
      /\ pending' \in [Life -> SUBSET (1 .. recorded')]
  <2>1. pending' = [pending EXCEPT ![a] = {n}]
    BY DEF RegisterService
  <2>2. {n} \in SUBSET (1 .. recorded') /\ 1 .. recorded \subseteq 1 .. recorded'
    BY <1>2
  <2>3. pending \in [Life -> SUBSET (1 .. recorded')]
    BY <1>4, <2>2
  <2>4. QED
    BY <1>3, <1>4, <2>1, <2>2, <2>3
<1>6. /\ event'[n] = [before |-> "ACTIVE", after |-> "ACTIVE", life |-> a]
      /\ \A e \in 1 .. recorded : event'[e] = event[e]
      /\ event' \in [EventId -> [before : AggregateStatus, after : AggregateStatus,
                                 life : 0 .. MaxLives]]
  <2>1. event' = [event EXCEPT ![n] = [before |-> "ACTIVE", after |-> "ACTIVE", life |-> a]]
    <3>1. [Blank EXCEPT !.life = lives + 1]
             = [before |-> "ACTIVE", after |-> "ACTIVE", life |-> lives + 1]
      BY DEF Blank
    <3>2. QED
      BY <3>1 DEF RegisterService
  <2>2. [before |-> "ACTIVE", after |-> "ACTIVE", life |-> a]
           \in [before : AggregateStatus, after : AggregateStatus, life : 0 .. MaxLives]
    BY <1>2, EventBounds DEF AggregateStatus
  <2>3. event \in [EventId -> [before : AggregateStatus, after : AggregateStatus,
                               life : 0 .. MaxLives]]
    BY <1>1 DEF AggregateTypeOK
  <2>4. QED
    BY <1>2, <1>3, <2>1, <2>2, <2>3
<1>7. /\ stage' = [stage EXCEPT ![x] = "bus"] /\ works' = [works EXCEPT ![x] = a]
  BY DEF RegisterService
<1> HIDE DEF a, n
<1>8. 1 .. recorded' = (1 .. recorded) \cup {n} /\ 1 .. lives' = (1 .. lives) \cup {a}
      /\ n \notin 1 .. recorded /\ a \notin 1 .. lives
  BY <1>2 DEF n, a
<1>9. AggregateTypeOK'
  <2>1. stage' \in [Execution -> {"idle", "bus", "publish"}] /\ works' \in [Execution -> 0 .. MaxLives]
    BY <1>1, <1>2, <1>7, EventBounds DEF AggregateTypeOK, a
  <2>2. batch' \in [Execution -> SUBSET (1 .. recorded')]
    BY <1>1, <1>2, <1>8 DEF AggregateTypeOK
  <2>3. lives' \in 0 .. MaxLives /\ recorded' \in 0 .. MaxEvents
    BY <1>2, EventBounds DEF a, n
  <2>4. QED
    BY <1>1, <1>2, <1>5, <1>6, <1>8, <2>1, <2>2, <2>3 DEF AggregateTypeOK
<1>10. EventsAccountedFor'
  <2>1. \A e : e \in UNION {pending[c] : c \in Life} <=> \E c \in Life : e \in pending[c]
    OBVIOUS
  <2>2. \A e : e \in UNION {pending'[c] : c \in Life} <=> \E c \in Life : e \in pending'[c]
    OBVIOUS
  <2>3. \A e : (\E c \in Life : e \in pending'[c])
                <=> (\E c \in Life : e \in pending[c]) \/ e = n
    BY <1>3, <1>4, <1>5
  <2>4. 1 .. recorded = published \cup swept \cup UNION {pending[c] : c \in Life}
    BY <1>1 DEF EventsAccountedFor
  <2>5. 1 .. recorded' = published' \cup swept' \cup UNION {pending'[c] : c \in Life}
    BY <1>2, <1>8, <2>1, <2>2, <2>3, <2>4
  <2>6. QED
    BY <2>5 DEF EventsAccountedFor
<1>11. FirstPublishedInOrder'
  <2> SUFFICES ASSUME NEW e \in published, NEW d \in 1 .. recorded', d < e,
                      event'[d].life = event'[e].life
               PROVE  d \in published \cup swept
    BY <1>2 DEF FirstPublishedInOrder
  <2>1. e \in 1 .. recorded /\ d \in 1 .. recorded
    BY <1>1, <1>2 DEF AggregateTypeOK
  <2>2. QED
    BY <1>1, <1>6, <2>1 DEF FirstPublishedInOrder
<1>12. LivesFit'
  <2>1. \A c \in Life : c > lives' => status'[c] = "ACTIVE" /\ pending'[c] = {}
    <3>1. \A c \in Life : c > lives' => c # a /\ c > lives
      BY <1>2, EventBounds DEF a, Life
    <3>2. QED
      BY <1>1, <1>2, <1>5, <3>1 DEF LivesFit
  <2>2. ASSUME NEW c \in Life, NEW e \in pending'[c] PROVE event'[e].life = c
    <3>1. CASE c = a
      BY <1>5, <1>6, <2>2, <3>1
    <3>2. CASE c # a
      BY <1>1, <1>4, <1>5, <1>6, <2>2, <3>2 DEF LivesFit
    <3>3. QED
      BY <3>1, <3>2
  <2>3. \A e \in 1 .. recorded' : event'[e].life \in 1 .. lives'
    BY <1>1, <1>6, <1>8 DEF LivesFit
  <2>4. QED
    BY <2>1, <2>2, <2>3 DEF LivesFit
<1>13. EventsTellStatus'
  <2>1. ASSUME NEW c \in 1 .. lives', c = a PROVE Tells(c)'
    <3>1. \A e \in 1 .. recorded : event'[e].life # c
      BY <1>1, <1>6, <1>8, <2>1 DEF LivesFit
    <3>2. Told(c)' = {n}
      BY <1>6, <1>8, <2>1, <3>1 DEF Told
    <3>3. n \in Told(c)' /\ (\A e \in Told(c)' : e <= n) /\ event'[n].after = status'[c]
      BY <1>2, <1>4, <1>6, <2>1, <3>2 DEF n
    <3>4. \A d, e \in Told(c)' : ~(d < e)
      BY <1>2, <3>2 DEF n
    <3>5. QED
      BY <3>3, <3>4 DEF Tells
  <2>2. ASSUME NEW c \in 1 .. lives PROVE Tells(c)'
    <3>1. Told(c)' = Told(c)
      BY <1>1, <1>6, <1>8 DEF Told, LivesFit
    <3>2. \A e \in Told(c) : event'[e] = event[e]
      BY <1>6 DEF Told
    <3>3. Tells(c)
      BY <1>1 DEF EventsTellStatus, Tells
    <3>4. QED
      BY <1>2, <3>1, <3>2, <3>3 DEF Tells
  <2>3. \A c \in 1 .. lives' : Tells(c)'
    BY <1>8, <2>1, <2>2
  <2>4. QED
    BY <2>3 DEF EventsTellStatus, Tells
<1>14. BatchFits(x)'
  <2>1. batch[x] = {}
    BY <1>1, <1>2 DEF BatchFits
  <2>2. stage'[x] = "bus" /\ works'[x] = a /\ batch'[x] = {}
    BY <1>1, <1>2, <1>7, <2>1 DEF AggregateTypeOK
  <2>3. QED
    BY <1>8, <2>2 DEF BatchFits
<1>15. ASSUME NEW y \in Execution, y # x PROVE BatchFits(y)'
  <2>1. stage'[y] = stage[y] /\ works'[y] = works[y] /\ batch'[y] = batch[y]
    BY <1>1, <1>2, <1>7, <1>15 DEF AggregateTypeOK
  <2>2. lives' >= lives /\ lives' \in Nat /\ recorded' \in Nat
    BY <1>2 DEF a, n
  <2>3. QED
    BY <1>2, <1>6, <2>1, <2>2, BatchStays
<1>16. QED
  BY <1>9, <1>10, <1>11, <1>12, <1>13, <1>14, <1>15 DEF AggregateInv, AggregatesSound

(* The steps that leave the record of events alone.                        *)
LEMMA LogStays ==
  ASSUME AggregateInv, UNCHANGED logVars
  PROVE  EventsTellStatus' /\ LivesFit'
<1>1. EventsTellStatus /\ LivesFit
  BY DEF AggregateInv, AggregatesSound
<1>2. \A a : Told(a)' = Told(a)
  BY DEF Told, logVars
<1>3. QED
  BY <1>1, <1>2 DEF EventsTellStatus, LivesFit, logVars

(* An execution copies the pending events.                                 *)
LEMMA CopyStays ==
  ASSUME AggregateInv, NEW x \in Execution, CopyEvents(x)
  PROVE  AggregateInv'
<1>1. AggregateTypeOK /\ EventsAccountedFor /\ FirstPublishedInOrder /\ LivesFit /\ BatchFits(x)
  BY DEF AggregateInv, AggregatesSound
<1>2. /\ UNCHANGED <<logVars, published, swept, works, failures>> /\ stage[x] = "bus"
      /\ stage' = [stage EXCEPT ![x] = "publish"]
      /\ batch' = [batch EXCEPT ![x] = pending[works[x]]]
  BY DEF CopyEvents
<1>3. UNCHANGED <<lives, status, pending, event, recorded>>
  BY <1>2 DEF logVars
<1>4. works[x] \in 1 .. lives /\ works[x] \in Life
  BY <1>1, <1>2, EventBounds DEF AggregateTypeOK, BatchFits, Life
<1>5. AggregateTypeOK'
  BY <1>1, <1>2, <1>3, <1>4 DEF AggregateTypeOK
<1>6. EventsAccountedFor' /\ FirstPublishedInOrder'
  BY <1>1, <1>2, <1>3 DEF EventsAccountedFor, FirstPublishedInOrder
<1>7. BatchFits(x)'
  <2>1. stage'[x] = "publish" /\ batch'[x] = pending[works[x]]
    BY <1>1, <1>2 DEF AggregateTypeOK
  <2>2. \A e \in pending[works[x]] : event[e].life = works[x]
    BY <1>1, <1>4 DEF LivesFit
  <2>3. ASSUME NEW d \in 1 .. recorded, event[d].life = works[x]
        PROVE  d \in pending[works[x]] \cup published \cup swept
    <3>1. CASE d \in UNION {pending[c] : c \in Life}
      BY <1>1, <2>3, <3>1 DEF LivesFit
    <3>2. QED
      BY <1>1, <3>1 DEF EventsAccountedFor
  <2>4. QED
    BY <1>2, <1>3, <1>4, <2>1, <2>2, <2>3 DEF BatchFits
<1>8. ASSUME NEW y \in Execution, y # x PROVE BatchFits(y)'
  <2>1. stage'[y] = stage[y] /\ works'[y] = works[y] /\ batch'[y] = batch[y]
    BY <1>1, <1>2, <1>8 DEF AggregateTypeOK
  <2>2. QED
    BY <1>1, <1>2, <1>3, <2>1, BatchStays DEF AggregateTypeOK
<1>9. QED
  BY <1>2, <1>5, <1>6, <1>7, <1>8, LogStays DEF AggregateInv, AggregatesSound

(* It publishes them in their order.                                       *)
LEMMA PublishNextStays ==
  ASSUME AggregateInv, NEW x \in Execution, PublishNext(x)
  PROVE  AggregateInv'
<1>1. AggregateTypeOK /\ EventsAccountedFor /\ FirstPublishedInOrder /\ BatchFits(x)
  BY DEF AggregateInv, AggregatesSound
<1>2. PICK e \in batch[x] \ published :
        /\ \A d \in batch[x] : d < e => d \in published
        /\ published' = published \cup {e}
  BY DEF PublishNext
<1>3. UNCHANGED <<lives, status, pending, event, recorded, swept, stage, works, batch, failures>>
  BY DEF PublishNext, logVars
<1>4. e \in 1 .. recorded
  BY <1>1, <1>2 DEF AggregateTypeOK
<1>5. AggregateTypeOK'
  BY <1>1, <1>2, <1>3, <1>4 DEF AggregateTypeOK
<1>6. EventsAccountedFor'
  BY <1>1, <1>2, <1>3, <1>4 DEF EventsAccountedFor
<1>7. FirstPublishedInOrder'
  <2> SUFFICES ASSUME NEW f \in published', NEW d \in 1 .. recorded, d < f,
                      event[d].life = event[f].life
               PROVE  d \in published' \cup swept
    BY <1>3 DEF FirstPublishedInOrder
  <2>1. CASE f \in published
    BY <1>1, <1>2, <2>1 DEF FirstPublishedInOrder
  <2>2. CASE f = e
    <3>1. event[d].life = works[x] /\ d < e
      BY <1>1, <1>2, <2>2 DEF BatchFits
    <3>2. d \in batch[x] \cup published \cup swept
      BY <1>1, <1>2, <3>1 DEF BatchFits
    <3>3. QED
      BY <1>2, <3>1, <3>2
  <2>3. QED
    BY <1>2, <2>1, <2>2
<1>8. ASSUME NEW y \in Execution PROVE BatchFits(y)'
  BY <1>1, <1>2, <1>3, BatchStays DEF AggregateTypeOK
<1>9. QED
  BY <1>3, <1>5, <1>6, <1>7, <1>8, LogStays DEF AggregateInv, AggregatesSound, logVars

(* It clears all that is pending, also what it did not copy.               *)
LEMMA CommitStays ==
  ASSUME AggregateInv, NEW x \in Execution, Commit(x)
  PROVE  AggregateInv'
<1>1. /\ AggregateTypeOK /\ EventsAccountedFor /\ EventsTellStatus /\ FirstPublishedInOrder
      /\ LivesFit /\ BatchFits(x)
  BY DEF AggregateInv, AggregatesSound
<1> DEFINE a == works[x]
<1>2. /\ stage[x] = "publish" /\ batch[x] \subseteq published
      /\ pending' = [pending EXCEPT ![a] = {}]
      /\ swept' = swept \cup ((pending[a] \ batch[x]) \ published)
      /\ UNCHANGED <<lives, status, event, recorded, published, failures>>
      /\ stage' = [stage EXCEPT ![x] = "idle"] /\ works' = [works EXCEPT ![x] = 0]
      /\ batch' = [batch EXCEPT ![x] = {}]
  BY DEF Commit, Leaves
<1>3. a \in Life /\ pending \in [Life -> SUBSET (1 .. recorded)]
  BY <1>1, <1>2, EventBounds DEF AggregateTypeOK, BatchFits, Life
<1> HIDE DEF a
<1>4. pending'[a] = {} /\ \A c \in Life : c # a => pending'[c] = pending[c]
  BY <1>2, <1>3
<1>5. AggregateTypeOK'
  <2>1. pending' \in [Life -> SUBSET (1 .. recorded)] /\ swept' \in SUBSET (1 .. recorded)
    BY <1>1, <1>2, <1>3 DEF AggregateTypeOK
  <2>2. /\ stage' \in [Execution -> {"idle", "bus", "publish"}]
        /\ works' \in [Execution -> 0 .. MaxLives]
        /\ batch' \in [Execution -> SUBSET (1 .. recorded)]
    BY <1>1, <1>2, EventBounds DEF AggregateTypeOK
  <2>3. QED
    BY <1>1, <1>2, <2>1, <2>2 DEF AggregateTypeOK
<1>6. EventsAccountedFor'
  <2>1. \A e : e \in UNION {pending[c] : c \in Life} <=> \E c \in Life : e \in pending[c]
    OBVIOUS
  <2>2. \A e : e \in UNION {pending'[c] : c \in Life} <=> \E c \in Life : e \in pending'[c]
    OBVIOUS
  <2>3. \A e : (\E c \in Life : e \in pending[c])
                <=> (\E c \in Life : e \in pending'[c]) \/ e \in pending[a]
    BY <1>3, <1>4
  <2>4. 1 .. recorded = published \cup swept \cup UNION {pending[c] : c \in Life}
    BY <1>1 DEF EventsAccountedFor
  <2>5. 1 .. recorded = published \cup swept' \cup UNION {pending'[c] : c \in Life}
    BY <1>2, <2>1, <2>2, <2>3, <2>4
  <2>6. QED
    BY <1>2, <2>5 DEF EventsAccountedFor
<1>7. FirstPublishedInOrder'
  BY <1>1, <1>2 DEF FirstPublishedInOrder
<1>8. LivesFit'
  BY <1>1, <1>2, <1>3, <1>4 DEF LivesFit
<1>9. EventsTellStatus'
  <2>1. \A c : Told(c)' = Told(c)
    BY <1>2 DEF Told
  <2>2. QED
    BY <1>1, <1>2, <2>1 DEF EventsTellStatus
<1>10. BatchFits(x)'
  BY <1>1, <1>2 DEF BatchFits, AggregateTypeOK
<1>11. ASSUME NEW y \in Execution, y # x PROVE BatchFits(y)'
  <2>1. stage'[y] = stage[y] /\ works'[y] = works[y] /\ batch'[y] = batch[y]
    BY <1>1, <1>2, <1>11 DEF AggregateTypeOK
  <2>2. QED
    BY <1>1, <1>2, <2>1, BatchStays DEF AggregateTypeOK
<1>12. QED
  BY <1>5, <1>6, <1>7, <1>8, <1>9, <1>10, <1>11 DEF AggregateInv, AggregatesSound

(* It ends at an event the bus does not take.                              *)
LEMMA BusFailsStays ==
  ASSUME AggregateInv, NEW x \in Execution, BusFails(x)
  PROVE  AggregateInv'
<1>1. /\ AggregateTypeOK /\ EventsAccountedFor /\ FirstPublishedInOrder /\ BatchFits(x)
  BY DEF AggregateInv, AggregatesSound
<1>2. /\ UNCHANGED <<logVars, published, swept>> /\ failures < MaxFailures /\ failures' = failures + 1
      /\ stage' = [stage EXCEPT ![x] = "idle"] /\ works' = [works EXCEPT ![x] = 0]
      /\ batch' = [batch EXCEPT ![x] = {}]
  BY DEF BusFails, Leaves
<1>3. UNCHANGED <<lives, status, pending, event, recorded>>
  BY <1>2 DEF logVars
<1>4. AggregateTypeOK'
  <2>1. /\ stage' \in [Execution -> {"idle", "bus", "publish"}]
        /\ works' \in [Execution -> 0 .. MaxLives]
        /\ batch' \in [Execution -> SUBSET (1 .. recorded)]
    BY <1>1, <1>2, EventBounds DEF AggregateTypeOK
  <2>2. failures' \in 0 .. MaxFailures
    BY <1>1, <1>2, AggregateAssumption DEF AggregateTypeOK
  <2>3. QED
    BY <1>1, <1>2, <1>3, <2>1, <2>2 DEF AggregateTypeOK
<1>5. EventsAccountedFor' /\ FirstPublishedInOrder'
  BY <1>1, <1>2, <1>3 DEF EventsAccountedFor, FirstPublishedInOrder
<1>6. BatchFits(x)'
  BY <1>1, <1>2, <1>3 DEF BatchFits, AggregateTypeOK
<1>7. ASSUME NEW y \in Execution, y # x PROVE BatchFits(y)'
  <2>1. stage'[y] = stage[y] /\ works'[y] = works[y] /\ batch'[y] = batch[y]
    BY <1>1, <1>2, <1>7 DEF AggregateTypeOK
  <2>2. QED
    BY <1>1, <1>2, <1>3, <2>1, BatchStays DEF AggregateTypeOK
<1>8. QED
  BY <1>2, <1>4, <1>5, <1>6, <1>7, LogStays DEF AggregateInv, AggregatesSound

(* Every step keeps the invariant.                                         *)
LEMMA AggregateInductive == AggregateInv /\ [AggregateNext]_aggregateVars => AggregateInv'
<1> SUFFICES ASSUME AggregateInv, [AggregateNext]_aggregateVars PROVE AggregateInv'
  OBVIOUS
<1>1. ASSUME NEW x \in Execution, RegisterService(x) PROVE AggregateInv'
  BY <1>1, RegisterStays
<1>2. ASSUME NEW x \in Execution, UseCaseStep(x) PROVE AggregateInv'
  BY <1>2, CopyStays, PublishNextStays, CommitStays, BusFailsStays DEF UseCaseStep
<1>3. ASSUME NEW x \in Execution, NEW well \in BOOLEAN, Heartbeat(x, well) PROVE AggregateInv'
  BY <1>3, HeartbeatStays
<1>4. CASE UpdateMetadata \/ \E s \in AggregateStatus : Change(s)
  BY <1>4, ChangeStays
<1>5. CASE UNCHANGED aggregateVars
  <2>1. UNCHANGED <<logVars, published, swept, stage, works, batch, failures>>
    BY <1>5 DEF aggregateVars, logVars
  <2>2. AggregateTypeOK' /\ EventsAccountedFor' /\ FirstPublishedInOrder'
    BY <2>1 DEF AggregateInv, AggregatesSound, AggregateTypeOK, EventsAccountedFor,
                FirstPublishedInOrder, logVars
  <2>3. \A x \in Execution : BatchFits(x)'
    BY <2>1 DEF AggregateInv, BatchFits, logVars
  <2>4. QED
    BY <2>1, <2>2, <2>3, LogStays DEF AggregateInv, AggregatesSound
<1>6. QED
  BY <1>1, <1>2, <1>3, <1>4, <1>5 DEF AggregateNext

(* AggregatesSound, for any number of executions, aggregates and events:   *)
(* no event is lost but between a copy and its commit, the events of an    *)
(* aggregate tell its history, and they come out in its order.             *)
THEOREM EventsAreSound == AggregateSpec => []AggregatesSound
<1>1. AggregateInv => AggregatesSound
  BY DEF AggregateInv
<1>2. QED
  BY <1>1, EventsBegin, AggregateInductive, PTL DEF AggregateSpec

-----------------------------------------------------------------------------
(* Hybrid                                                                  *)

(* The assumptions on the constants, one by one.                           *)
LEMMA HybridBounds == StreamLimit \in Nat \ {0} /\ MaxUpsets \in Nat
BY HybridAssumption

-----------------------------------------------------------------------------
(* A request an instance has not handled is one it has not run.            *)
RpcFits ==
  /\ callStage \in {"new", "asked", "routed", "ok", "failed"}
  /\ requested \subseteq Peer /\ replies \in Seq({"good", "bad"}) /\ ran \in [Peer -> Nat]
  /\ NoSecondRun
  /\ \A p \in requested : ran[p] = 0
  /\ callStage = "new" => requested = {} /\ \A p \in Peer : ran[p] = 0

(* The handlers an event has passed have heard it.                         *)
EventFits ==
  /\ listeners \in [Peer -> Seq(Listener)] /\ turn \in Nat
  /\ heard \subseteq Listener /\ ackedFor \subseteq Listener
  /\ bound = {} \/ \E p \in Peer : bound = {p}
  /\ bound = {} => turn = 0
  /\ \A p \in bound : /\ turn <= Len(listeners[p]) + 1
                      /\ \A k \in 1 .. Len(listeners[p]) : k < turn => listeners[p][k] \in heard
  /\ AckedMeansHeard

(* What is acknowledged has been carried out.                              *)
CommandFits ==
  /\ stream \in Seq({"command", "report"} \X Order) /\ Len(stream) <= StreamLimit
  /\ held \in [Order -> {"no", "runs", "returned"}] /\ carriedOut \subseteq Order
  /\ evicted \in BOOLEAN
  /\ answer \in [Order -> {"unsent", "waits", "told", "none"}]
  /\ \A o \in Order : held[o] = "returned" => o \in carriedOut
  /\ OrdersSurvive

HybridInv ==
  /\ alive \subseteq Peer /\ upsets \in 0 .. MaxUpsets
  /\ RpcFits /\ EventFits /\ CommandFits

(* The invariant holds at first.                                           *)
LEMMA HybridBegins == HybridInit => HybridInv
<1> SUFFICES ASSUME HybridInit PROVE HybridInv
  OBVIOUS
<1>1. alive \subseteq Peer /\ upsets \in 0 .. MaxUpsets
  BY HybridBounds DEF HybridInit
<1>2. RpcFits
  <2>1. replies \in Seq({"good", "bad"}) /\ ran \in [Peer -> Nat]
    BY DEF HybridInit
  <2>2. QED
    BY <2>1 DEF HybridInit, RpcFits, NoSecondRun
<1>3. EventFits
  <2>1. listeners \in [Peer -> Seq(Listener)]
    BY DEF HybridInit
  <2>2. QED
    BY <2>1 DEF HybridInit, EventFits, AckedMeansHeard
<1>4. CommandFits
  <2>1. stream = <<>> /\ stream \in Seq({"command", "report"} \X Order) /\ Len(stream) = 0
    BY DEF HybridInit
  <2>2. evicted = FALSE /\ carriedOut = {} /\ held \in [Order -> {"no", "runs", "returned"}]
        /\ \A o \in Order : held[o] = "no"
    BY DEF HybridInit
  <2>3. answer \in [Order -> {"unsent", "waits", "told", "none"}]
        /\ \A o \in Order : answer[o] = "unsent"
    BY DEF HybridInit
  <2>4. Len(stream) <= StreamLimit
    BY <2>1, HybridBounds
  <2>5. OrdersSurvive
    BY <2>3 DEF OrdersSurvive
  <2>6. evicted \in BOOLEAN /\ carriedOut \subseteq Order
        /\ \A o \in Order : held[o] = "returned" => o \in carriedOut
    BY <2>2
  <2>7. QED
    BY <2>1, <2>2, <2>3, <2>4, <2>5, <2>6, Zenon DEF CommandFits
<1>5. QED
  BY <1>1, <1>2, <1>3, <1>4 DEF HybridInv

-----------------------------------------------------------------------------
(* What other steps leave of the calls.                                    *)
LEMMA RpcSame == ASSUME RpcFits, UNCHANGED rpcVars PROVE RpcFits'
BY DEF RpcFits, NoSecondRun, rpcVars
(* What other steps leave of the events.                                   *)
LEMMA EventSame == ASSUME EventFits, UNCHANGED eventVars PROVE EventFits'
BY DEF EventFits, AckedMeansHeard, eventVars
(* What other steps leave of the commands.                                 *)
LEMMA CommandSame == ASSUME CommandFits, UNCHANGED commandVars PROVE CommandFits'
BY Zenon DEF CommandFits, OrdersSurvive, commandVars
(* The bound on upsets is kept.                                            *)
LEMMA UpsetFits ==
  ASSUME upsets \in 0 .. MaxUpsets, Upset \/ Well
  PROVE  upsets' \in 0 .. MaxUpsets
BY HybridBounds DEF Upset, Well

(* An instance ends.                                                       *)
LEMMA PeerEndsStays ==
  ASSUME HybridInv, NEW p \in Peer, PeerEnds(p)
  PROVE  HybridInv'
<1>1. PICK mine \in SUBSET Order : held' = [o \in Order |-> IF o \in mine THEN "no" ELSE held[o]]
  BY DEF PeerEnds
<1>2. /\ alive' = alive \ {p} /\ requested' = requested \ {p} /\ bound' = bound \ {p}
      /\ turn' = (IF p \in bound THEN 0 ELSE turn)
      /\ callStage' = callStage /\ replies' = replies /\ ran' = ran /\ listeners' = listeners
      /\ heard' = heard /\ ackedFor' = ackedFor /\ stream' = stream /\ carriedOut' = carriedOut
      /\ answer' = answer /\ Upset
  BY DEF PeerEnds
<1>3. evicted' = evicted
  BY Zenon DEF PeerEnds
<1>4. RpcFits'
  BY <1>2 DEF HybridInv, RpcFits, NoSecondRun
<1>5. EventFits'
  BY <1>2 DEF HybridInv, EventFits, AckedMeansHeard
<1>6. CommandFits'
  <2>1. held' \in [Order -> {"no", "runs", "returned"}]
        /\ \A o \in Order : held'[o] = "returned" => held[o] = "returned"
    BY <1>1 DEF HybridInv, CommandFits
  <2>2. QED
    BY <1>2, <1>3, <2>1, Zenon DEF HybridInv, CommandFits, OrdersSurvive
<1>7. QED
  BY <1>2, <1>4, <1>5, <1>6, UpsetFits DEF HybridInv

(* The call: whoever handles the request does so once.                     *)
LEMMA RpcStays ==
  ASSUME HybridInv,
         Ask \/ FirstReply \/ NoReply \/ RouteRequest \/ \E p \in Peer : HandleRpc(p)
  PROVE  HybridInv'
<1>1. alive' = alive /\ UNCHANGED eventVars /\ UNCHANGED commandVars /\ (Upset \/ Well)
  BY Zenon DEF Ask, FirstReply, NoReply, RouteRequest, HandleRpc
<1>2. RpcFits'
  <2>1. CASE Ask
    BY <2>1 DEF Ask, HybridInv, RpcFits, NoSecondRun
  <2>2. CASE FirstReply \/ NoReply \/ RouteRequest
    <3>1. /\ requested' = requested /\ replies' = replies /\ ran' = ran
          /\ callStage' \in {"asked", "routed", "ok", "failed"}
      BY <2>2 DEF FirstReply, NoReply, RouteRequest
    <3>2. QED
      BY <3>1 DEF HybridInv, RpcFits, NoSecondRun
  <2>3. ASSUME NEW p \in Peer, HandleRpc(p) PROVE RpcFits'
    <3>1. /\ p \in requested /\ requested' = requested \ {p} /\ callStage' = callStage
          /\ ran' = [ran EXCEPT ![p] = @ + 1]
          /\ \E says \in {"good", "bad"} : replies' = Append(replies, says)
      BY <2>3 DEF HandleRpc
    <3>2. /\ replies \in Seq({"good", "bad"}) /\ ran \in [Peer -> Nat] /\ requested \subseteq Peer
          /\ ran[p] = 0
      BY <3>1 DEF HybridInv, RpcFits
    <3>3. replies' \in Seq({"good", "bad"})
      BY <3>1, <3>2, AppendProperties
    <3>4. /\ ran' \in [Peer -> Nat] /\ ran'[p] = 1 /\ \A q \in Peer : q # p => ran'[q] = ran[q]
      BY <3>1, <3>2
    <3>5. callStage # "new"
      BY <3>1 DEF HybridInv, RpcFits, HandleRpc
    <3>6. QED
      BY <3>1, <3>3, <3>4, <3>5 DEF HybridInv, RpcFits, NoSecondRun
  <2>4. QED
    BY <2>1, <2>2, <2>3
<1>3. QED
  BY <1>1, <1>2, UpsetFits, EventSame, CommandSame DEF HybridInv

(* A listener is added, also while an event is handled.                    *)
LEMMA SubscribeStays ==
  ASSUME EventFits, NEW p \in Peer, NEW l \in Listener, SubscribeEvent(p, l)
  PROVE  EventFits'
<1>1. /\ listeners' = [listeners EXCEPT ![p] = Append(@, l)] /\ turn' = turn /\ heard' = heard
      /\ ackedFor' = ackedFor /\ bound' = IF bound = {} THEN {p} ELSE bound
  BY DEF SubscribeEvent
<1>2. listeners \in [Peer -> Seq(Listener)] /\ turn \in Nat
  BY DEF EventFits
<1>3. /\ Append(listeners[p], l) \in Seq(Listener)
      /\ Len(Append(listeners[p], l)) = Len(listeners[p]) + 1 /\ Len(listeners[p]) \in Nat
      /\ \A k \in 1 .. Len(listeners[p]) : Append(listeners[p], l)[k] = listeners[p][k]
  BY <1>2, AppendProperties, LenProperties
<1>4. /\ listeners' \in [Peer -> Seq(Listener)] /\ listeners'[p] = Append(listeners[p], l)
      /\ \A q \in Peer : q # p => listeners'[q] = listeners[q]
  BY <1>1, <1>2, <1>3
<1>5. CASE bound = {}
  <2>1. turn' = 0 /\ bound' = {p} /\ Len(listeners'[p]) \in Nat
    BY <1>1, <1>3, <1>4, <1>5 DEF EventFits
  <2>2. QED
    BY <1>1, <1>4, <2>1 DEF EventFits, AckedMeansHeard
<1>6. CASE bound # {}
  <2>1. bound' = bound /\ bound \subseteq Peer
    BY <1>1, <1>6 DEF EventFits
  <2>2. ASSUME NEW q \in bound
        PROVE  /\ turn <= Len(listeners'[q]) + 1
               /\ \A k \in 1 .. Len(listeners'[q]) : k < turn => listeners'[q][k] \in heard
    <3>1. /\ turn <= Len(listeners[q]) + 1
          /\ \A k \in 1 .. Len(listeners[q]) : k < turn => listeners[q][k] \in heard
      BY DEF EventFits
    <3>2. CASE q = p
      <4>1. Len(listeners'[q]) = Len(listeners[q]) + 1
            /\ \A k \in 1 .. Len(listeners[q]) : listeners'[q][k] = listeners[q][k]
        BY <1>3, <1>4, <3>2
      <4>2. \A k \in 1 .. Len(listeners[q]) + 1 : k < turn => k \in 1 .. Len(listeners[q])
        BY <1>2, <1>3, <3>1, <3>2
      <4>3. turn <= Len(listeners[q]) + 1 + 1
        BY <1>2, <1>3, <3>1, <3>2
      <4>4. QED
        BY <3>1, <4>1, <4>2, <4>3
    <3>3. CASE q # p
      BY <1>4, <2>1, <3>1, <3>3
    <3>4. QED
      BY <3>2, <3>3
  <2>3. QED
    BY <1>1, <1>4, <1>6, <2>1, <2>2 DEF EventFits, AckedMeansHeard
<1>7. QED
  BY <1>5, <1>6

(* The next listener runs.                                                 *)
LEMMA RunListenerStays ==
  ASSUME EventFits, NEW p \in Peer, RunListener(p)
  PROVE  EventFits'
<1>1. /\ p \in bound /\ turn \in 1 .. Len(listeners[p]) /\ listeners' = listeners
      /\ bound' = bound /\ ackedFor' = ackedFor
      /\ \/ heard' = heard \cup {listeners[p][turn]} /\ turn' = turn + 1
         \/ turn' = 0 /\ heard' = heard
  BY DEF RunListener
<1>2. /\ bound = {p} /\ listeners[p] \in Seq(Listener) /\ Len(listeners[p]) \in Nat
      /\ listeners[p][turn] \in Listener
  BY <1>1, LenProperties, ElementOfSeq DEF EventFits
<1>3. CASE heard' = heard \cup {listeners[p][turn]} /\ turn' = turn + 1
  <2>1. turn' \in Nat /\ turn' <= Len(listeners[p]) + 1
    BY <1>1, <1>2, <1>3
  <2>2. ASSUME NEW k \in 1 .. Len(listeners[p]), k < turn' PROVE listeners[p][k] \in heard'
    <3>1. k = turn \/ k < turn
      BY <1>1, <1>3, <2>2
    <3>2. QED
      BY <1>1, <1>3, <3>1 DEF EventFits
  <2>3. QED
    BY <1>1, <1>2, <1>3, <2>1, <2>2 DEF EventFits, AckedMeansHeard
<1>4. CASE turn' = 0 /\ heard' = heard
  BY <1>1, <1>2, <1>4 DEF EventFits, AckedMeansHeard
<1>5. QED
  BY <1>1, <1>3, <1>4

(* The event is acknowledged after the last listener.                      *)
LEMMA AckEventStays ==
  ASSUME EventFits, NEW p \in Peer, AckEvent(p)
  PROVE  EventFits'
<1>1. /\ p \in bound /\ turn = Len(listeners[p]) + 1 /\ turn' = 0 /\ listeners' = listeners
      /\ bound' = bound /\ heard' = heard /\ ackedFor' \in {Known(p), ackedFor}
  BY DEF AckEvent
<1>2. listeners[p] \in Seq(Listener) /\ Len(listeners[p]) \in Nat /\ bound \subseteq Peer
      /\ DOMAIN listeners[p] = 1 .. Len(listeners[p])
  BY <1>1, LenProperties DEF EventFits
<1>3. Known(p) \subseteq heard
  <2>1. \A k \in 1 .. Len(listeners[p]) : k < turn
    BY <1>1, <1>2
  <2>2. \A k \in 1 .. Len(listeners[p]) : listeners[p][k] \in heard
    BY <1>1, <2>1 DEF EventFits
  <2>3. QED
    BY <1>2, <2>2 DEF Known, ToSet
<1>4. ackedFor' \subseteq heard /\ heard \subseteq Listener
  BY <1>1, <1>3 DEF EventFits, AckedMeansHeard
<1>5. \A q \in bound : Len(listeners[q]) \in Nat
  BY <1>2, LenProperties DEF EventFits
<1>6. QED
  BY <1>1, <1>4, <1>5 DEF EventFits, AckedMeansHeard

(* The steps of events keep the invariant.                                 *)
LEMMA EventStays ==
  ASSUME HybridInv,
         \/ TakeEvent
         \/ \E p \in Peer :
              \/ RunListener(p) \/ AckEvent(p) \/ \E l \in Listener : SubscribeEvent(p, l)
  PROVE  HybridInv'
<1>1. alive' = alive /\ UNCHANGED rpcVars /\ UNCHANGED commandVars /\ (Upset \/ Well)
  BY Zenon DEF TakeEvent, RunListener, AckEvent, SubscribeEvent
<1>2. EventFits'
  <2>1. CASE TakeEvent
    <3>1. /\ bound # {} /\ turn' = 1 /\ listeners' = listeners /\ bound' = bound /\ heard' = heard
          /\ ackedFor' = ackedFor
      BY <2>1 DEF TakeEvent
    <3>2. \A p \in bound : Len(listeners[p]) \in Nat
      BY LenProperties DEF HybridInv, EventFits
    <3>3. QED
      BY <3>1, <3>2 DEF HybridInv, EventFits, AckedMeansHeard
  <2>2. QED
    BY <2>1, RunListenerStays, AckEventStays, SubscribeStays DEF HybridInv
<1>3. QED
  BY <1>1, <1>2, UpsetFits, RpcSame, CommandSame DEF HybridInv

-----------------------------------------------------------------------------
(* A message goes into the stream, or one of a command comes out: all the  *)
(* others stay, unless it was full.                                        *)
LEMMA StoreKeeps ==
  ASSUME CommandFits, NEW m \in {"command", "report"} \X Order, Store(m)
  PROVE  /\ stream' \in Seq({"command", "report"} \X Order) /\ Len(stream') <= StreamLimit
         /\ evicted' \in BOOLEAN /\ (evicted => evicted')
         /\ evicted' \/ (m \in ToSet(stream') /\ ToSet(stream) \subseteq ToSet(stream'))
<1> DEFINE Msg == {"command", "report"} \X Order
<1>1. stream \in Seq(Msg) /\ Len(stream) \in Nat /\ DOMAIN stream = 1 .. Len(stream)
      /\ Len(stream) <= StreamLimit
  BY LenProperties DEF CommandFits
<1>2. evicted' \in BOOLEAN /\ (evicted => evicted') /\ (Len(stream) = StreamLimit => evicted')
  BY Zenon DEF Store
<1>3. CASE Len(stream) = StreamLimit
  <2>1. stream' = Tail(stream) \o <<m>> /\ stream # <<>>
    BY <1>3, HybridBounds DEF Store
  <2>2. Tail(stream) \in Seq(Msg) /\ Len(Tail(stream)) = Len(stream) - 1
    BY <1>1, <2>1, HeadTailProperties
  <2>3. <<m>> \in Seq(Msg) /\ Len(<<m>>) = 1
    OBVIOUS
  <2>4. stream' \in Seq(Msg) /\ Len(stream') = Len(Tail(stream)) + Len(<<m>>)
    BY <2>1, <2>2, <2>3, ConcatProperties
  <2>5. Len(stream') = Len(stream)
    BY <1>1, <2>2, <2>3, <2>4
  <2>6. QED
    BY <1>1, <1>2, <1>3, <2>4, <2>5
<1>4. CASE Len(stream) # StreamLimit
  <2>1. stream' = Append(stream, m)
    BY <1>4 DEF Store
  <2>2. /\ stream' \in Seq(Msg) /\ Len(stream') = Len(stream) + 1
        /\ \A i \in 1 .. Len(stream) : stream'[i] = stream[i]
        /\ stream'[Len(stream) + 1] = m
    BY <1>1, <2>1, AppendProperties
  <2>3. DOMAIN stream' = 1 .. Len(stream) + 1
    BY <2>2, LenProperties
  <2>4. m \in ToSet(stream') /\ ToSet(stream) \subseteq ToSet(stream')
    <3>1. Len(stream) + 1 \in 1 .. Len(stream) + 1 /\ 1 .. Len(stream) \subseteq 1 .. Len(stream) + 1
      BY <1>1
    <3>2. QED
      BY <1>1, <2>2, <2>3, <3>1 DEF ToSet
  <2>5. Len(stream') <= StreamLimit
    <3>1. \A n, k \in Nat : n <= k /\ n # k => n + 1 <= k
      OBVIOUS
    <3>2. Len(stream) \in Nat /\ StreamLimit \in Nat /\ Len(stream) <= StreamLimit
      BY <1>1, HybridBounds
    <3>3. Len(stream) + 1 <= StreamLimit
      BY <1>4, <3>1, <3>2
    <3>4. QED
      BY <2>2, <3>3
  <2>6. QED
    BY <1>2, <2>2, <2>4, <2>5
<1>5. QED
  BY <1>3, <1>4

(* A message that is taken out of the stream leaves the others.            *)
LEMMA UnstoreKeeps ==
  ASSUME CommandFits, NEW m \in {"command", "report"} \X Order, Unstore(m)
  PROVE  /\ stream' \in Seq({"command", "report"} \X Order) /\ Len(stream') <= StreamLimit
         /\ \A x \in ToSet(stream) : x # m => x \in ToSet(stream')
<1> DEFINE Msg == {"command", "report"} \X Order
<1>1. stream \in Seq(Msg) /\ Len(stream) \in Nat /\ DOMAIN stream = 1 .. Len(stream)
      /\ Len(stream) <= StreamLimit
  BY LenProperties DEF CommandFits
<1>2. CASE stream' = stream
  BY <1>1, <1>2
<1>3. ASSUME NEW k \in DOMAIN stream, stream[k] = m, stream' = RemoveAt(stream, k)
      PROVE  /\ stream' \in Seq(Msg) /\ Len(stream') <= StreamLimit
             /\ \A x \in ToSet(stream) : x # m => x \in ToSet(stream')
  <2> DEFINE less == RemoveAt(stream, k)
  <2>1. k \in 1 .. Len(stream)
    BY <1>1
  <2>2. /\ less \in Seq(Msg) /\ Len(less) = Len(stream) - 1
        /\ \A i \in 1 .. Len(stream) - 1 : less[i] = stream[IF i < k THEN i ELSE i + 1]
    BY <1>1, <2>1, RemoveAtIs
  <2> HIDE DEF less
  <2>3. DOMAIN less = 1 .. Len(stream) - 1
    BY <2>2, LenProperties
  <2>4. ASSUME NEW i \in 1 .. Len(stream), stream[i] # m PROVE stream[i] \in ToSet(less)
    <3>1. i # k
      BY <1>3, <2>4
    <3>2. PICK j \in 1 .. Len(stream) - 1 : j = IF i < k THEN i ELSE i - 1
      BY <1>1, <2>1, <3>1
    <3>3. (IF j < k THEN j ELSE j + 1) = i
      BY <1>1, <2>1, <3>1, <3>2
    <3>4. less[j] = stream[i]
      BY <2>2, <3>3
    <3>5. QED
      BY <2>3, <3>4 DEF ToSet
  <2>5. \A x \in ToSet(stream) : x # m => x \in ToSet(less)
    BY <1>1, <2>4 DEF ToSet
  <2>6. Len(less) <= StreamLimit
    BY <1>1, <2>2, HybridBounds
  <2>7. stream' = less
    BY <1>3 DEF less
  <2>8. QED
    BY <2>2, <2>5, <2>6, <2>7
<1>4. QED
  BY <1>2, <1>3, Zenon DEF Unstore

(* The steps of commands keep their part.                                  *)
LEMMA OrderStays ==
  ASSUME CommandFits, NEW o \in Order,
         \/ SendOrder(o) \/ TakeOrder(o) \/ ReportProgress(o) \/ Complete(o)
         \/ AckOrder(o) \/ NakOrder(o) \/ GiveUpWaiting(o)
  PROVE  CommandFits'
<1>1. /\ held \in [Order -> {"no", "runs", "returned"}] /\ carriedOut \subseteq Order
      /\ answer \in [Order -> {"unsent", "waits", "told", "none"}]
      /\ \A p \in Order : held[p] = "returned" => p \in carriedOut
      /\ \A p \in Order : answer[p] = "unsent" \/ evicted \/ p \in carriedOut
                            \/ <<"command", p>> \in ToSet(stream)
  BY Zenon DEF CommandFits, OrdersSurvive
<1>2. <<"command", o>> \in {"command", "report"} \X Order
      /\ <<"report", o>> \in {"command", "report"} \X Order
  OBVIOUS
<1>3. /\ stream' \in Seq({"command", "report"} \X Order) /\ Len(stream') <= StreamLimit
      /\ evicted' \in BOOLEAN /\ (evicted => evicted')
  <2>1. CASE \E m \in {"command", "report"} \X Order : Store(m)
    BY <2>1, StoreKeeps
  <2>2. CASE Unstore(<<"command", o>>)
    <3>1. evicted' = evicted
      BY <2>2, Zenon DEF Unstore
    <3>2. evicted' \in BOOLEAN /\ (evicted => evicted')
      BY <3>1, Zenon DEF CommandFits
    <3>3. QED
      BY <1>2, <2>2, <3>2, UnstoreKeeps
  <2>3. CASE UNCHANGED <<stream, evicted>>
    BY <2>3, Zenon DEF CommandFits
  <2>4. QED
    BY <1>2, <2>1, <2>2, <2>3, Zenon
       DEF SendOrder, TakeOrder, ReportProgress, Complete, AckOrder, NakOrder, GiveUpWaiting
<1>4. /\ held' \in [Order -> {"no", "runs", "returned"}] /\ carriedOut' \subseteq Order
      /\ carriedOut \subseteq carriedOut'
      /\ \A p \in Order : held'[p] = "returned" => p \in carriedOut'
  <2>1. CASE Complete(o)
    BY <1>1, <2>1 DEF Complete, At
  <2>2. CASE /\ carriedOut' = carriedOut
             /\ held' = held \/ \E spot \in {"no", "runs"} : held' = [held EXCEPT ![o] = spot]
    BY <1>1, <2>2
  <2>3. QED
    BY <2>1, <2>2 DEF SendOrder, TakeOrder, ReportProgress, AckOrder, NakOrder, GiveUpWaiting, At
<1>5. /\ answer' \in [Order -> {"unsent", "waits", "told", "none"}]
      /\ \A p \in Order : answer[p] # "unsent" \/ (p # o \/ ~SendOrder(o)) => (answer'[p] = "unsent" <=> answer[p] = "unsent")
  <2>1. CASE SendOrder(o)
    BY <1>1, <2>1 DEF SendOrder
  <2>2. CASE ~SendOrder(o)
    BY <1>1, <2>2 DEF TakeOrder, ReportProgress, Complete, AckOrder, NakOrder, GiveUpWaiting
  <2>3. QED
    BY <2>1, <2>2
<1>6. \A p \in Order : answer'[p] = "unsent" \/ evicted' \/ p \in carriedOut'
                         \/ <<"command", p>> \in ToSet(stream')
  <2>1. CASE SendOrder(o)
    <3>1. evicted' \/ (<<"command", o>> \in ToSet(stream') /\ ToSet(stream) \subseteq ToSet(stream'))
      BY <1>2, <2>1, StoreKeeps DEF SendOrder
    <3>2. \A p \in Order : p # o => (answer'[p] = "unsent" <=> answer[p] = "unsent")
      BY <1>5
    <3>3. QED
      BY <1>1, <1>3, <1>4, <3>1, <3>2, Zenon
  <2>2. CASE ReportProgress(o) \/ Complete(o)
    <3>1. evicted' \/ ToSet(stream) \subseteq ToSet(stream')
      BY <1>2, <2>2, StoreKeeps DEF ReportProgress, Complete
    <3>2. \A p \in Order : answer'[p] = "unsent" <=> answer[p] = "unsent"
      BY <1>1, <2>2 DEF ReportProgress, Complete
    <3>3. QED
      BY <1>1, <1>3, <1>4, <3>1, <3>2, Zenon
  <2>3. CASE AckOrder(o)
    <3>1. \A x \in ToSet(stream) : x # <<"command", o>> => x \in ToSet(stream')
      BY <1>2, <2>3, UnstoreKeeps DEF AckOrder
    <3>2. \A p \in Order : <<"command", p>> = <<"command", o>> => p = o
      OBVIOUS
    <3>3. o \in carriedOut /\ answer' = answer
      BY <1>1, <2>3 DEF AckOrder
    <3>4. QED
      BY <1>1, <1>3, <1>4, <3>1, <3>2, <3>3, Zenon
  <2>4. CASE TakeOrder(o) \/ NakOrder(o) \/ GiveUpWaiting(o)
    <3>1. stream' = stream
      BY <2>4 DEF TakeOrder, NakOrder, GiveUpWaiting
    <3>2. \A p \in Order : answer'[p] = "unsent" <=> answer[p] = "unsent"
      BY <1>1, <2>4 DEF TakeOrder, NakOrder, GiveUpWaiting
    <3>3. QED
      BY <1>1, <1>3, <1>4, <3>1, <3>2, Zenon
  <2>5. QED
    BY <2>1, <2>2, <2>3, <2>4
<1>7. QED
  BY <1>3, <1>4, <1>5, <1>6, Zenon DEF CommandFits, OrdersSurvive

(* Every step keeps the invariant.                                         *)
LEMMA HybridInductive ==
  ASSUME HybridInv, [HybridNext]_hybridVars
  PROVE  HybridInv'
<1>1. CASE UNCHANGED hybridVars
  <2>1. UNCHANGED rpcVars /\ UNCHANGED eventVars /\ UNCHANGED commandVars /\ alive' = alive
        /\ upsets' = upsets
    BY <1>1, Zenon DEF hybridVars
  <2>2. QED
    BY <2>1, RpcSame, EventSame, CommandSame DEF HybridInv
<1>2. ASSUME NEW o \in Order,
             \/ SendOrder(o) \/ TakeOrder(o) \/ ReportProgress(o) \/ Complete(o)
             \/ AckOrder(o) \/ NakOrder(o) \/ GiveUpWaiting(o)
      PROVE  HybridInv'
  <2>1. CommandFits'
    BY <1>2, OrderStays DEF HybridInv
  <2>2. CommandOnly /\ (Upset \/ Well)
    BY <1>2, Zenon
       DEF SendOrder, TakeOrder, ReportProgress, Complete, AckOrder, NakOrder, GiveUpWaiting
  <2>3. QED
    BY <2>1, <2>2, UpsetFits, RpcSame, EventSame DEF HybridInv, CommandOnly
<1>3. QED
  BY <1>1, <1>2, PeerEndsStays, RpcStays, EventStays, Zenon
     DEF HybridNext, RpcNext, EventNext, OrderNext, SomePeerEnds

(* HybridSound, for every set of instances, listeners and commands and     *)
(* every size of the stream: no second run of a call, no event             *)
(* acknowledged unheard, no command lost while the stream has room.        *)
THEOREM HybridKeepsItsWord == HybridSpec => []HybridSound
<1>1. HybridInv => HybridSound
  <2> SUFFICES ASSUME HybridInv PROVE HybridSound
    OBVIOUS
  <2>1. bound \subseteq Peer
    BY DEF HybridInv, EventFits
  <2>2. HybridTypeOK
    BY <2>1, Zenon DEF HybridInv, RpcFits, EventFits, CommandFits, HybridTypeOK
  <2>3. QED
    BY <2>2, Zenon DEF HybridInv, RpcFits, EventFits, CommandFits, HybridSound
<1>2. QED
  BY <1>1, HybridBegins, HybridInductive, PTL DEF HybridSpec
=============================================================================
