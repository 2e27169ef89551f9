----------------------- MODULE ServiceLifecycleProofs -----------------------
(***************************************************************************)
(* Theorems about ServiceLifecycle, for every number of tasks, of starts   *)
(* and of failures: the types, and that is_healthy() does not outlive the  *)
(* heartbeat.                                                              *)
(***************************************************************************)
EXTENDS ServiceLifecycle, TLAPS

LEMMA Bounds ==
  /\ MaxFailures \in Nat /\ MaxFailures # 0
  /\ MaxStarts \in Nat /\ MaxChanges \in Nat /\ MaxTroubles \in Nat
  /\ Settable \subseteq Status
BY ServiceAssumption

(* A call of start() has the number of a start; once one has come to       *)
(* registering there is an instance record, and every loop sends one.      *)
Numbered ==
  \A t \in Task :
    /\ call[t] \in StartPlace => mine[t] \in Start
    /\ call[t] \in {"register", "join"} => current # 0
LoopsHold == \A n \in Start : Live(n) => held[n] # 0

(* A STARTED service that was never stopped and whose heartbeat has ended  *)
(* has as many failures on record as it may have.                          *)
BeatsOrFailed ==
  state = "STARTED" /\ ~shutdown => Beating \/ failures = MaxFailures

LifecycleInv == TypeOK /\ Numbered /\ LoopsHold /\ BeatsOrFailed

LEMMA LifecycleInit == Init => LifecycleInv
<1> SUFFICES ASSUME Init PROVE LifecycleInv
  OBVIOUS
<1>1. TypeOK
  <2>1. 0 \in 0 .. MaxStarts /\ 0 \in 0 .. MaxFailures
        /\ 0 \in 0 .. MaxChanges /\ 0 \in 0 .. MaxTroubles
    BY Bounds
  <2>2. /\ "ACTIVE" \in Status \ {"SHUTDOWN"} /\ "ACTIVE" \in Status
        /\ "INITIALIZING" \in State
    BY DEF Status, State
  <2>3. QED
    BY <2>1, <2>2 DEF Init, TypeOK
<1>2. Numbered
  BY DEF Init, Numbered, StartPlace
<1>3. LoopsHold
  BY DEF Init, LoopsHold, Live
<1>4. BeatsOrFailed
  BY DEF Init, BeatsOrFailed
<1>5. QED
  BY <1>1, <1>2, <1>3, <1>4 DEF LifecycleInv

-----------------------------------------------------------------------------
(* set_status and the two ends of a heartbeat that failed, whoever calls   *)
(* them.                                                                   *)
LEMMA SetStatusType ==
  ASSUME TypeOK, NEW s \in Status, SetStatus(s)
  PROVE  /\ info' \in Status
         /\ object' \in [Start -> Status \ {"SHUTDOWN"}]
         /\ failures' \in 0 .. MaxFailures
         /\ announce' \in Status \cup {None}
         /\ current' = current
         /\ failures' = failures \/ failures' = MaxFailures
         /\ s = "UNHEALTHY" => failures' = MaxFailures
BY Bounds DEF TypeOK, SetStatus, Status

LEMMA BeatFailsType ==
  ASSUME TypeOK, NEW n \in Start, BeatFails(n)
  PROVE  /\ info' \in Status
         /\ object' \in [Start -> Status \ {"SHUTDOWN"}]
         /\ failures' \in 0 .. MaxFailures
         /\ announce' \in Status \cup {None}
         /\ current' = current
         /\ \/ loop' = [loop EXCEPT ![n] = "rest"]
            \/ loop' = [loop EXCEPT ![n] = "off"] /\ failures' = MaxFailures
<1>1. "UNHEALTHY" \in Status
  BY DEF Status
<1>2. CASE failures + 1 < MaxFailures
  BY <1>2, Bounds DEF TypeOK, BeatFails
<1>3. CASE ~(failures + 1 < MaxFailures)
  <2>1. SetStatus("UNHEALTHY") /\ loop' = [loop EXCEPT ![n] = "off"]
    BY <1>3 DEF BeatFails
  <2>2. QED
    BY <1>1, <2>1, SetStatusType
<1>4. QED
  BY <1>2, <1>3

LEMMA GoType ==
  ASSUME TypeOK, NEW t \in Task, NEW from,
         NEW to \in {"idle"} \cup StartPlace \cup StopPlace, Go(t, from, to)
  PROVE  /\ call' \in [Task -> {"idle"} \cup StartPlace \cup StopPlace]
         /\ mine' \in [Task -> 0 .. MaxStarts]
         /\ call[t] = from /\ call' = [call EXCEPT ![t] = to]
         /\ to # "idle" => mine' = mine
         /\ \A u \in Task \ {t} : call'[u] = call[u] /\ mine'[u] = mine[u]
BY Bounds DEF TypeOK, Go

LEMMA TroubleType ==
  ASSUME TypeOK, Trouble \/ Well
  PROVE  troubles' \in 0 .. MaxTroubles
BY Bounds DEF TypeOK, Trouble, Well

-----------------------------------------------------------------------------
(* One lemma per group of actions: what the application and the registry   *)
(* do, what the loop does, what start() and what stop() do.                *)
LEMMA ApplicationStep ==
  ASSUME LifecycleInv,
         \/ \E s \in Settable : ChangeStatus(s)
         \/ Announce \/ RecordLost
  PROVE  LifecycleInv'
<1> USE DEF LifecycleInv
<1>1. ASSUME NEW s \in Settable, ChangeStatus(s) PROVE LifecycleInv'
  <2>1. s \in Status /\ SetStatus(s)
    BY <1>1, Bounds DEF ChangeStatus
  <2>2. TypeOK'
    BY <1>1, <2>1, SetStatusType, Bounds DEF ChangeStatus, TypeOK, callVars, loopVars
  <2>3. Numbered' /\ LoopsHold' /\ BeatsOrFailed'
    BY <1>1, <2>1, SetStatusType
       DEF ChangeStatus, callVars, loopVars, Numbered, LoopsHold, BeatsOrFailed, Beating, Live
  <2>4. QED
    BY <2>2, <2>3
<1>2. CASE Announce
  <2>1. troubles' \in 0 .. MaxTroubles
    BY <1>2, TroubleType DEF Announce
  <2>2. TypeOK'
    BY <1>2, <2>1 DEF Announce, TypeOK, callVars, loopVars
  <2>3. Numbered' /\ LoopsHold' /\ BeatsOrFailed'
    BY <1>2 DEF Announce, callVars, loopVars, Numbered, LoopsHold, BeatsOrFailed, Beating, Live
  <2>4. QED
    BY <2>2, <2>3
<1>3. CASE RecordLost
  <2>1. troubles' \in 0 .. MaxTroubles
    BY <1>3, TroubleType DEF RecordLost
  <2>2. TypeOK'
    BY <1>3, <2>1 DEF RecordLost, TypeOK, callVars, loopVars, statusVars
  <2>3. Numbered' /\ LoopsHold' /\ BeatsOrFailed'
    BY <1>3 DEF RecordLost, callVars, loopVars, statusVars,
                Numbered, LoopsHold, BeatsOrFailed, Beating, Live
  <2>4. QED
    BY <2>2, <2>3
<1>4. QED
  BY <1>1, <1>2, <1>3

LEMMA LoopStays ==
  ASSUME LifecycleInv, NEW n \in Start, LoopStep(n)
  PROVE  LifecycleInv'
<1> USE DEF LifecycleInv
<1>1. /\ UNCHANGED <<callVars, held, latest, shutdown, changes>>
      /\ loop \in [Start -> {"off", "rest", "bus", "look", "write"}]
      /\ loop[n] # "off"
  BY DEF LoopStep, TypeOK, Wake, BeatOnBus, BeatInRegistry, Written
<1>2. held[n] \in Start /\ object[held[n]] \in Status
  BY <1>1, Bounds DEF TypeOK, LoopsHold, Live, Start
<1>3. /\ info' \in Status
      /\ object' \in [Start -> Status \ {"SHUTDOWN"}]
      /\ failures' \in 0 .. MaxFailures
      /\ announce' \in Status \cup {None}
      /\ record' \in Status \cup {None}
      /\ current' = current
      /\ Trouble \/ Well
      /\ \/ \E place \in {"rest", "bus", "look", "write"} :
               loop' = [loop EXCEPT ![n] = place]
         \/ /\ loop' = [loop EXCEPT ![n] = "off"]
            /\ shutdown \/ failures' = MaxFailures
  <2>1. CASE Wake(n)
    BY <2>1 DEF Wake, TypeOK, statusVars
  <2>2. CASE BeatOnBus(n)
    <3>1. CASE BeatFails(n) /\ Trouble
      BY <2>2, <3>1, BeatFailsType DEF BeatOnBus, TypeOK
    <3>2. CASE ~(BeatFails(n) /\ Trouble)
      BY <2>2, <3>2 DEF BeatOnBus, TypeOK, statusVars
    <3>3. QED
      BY <3>1, <3>2
  <2>3. CASE BeatInRegistry(n)
    <3>1. CASE BeatFails(n) /\ Trouble /\ UNCHANGED record
      BY <3>1, BeatFailsType DEF TypeOK
    <3>2. CASE ~(BeatFails(n) /\ Trouble /\ UNCHANGED record)
      BY <1>2, <2>3, <3>2 DEF BeatInRegistry, Looked, TypeOK, statusVars
    <3>3. QED
      BY <3>1, <3>2
  <2>4. CASE Written(n)
    <3>1. CASE BeatFails(n) /\ Trouble
      BY <2>4, <3>1, BeatFailsType DEF Written, TypeOK
    <3>2. CASE ~(BeatFails(n) /\ Trouble)
      BY <2>4, <3>2, Bounds DEF Written, TypeOK
    <3>3. QED
      BY <3>1, <3>2
  <2>5. QED
    BY <2>1, <2>2, <2>3, <2>4 DEF LoopStep
<1>4. loop' \in [Start -> {"off", "rest", "bus", "look", "write"}]
  BY <1>1, <1>3
<1>5. troubles' \in 0 .. MaxTroubles
  BY <1>3, TroubleType
<1>6. TypeOK'
  BY <1>1, <1>3, <1>4, <1>5 DEF TypeOK, callVars
<1>7. Numbered'
  BY <1>1, <1>3 DEF Numbered, callVars
<1>8. LoopsHold'
  BY <1>1, <1>3 DEF LoopsHold, Live
<1>9. BeatsOrFailed'
  <2>1. CASE loop' = [loop EXCEPT ![n] = "off"] /\ (shutdown \/ failures' = MaxFailures)
    BY <1>1, <2>1 DEF BeatsOrFailed
  <2>2. CASE \E place \in {"rest", "bus", "look", "write"} : loop' = [loop EXCEPT ![n] = place]
    BY <1>1, <2>2 DEF BeatsOrFailed, Beating, Live
  <2>3. QED
    BY <1>3, <2>1, <2>2
<1>10. QED
  BY <1>6, <1>7, <1>8, <1>9

(* What a call of start() or stop() moves to another place keeps its       *)
(* number, and what it leaves alone keeps its part of the invariant.       *)
LEMMA NumberedGo ==
  ASSUME LifecycleInv, NEW t \in Task, NEW from,
         NEW to \in {"idle"} \cup StartPlace \cup StopPlace, Go(t, from, to),
         to \in StartPlace => from \in StartPlace,
         to \in {"register", "join"} => current' # 0,
         current' = 0 => current = 0
  PROVE  Numbered'
<1>1. TypeOK /\ Numbered
  BY DEF LifecycleInv
<1>2. /\ call[t] = from /\ call' = [call EXCEPT ![t] = to]
      /\ call \in [Task -> {"idle"} \cup StartPlace \cup StopPlace]
      /\ to # "idle" => mine' = mine
      /\ \A u \in Task \ {t} : call'[u] = call[u] /\ mine'[u] = mine[u]
  BY <1>1, GoType DEF TypeOK
<1>3. call'[t] = to /\ "idle" \notin StartPlace
  BY <1>2 DEF StartPlace
<1>4. to \in StartPlace => mine'[t] \in Start
  BY <1>1, <1>2, <1>3 DEF Numbered
<1>5. ASSUME NEW u \in Task
      PROVE  /\ call'[u] \in StartPlace => mine'[u] \in Start
             /\ call'[u] \in {"register", "join"} => current' # 0
  <2>1. CASE u = t
    BY <1>3, <1>4, <2>1
  <2>2. CASE u # t
    BY <1>1, <1>2, <2>2 DEF Numbered
  <2>3. QED
    BY <2>1, <2>2
<1>6. QED
  BY <1>5 DEF Numbered, Start

LEMMA StartStep ==
  ASSUME LifecycleInv, NEW t \in Task,
         \/ BeginStart(t) /\ UNCHANGED changes
         \/ Register(t) /\ UNCHANGED changes
         \/ Registered(t) /\ UNCHANGED changes
         \/ Joined(t) /\ UNCHANGED changes
         \/ OnStarted(t) /\ UNCHANGED changes
  PROVE  LifecycleInv'
<1>1. /\ TypeOK /\ Numbered /\ LoopsHold /\ BeatsOrFailed
      /\ UNCHANGED changes
      /\ StartPlace \cup {"idle"} \subseteq {"idle"} \cup StartPlace \cup StopPlace
      /\ {"on_start", "register", "join", "on_started"} \subseteq StartPlace
      /\ "idle" \notin StartPlace
  BY DEF LifecycleInv, StartPlace
<1>2. CASE BeginStart(t)
  <2>1. starts + 1 \in Start /\ starts + 1 \in 0 .. MaxStarts
    <3>1. starts \in 0 .. MaxStarts /\ starts < MaxStarts
      BY <1>1, <1>2 DEF BeginStart, TypeOK
    <3>2. QED
      BY <3>1, Bounds DEF Start
  <2>2. TypeOK'
    BY <1>1, <1>2, <2>1, Bounds DEF Well, BeginStart, TypeOK, State, loopVars, statusVars
  <2>3. Numbered'
    BY <1>1, <1>2, <2>1 DEF BeginStart, TypeOK, Numbered, Start, statusVars, StartPlace
  <2>4. LoopsHold' /\ BeatsOrFailed'
    BY <1>1, <1>2 DEF BeginStart, LoopsHold, BeatsOrFailed, Live, loopVars
  <2>5. QED
    BY <2>2, <2>3, <2>4 DEF LifecycleInv
<1>3. CASE Register(t)
  <2>1. /\ UNCHANGED <<loopVars, starts>>
        /\ \E to \in {"register", "idle"} : Go(t, "on_start", to) /\ (to = "register" => current' # 0)
        /\ MakeInstance(t) \/ UNCHANGED statusVars
        /\ state' = state \/ state' = "FAILED"
        /\ record' = record \/ record' = "ACTIVE"
        /\ Trouble \/ Well
        /\ mine[t] \in Start
    BY <1>1, <1>3 DEF Register, StartFails, Go, Numbered, MakeInstance, Start
  <2>2. /\ current' \in 0 .. MaxStarts
        /\ current' = 0 => current = 0
        /\ UNCHANGED <<info, failures, announce>>
        /\ object' \in [Start -> Status \ {"SHUTDOWN"}]
    <3>1. /\ current \in 0 .. MaxStarts
          /\ mine[t] \in 0 .. MaxStarts /\ mine[t] # 0
          /\ "ACTIVE" \in Status \ {"SHUTDOWN"}
      BY <1>1, <2>1 DEF TypeOK, Start, Status
    <3>2. QED
      BY <1>1, <2>1, <3>1 DEF MakeInstance, TypeOK, statusVars
  <2>3. /\ call' \in [Task -> {"idle"} \cup StartPlace \cup StopPlace]
        /\ mine' \in [Task -> 0 .. MaxStarts]
        /\ troubles' \in 0 .. MaxTroubles
    BY <1>1, <2>1, GoType, TroubleType
  <2>4. record' \in Status \cup {None} /\ state' \in State
    BY <1>1, <2>1 DEF TypeOK, State, Status
  <2>5. TypeOK'
    BY <1>1, <2>1, <2>2, <2>3, <2>4 DEF TypeOK, loopVars
  <2>6. Numbered'
    <3>1. PICK to \in {"register", "idle"} :
            Go(t, "on_start", to) /\ (to = "register" => current' # 0)
      BY <2>1
    <3>2. /\ to \in {"idle"} \cup StartPlace \cup StopPlace
          /\ to \in {"register", "join"} => current' # 0
      BY <1>1, <3>1
    <3>3. QED
      BY <1>1, <2>2, <3>1, <3>2, NumberedGo
  <2>7. LoopsHold' /\ BeatsOrFailed'
    BY <1>1, <2>1, <2>2 DEF LoopsHold, BeatsOrFailed, Beating, Live, loopVars
  <2>8. QED
    BY <2>5, <2>6, <2>7 DEF LifecycleInv
<1>4. CASE Registered(t) \/ OnStarted(t)
  <2>1. /\ UNCHANGED <<loopVars, statusVars, record, starts>>
        /\ \/ Go(t, "register", "join") /\ current # 0
           \/ Go(t, "register", "idle") \/ Go(t, "on_started", "idle")
        /\ state' = state \/ state' = "FAILED"
        /\ Trouble \/ Well
    BY <1>1, <1>4 DEF Registered, OnStarted, StartFails, Go, Numbered
  <2>2. /\ call' \in [Task -> {"idle"} \cup StartPlace \cup StopPlace]
        /\ mine' \in [Task -> 0 .. MaxStarts]
        /\ troubles' \in 0 .. MaxTroubles
    BY <1>1, <2>1, GoType, TroubleType
  <2>3. TypeOK'
    BY <1>1, <2>1, <2>2 DEF TypeOK, State, loopVars, statusVars
  <2>4. Numbered'
    BY <1>1, <2>1, NumberedGo DEF statusVars
  <2>5. LoopsHold' /\ BeatsOrFailed'
    BY <1>1, <2>1 DEF LoopsHold, BeatsOrFailed, Beating, Live, loopVars, statusVars
  <2>6. QED
    BY <2>3, <2>4, <2>5 DEF LifecycleInv
<1>5. CASE Joined(t)
  <2>1. /\ UNCHANGED <<statusVars, record, starts>>
        /\ \E to \in {"on_started", "idle"} : Go(t, "join", to)
        /\ \/ state' = "FAILED"
           \/ state' = "STARTED" /\ BeginLoop(t)
        /\ BeginLoop(t) \/ UNCHANGED loopVars
        /\ Trouble \/ Well
        /\ mine[t] \in Start /\ current # 0
    BY <1>1, <1>5 DEF Joined, StartFails, Go, Numbered
  <2>2. /\ call' \in [Task -> {"idle"} \cup StartPlace \cup StopPlace]
        /\ mine' \in [Task -> 0 .. MaxStarts]
        /\ troubles' \in 0 .. MaxTroubles
    BY <1>1, <2>1, GoType, TroubleType
  <2>3. /\ loop' \in [Start -> {"off", "rest", "bus", "look", "write"}]
        /\ held' \in [Start -> 0 .. MaxStarts]
        /\ latest' \in 0 .. MaxStarts /\ shutdown' \in BOOLEAN
    <3>1. mine[t] \in 0 .. MaxStarts /\ current \in 0 .. MaxStarts
          /\ latest \in 0 .. MaxStarts
      BY <1>1 DEF TypeOK
    <3>2. QED
      BY <1>1, <2>1, <3>1 DEF TypeOK, BeginLoop, loopVars
  <2>4. TypeOK'
    BY <1>1, <2>1, <2>2, <2>3 DEF TypeOK, State, statusVars
  <2>5. Numbered'
    BY <1>1, <2>1, NumberedGo DEF statusVars
  <2>6. LoopsHold'
    BY <1>1, <2>1 DEF LoopsHold, Live, BeginLoop, loopVars, TypeOK
  <2>7. BeatsOrFailed'
    BY <1>1, <2>1 DEF BeatsOrFailed, Beating, Live, BeginLoop, TypeOK
  <2>8. QED
    BY <2>4, <2>5, <2>6, <2>7 DEF LifecycleInv
<1>6. QED
  BY <1>2, <1>3, <1>4, <1>5

LEMMA StopStep ==
  ASSUME LifecycleInv, NEW t \in Task,
         \/ BeginStop(t) /\ UNCHANGED changes
         \/ EndHeartbeat(t) /\ UNCHANGED changes
         \/ Deregister(t) /\ UNCHANGED changes
         \/ Leave(t) /\ UNCHANGED changes
         \/ OnStopped(t) /\ UNCHANGED changes
  PROVE  LifecycleInv'
<1>1. /\ TypeOK /\ Numbered /\ LoopsHold /\ BeatsOrFailed
      /\ UNCHANGED <<info, object, current, failures, starts, changes, held, latest>>
      /\ Trouble \/ Well
  BY DEF LifecycleInv, BeginStop, EndHeartbeat, Deregister, Leave, OnStopped,
         loopVars, statusVars
<1>2. \E from \in StopPlace \cup {"idle"}, to \in StopPlace \cup {"idle"} : Go(t, from, to)
  BY DEF BeginStop, EndHeartbeat, Deregister, Leave, OnStopped, StopFails, StopPlace
<1>3. /\ state' \in {"STOPPING", "STOPPED"} \/ state' = state
      /\ announce' \in {announce, None} /\ record' \in {record, None}
      /\ \/ UNCHANGED <<loop, shutdown>>
         \/ StopHeartbeat
  BY DEF BeginStop, EndHeartbeat, Deregister, Leave, OnStopped, StopFails,
         loopVars, statusVars
<1>4. /\ call' \in [Task -> {"idle"} \cup StartPlace \cup StopPlace]
      /\ mine' \in [Task -> 0 .. MaxStarts]
      /\ troubles' \in 0 .. MaxTroubles
  BY <1>1, <1>2, GoType, TroubleType
<1>5. loop' \in [Start -> {"off", "rest", "bus", "look", "write"}] /\ shutdown' \in BOOLEAN
  BY <1>1, <1>3 DEF TypeOK, StopHeartbeat
<1>6. TypeOK'
  BY <1>1, <1>3, <1>4, <1>5 DEF TypeOK, State
<1>7. Numbered'
  BY <1>1, <1>2, NumberedGo DEF StartPlace, StopPlace
<1>8. LoopsHold'
  BY <1>1, <1>3 DEF LoopsHold, Live, StopHeartbeat
<1>9. BeatsOrFailed'
  BY <1>1, <1>3 DEF BeatsOrFailed, Beating, Live, StopHeartbeat
<1>10. QED
  BY <1>6, <1>7, <1>8, <1>9 DEF LifecycleInv

LEMMA LifecycleStays == Spec => []LifecycleInv
<1>1. ASSUME LifecycleInv, [Next]_vars PROVE LifecycleInv'
  <2>1. ASSUME NEW t \in Task, BeginCall(t) \/ CallStep(t) PROVE LifecycleInv'
    BY <1>1, <2>1, StartStep, StopStep DEF BeginCall, CallStep
  <2>2. ASSUME NEW n \in Start, LoopStep(n) PROVE LifecycleInv'
    BY <1>1, <2>2, LoopStays
  <2>3. CASE (\E s \in Settable : ChangeStatus(s)) \/ Announce \/ RecordLost
    BY <1>1, <2>3, ApplicationStep
  <2>4. CASE UNCHANGED vars
    BY <1>1, <2>4
       DEF vars, callVars, loopVars, statusVars, LifecycleInv, TypeOK, Numbered,
           LoopsHold, BeatsOrFailed, Beating, Live
  <2>5. QED
    BY <1>1, <2>1, <2>2, <2>3, <2>4 DEF Next
<1>2. QED
  BY <1>1, LifecycleInit, PTL DEF Spec

(* Whatever tasks start, stop, fail and set, every variable keeps its type:*)
(* an instance record never carries SHUTDOWN, and failures stay below      *)
(* _max_consecutive_failures.                                              *)
THEOREM LifecycleTypes == Spec => []TypeOK
BY LifecycleStays, PTL DEF LifecycleInv

(* is_healthy() does not outlive the heartbeat of a service that was not   *)
(* stopped, however many starts overlap.                                   *)
THEOREM HealthyServiceBeats == Spec => []HealthyBeats
<1>1. LifecycleInv => HealthyBeats
  BY Bounds DEF LifecycleInv, TypeOK, BeatsOrFailed, HealthyBeats, IsHealthy
<1>2. QED
  BY <1>1, LifecycleStays, PTL

-----------------------------------------------------------------------------
(* Once the event is set the loop that is _heartbeat_task sends no more:   *)
(* stop() cancelled it, or a later start() began it and it ends at its     *)
(* first wake.  The loops begun before it are not bound by this.           *)
LatestRests == shutdown /\ latest \in Start => loop[latest] \in {"off", "rest"}

LEMMA LatestRestsStays ==
  ASSUME TypeOK, LatestRests, [Next]_vars
  PROVE  LatestRests'
<1>1. /\ loop \in [Start -> {"off", "rest", "bus", "look", "write"}]
      /\ latest \in 0 .. MaxStarts /\ mine \in [Task -> 0 .. MaxStarts]
  BY DEF TypeOK
<1>2. CASE UNCHANGED loopVars
  BY <1>2 DEF LatestRests, loopVars
<1>3. ASSUME NEW t \in Task, CallStep(t) PROVE LatestRests'
  <2>1. UNCHANGED loopVars \/ BeginLoop(t) \/ (EndHeartbeat(t) /\ StopHeartbeat)
    BY <1>3 DEF CallStep, Register, Registered, Joined, OnStarted, EndHeartbeat, Deregister,
                Leave, OnStopped, loopVars
  <2>2. CASE BeginLoop(t)
    BY <1>1, <2>2 DEF BeginLoop, LatestRests
  <2>3. CASE EndHeartbeat(t) /\ StopHeartbeat
    BY <2>3 DEF EndHeartbeat, StopHeartbeat, LatestRests
  <2>4. QED
    BY <1>2, <2>1, <2>2, <2>3
<1>4. ASSUME NEW n \in Start, LoopStep(n) PROVE LatestRests'
  <2>1. UNCHANGED <<latest, shutdown>>
    BY <1>4 DEF LoopStep
  <2>2. \E place \in {"off", "rest", "bus", "look", "write"} : loop' = [loop EXCEPT ![n] = place]
    BY <1>4 DEF LoopStep, Wake, BeatOnBus, BeatInRegistry, Looked, Written, BeatFails
  <2>3. CASE n # latest
    BY <1>1, <2>1, <2>2, <2>3 DEF LatestRests
  <2>4. CASE n = latest /\ shutdown
    <3>1. loop[n] \in {"off", "rest"}
      BY <2>4 DEF LatestRests
    <3>2. Wake(n)
      BY <1>4, <3>1 DEF LoopStep, BeatOnBus, BeatInRegistry, Written
    <3>3. QED
      BY <1>1, <2>1, <2>4, <3>2 DEF Wake, LatestRests
  <2>5. QED
    BY <2>1, <2>3, <2>4 DEF LatestRests
<1>5. (\E t \in Task : BeginCall(t)) \/ (\E s \in Settable : ChangeStatus(s))
         \/ Announce \/ RecordLost \/ UNCHANGED vars
      => UNCHANGED loopVars
  BY DEF BeginCall, BeginStart, BeginStop, ChangeStatus, Announce, RecordLost, vars
<1>6. QED
  BY <1>2, <1>3, <1>4, <1>5 DEF Next

(* A record that stop() removed comes back only from a start, from a status*)
(* set after stop() had cancelled the update, or from a loop that is not   *)
(* the one stop() cancels.                                                 *)
THEOREM RemovedRecordStaysRemoved == Spec => RemovedStaysRemoved
<1> DEFINE Back == shutdown /\ state = "STOPPED" /\ record = None /\ record' # None
           Why == \/ announce # None
                  \/ \E t \in Task : call[t] \in StartPlace
                  \/ \E n \in Start : n # latest /\ Live(n)
<1>1. ASSUME LatestRests, [Next]_vars, Back PROVE Why
  <2>1. CASE Announce
    BY <2>1 DEF Announce
  <2>2. ASSUME NEW t \in Task, CallStep(t) PROVE Why
    <3>1. Register(t)
      BY <1>1, <2>2 DEF CallStep, Registered, Joined, OnStarted, EndHeartbeat, Deregister,
                        Leave, OnStopped
    <3>2. call[t] = "on_start"
      BY <3>1 DEF Register, StartFails, Go
    <3>3. QED
      BY <3>2 DEF StartPlace
  <2>3. ASSUME NEW n \in Start, LoopStep(n) PROVE Why
    <3>1. BeatInRegistry(n)
      BY <1>1, <2>3 DEF LoopStep, Wake, BeatOnBus, Written
    <3>2. loop[n] = "look"
      BY <3>1 DEF BeatInRegistry
    <3>3. n # latest
      BY <1>1, <3>2 DEF LatestRests
    <3>4. QED
      BY <3>2, <3>3 DEF Live
  <2>4. (\E t \in Task : BeginCall(t)) \/ (\E s \in Settable : ChangeStatus(s))
          \/ UNCHANGED vars
        => UNCHANGED record
    BY DEF BeginCall, BeginStart, BeginStop, ChangeStatus, vars
  <2>5. ~RecordLost
    BY <1>1 DEF RecordLost
  <2>6. QED
    BY <1>1, <2>1, <2>2, <2>3, <2>4, <2>5 DEF Next
<1>2. Init => LatestRests
  BY DEF Init, LatestRests
<1>3. LifecycleInv => TypeOK
  BY DEF LifecycleInv
<1>4. LatestRests /\ [Next]_vars => [Back => Why]_vars
  BY <1>1
<1>5. QED
  BY <1>2, <1>3, <1>4, LifecycleStays, LatestRestsStays, PTL DEF Spec, RemovedStaysRemoved
=============================================================================
