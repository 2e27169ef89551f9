-------------------------- MODULE ServiceLifecycle --------------------------
(***************************************************************************)
(* The base class Service: start(), stop(), the heartbeat loop and the     *)
(* status updates of one instance, with the record it has in the registry. *)
(*                                                                         *)
(* start() and stop() may be called by several tasks, and overlap.  A step *)
(* runs a coroutine from an await to the next; a put or a delete takes     *)
(* effect when it is sent, in the order of sending, and the reply comes    *)
(* later or not at all.                                                    *)
(***************************************************************************)
EXTENDS Naturals

CONSTANTS
  Task,        \* the tasks that call start() and stop()
  None,        \* no record, no status
  Settable,    \* bound: the statuses the application passes to set_status
  MaxFailures, \* _max_consecutive_failures
  MaxStarts,   \* bound: calls of start() that are not refused
  MaxChanges,  \* bound: calls of set_status by the application
  MaxTroubles  \* bound: failing calls, raising hooks and lost records

Status == {"ACTIVE", "STANDBY", "UNHEALTHY", "SHUTDOWN"}

ASSUME ServiceAssumption ==
  /\ None \notin Status /\ Settable \subseteq Status
  /\ MaxFailures \in Nat \ {0}
  /\ MaxStarts \in Nat /\ MaxChanges \in Nat /\ MaxTroubles \in Nat

Start == 1 .. MaxStarts

VARIABLES
  state,     \* the lifecycle state
  call,      \* where the call of a task is
  mine,      \* the number of the start a task is in
  info,      \* _info.status
  object,    \* the status in the ServiceInstance each start has made
  current,   \* _service_instance: the start that made it (0: none)
  loop,      \* where the heartbeat loop each start has begun is
  held,      \* the ServiceInstance the loop sends
  latest,    \* _heartbeat_task: the loop begun last (0: none)
  shutdown,  \* _shutdown_event is set
  failures,  \* _consecutive_failures
  announce,  \* what the pending status update will write
  record,    \* the status in the registry
  starts, changes, troubles

callVars == <<state, call, mine, starts>>
loopVars == <<loop, held, latest, shutdown>>
statusVars == <<info, object, current, failures, announce>>
vars == <<callVars, loopVars, statusVars, record, changes, troubles>>

State == {"INITIALIZING", "STARTING", "STARTED", "STOPPING", "STOPPED",
          "FAILED"}
StartPlace == {"on_start", "register", "join", "on_started"}
StopPlace == {"on_stop", "cancel", "leave", "on_stopped"}

TypeOK ==
  /\ state \in State
  /\ call \in [Task -> {"idle"} \cup StartPlace \cup StopPlace]
  /\ mine \in [Task -> 0 .. MaxStarts]
  /\ info \in Status
  /\ object \in [Start -> Status \ {"SHUTDOWN"}]
  /\ {current, latest, starts} \subseteq 0 .. MaxStarts
  /\ loop \in [Start -> {"off", "rest", "bus", "look", "write"}]
  /\ held \in [Start -> 0 .. MaxStarts]
  /\ shutdown \in BOOLEAN
  /\ failures \in 0 .. MaxFailures
  /\ {announce, record} \subseteq Status \cup {None}
  /\ changes \in 0 .. MaxChanges
  /\ troubles \in 0 .. MaxTroubles

Init ==
  /\ state = "INITIALIZING"
  /\ call = [t \in Task |-> "idle"]
  /\ mine = [t \in Task |-> 0]
  /\ info = "ACTIVE"
  /\ object = [n \in Start |-> "ACTIVE"]
  /\ current = 0 /\ latest = 0 /\ starts = 0
  /\ loop = [n \in Start |-> "off"]
  /\ held = [n \in Start |-> 0]
  /\ shutdown = FALSE
  /\ failures = 0
  /\ announce = None /\ record = None
  /\ changes = 0 /\ troubles = 0

Trouble == troubles < MaxTroubles /\ troubles' = troubles + 1
Well == UNCHANGED troubles

Go(t, from, to) ==
  /\ call[t] = from /\ call' = [call EXCEPT ![t] = to]
  /\ mine' = IF to = "idle" THEN [mine EXCEPT ![t] = 0] ELSE mine
Live(n) == loop[n] # "off"

-----------------------------------------------------------------------------
(* Status *)

(* set_status: the instance record refuses SHUTDOWN, and the error comes   *)
(* after _info was changed and before anything is announced.               *)
SetStatus(s) ==
  /\ info' = s
  /\ failures' = IF s = "UNHEALTHY" THEN MaxFailures ELSE failures
  /\ IF current # 0 /\ s # "SHUTDOWN"
     THEN /\ object' = [object EXCEPT ![current] = s]
          /\ announce' = s
     ELSE UNCHANGED <<object, announce>>
  /\ UNCHANGED current

ChangeStatus(s) ==
  /\ changes < MaxChanges /\ changes' = changes + 1
  /\ SetStatus(s)
  /\ UNCHANGED <<callVars, loopVars, record, troubles>>

(* _update_registry_status: a failure is logged and forgotten.             *)
Announce ==
  /\ announce # None /\ announce' = None
  /\ \/ Well /\ record' = announce
     \/ Trouble /\ UNCHANGED record
  /\ UNCHANGED <<callVars, loopVars, info, object, current, failures, changes>>

RecordLost ==
  /\ record # None /\ record' = None /\ Trouble
  /\ UNCHANGED <<callVars, loopVars, statusVars, changes>>

-----------------------------------------------------------------------------
(* The heartbeat loop *)

(* Mutant of BeatFails: the loop ends one failure early.                   *)
BeatFailsEarly(n) ==
  IF failures + 1 < MaxFailures - 1
  THEN /\ failures' = failures + 1
       /\ loop' = [loop EXCEPT ![n] = "rest"]
       /\ UNCHANGED <<info, object, current, announce>>
  ELSE /\ loop' = [loop EXCEPT ![n] = "off"]
       /\ failures' = failures + 1
       /\ UNCHANGED <<info, object, current, announce>>

BeatFails(n) ==
  IF failures + 1 < MaxFailures
  THEN /\ failures' = failures + 1
       /\ loop' = [loop EXCEPT ![n] = "rest"]
       /\ UNCHANGED <<info, object, current, announce>>
  ELSE /\ loop' = [loop EXCEPT ![n] = "off"]
       /\ SetStatus("UNHEALTHY")

Wake(n) ==
  /\ loop[n] = "rest"
  /\ loop' = [loop EXCEPT ![n] = IF shutdown THEN "off" ELSE "bus"]
  /\ UNCHANGED <<statusVars, record>> /\ Well

BeatOnBus(n) ==
  /\ loop[n] = "bus"
  /\ \/ Well /\ loop' = [loop EXCEPT ![n] = "look"] /\ UNCHANGED statusVars
     \/ Trouble /\ BeatFails(n)
  /\ UNCHANGED record

(* Mutant of Looked: only a record that is found is written.               *)
LookedUnlessLost(n) ==
  /\ loop' = [loop EXCEPT ![n] = "write"]
  /\ record' = IF record = None THEN None ELSE object[held[n]]

(* update_heartbeat: whether the record is found or was lost, it is put.   *)
Looked(n) ==
  /\ loop' = [loop EXCEPT ![n] = "write"]
  /\ record' = object[held[n]]

BeatInRegistry(n) ==
  /\ loop[n] = "look"
  /\ \/ Well /\ Looked(n) /\ UNCHANGED statusVars
     \/ Trouble /\ BeatFails(n) /\ UNCHANGED record

Written(n) ==
  /\ loop[n] = "write"
  /\ \/ /\ Well
        /\ failures' = 0
        /\ loop' = [loop EXCEPT ![n] = "rest"]
        /\ UNCHANGED <<info, object, current, announce>>
     \/ Trouble /\ BeatFails(n)
  /\ UNCHANGED record

LoopStep(n) ==
  /\ Wake(n) \/ BeatOnBus(n) \/ BeatInRegistry(n) \/ Written(n)
  /\ UNCHANGED <<callVars, held, latest, shutdown, changes>>

-----------------------------------------------------------------------------
(* start() *)

BeginStart(t) ==
  /\ state \in {"INITIALIZING", "STOPPED"} /\ starts < MaxStarts
  /\ call[t] = "idle" /\ call' = [call EXCEPT ![t] = "on_start"]
  /\ state' = "STARTING"
  /\ starts' = starts + 1
  /\ mine' = [mine EXCEPT ![t] = starts + 1]
  /\ UNCHANGED <<loopVars, statusVars, record>> /\ Well

(* _handle_start_failure: FAILED whatever the state was; nothing is undone.*)
StartFails(t, from) == Go(t, from, "idle") /\ state' = "FAILED"

MakeInstance(t) ==
  /\ current' = mine[t]
  /\ object' = [object EXCEPT ![mine[t]] = "ACTIVE"]
  /\ UNCHANGED <<info, failures, announce>>

Register(t) ==
  /\ \/ /\ Well /\ Go(t, "on_start", "register") /\ UNCHANGED state
        /\ MakeInstance(t) /\ record' = "ACTIVE"
     \/ /\ Trouble                  \* the put is lost, or on_start raises
        /\ StartFails(t, "on_start")
        /\ MakeInstance(t) \/ UNCHANGED statusVars
        /\ UNCHANGED record
  /\ UNCHANGED <<loopVars, starts>>

Registered(t) ==
  /\ \/ Well /\ Go(t, "register", "join") /\ UNCHANGED state
     \/ Trouble /\ StartFails(t, "register")
  /\ UNCHANGED <<loopVars, statusVars, record, starts>>

BeginLoop(t) ==
  /\ loop' = [loop EXCEPT ![mine[t]] = "rest"]
  /\ held' = [held EXCEPT ![mine[t]] = current]
  /\ latest' = mine[t]
  /\ UNCHANGED shutdown

(* The handlers are subscribed; heartbeat and STARTED follow at once,      *)
(* unless stop() has left STARTING meanwhile.                              *)
Joined(t) ==
  /\ \/ /\ Well
        /\ \/ state = "STARTING" /\ state' = "STARTED"
              /\ Go(t, "join", "on_started")
           \/ state # "STARTING" /\ StartFails(t, "join")
        /\ BeginLoop(t)
     \/ Trouble /\ StartFails(t, "join") /\ UNCHANGED loopVars
  /\ UNCHANGED <<statusVars, record, starts>>

OnStarted(t) ==
  /\ \/ Well /\ Go(t, "on_started", "idle") /\ UNCHANGED state
     \/ Trouble /\ StartFails(t, "on_started")
  /\ UNCHANGED <<loopVars, statusVars, record, starts>>

-----------------------------------------------------------------------------
(* stop() *)

BeginStop(t) ==
  /\ state \in {"STARTED", "STARTING", "FAILED", "INITIALIZING"}
  /\ Go(t, "idle", "on_stop")
  /\ state' = "STOPPING"
  /\ UNCHANGED <<loopVars, statusVars, record, starts>> /\ Well

(* _handle_stop_failure: STOPPED, however far stop() had come.             *)
StopFails(t, from) == Go(t, from, "idle") /\ state' = "STOPPED"

(* Mutant of StopHeartbeat: the loop is told to end, and not cancelled.    *)
StopHeartbeatGently == shutdown' = TRUE /\ UNCHANGED loop

(* Mutant of StopHeartbeat: the event is not set.                          *)
StopLatestOnly ==
  /\ loop' = [n \in Start |-> IF n = latest THEN "off" ELSE loop[n]]
  /\ UNCHANGED shutdown

StopHeartbeat ==
  /\ shutdown' = TRUE
  /\ loop' = [n \in Start |-> IF n = latest THEN "off" ELSE loop[n]]

EndHeartbeat(t) ==
  /\ \/ Well /\ Go(t, "on_stop", "cancel") /\ StopHeartbeat /\ UNCHANGED state
     \/ Trouble /\ StopFails(t, "on_stop") /\ UNCHANGED <<loop, shutdown>>
  /\ UNCHANGED <<held, latest, statusVars, record, starts>>

(* _cancel_status_update_task, then deregister, whose failure is logged.   *)
Deregister(t) ==
  /\ Go(t, "cancel", "leave")
  /\ announce' = None
  /\ \/ Well /\ record' = IF current = 0 THEN record ELSE None
     \/ Trouble /\ current # 0 /\ UNCHANGED record
  /\ UNCHANGED <<loopVars, info, object, current, failures>>
  /\ UNCHANGED <<state, starts>>

Leave(t) ==
  /\ \/ /\ Well /\ state = "STOPPING" /\ state' = "STOPPED"
        /\ Go(t, "leave", "on_stopped")
     \/ Well /\ state # "STOPPING" /\ StopFails(t, "leave")
     \/ Trouble /\ StopFails(t, "leave")
  /\ UNCHANGED <<loopVars, statusVars, record, starts>>

OnStopped(t) ==
  /\ \/ Well /\ Go(t, "on_stopped", "idle") /\ UNCHANGED state
     \/ Trouble /\ StopFails(t, "on_stopped")
  /\ UNCHANGED <<loopVars, statusVars, record, starts>>

CallStep(t) ==
  /\ \/ Register(t) \/ Registered(t) \/ Joined(t) \/ OnStarted(t)
     \/ EndHeartbeat(t) \/ Deregister(t) \/ Leave(t) \/ OnStopped(t)
  /\ UNCHANGED changes

BeginCall(t) == (BeginStart(t) \/ BeginStop(t)) /\ UNCHANGED changes

Next ==
  \/ \E t \in Task : BeginCall(t) \/ CallStep(t)
  \/ \E n \in Start : LoopStep(n)
  \/ \E s \in Settable : ChangeStatus(s)
  \/ Announce
  \/ RecordLost

Spec == Init /\ [][Next]_vars

(* The event loop runs what is ready, and calls return or fail.            *)
Fairness ==
  /\ \A t \in Task : WF_vars(CallStep(t))
  /\ \A n \in Start : WF_vars(LoopStep(n))
  /\ WF_vars(Announce)

FairSpec == Spec /\ Fairness

-----------------------------------------------------------------------------
IsHealthy ==
  /\ state = "STARTED" /\ failures < MaxFailures
  /\ info \notin {"UNHEALTHY", "SHUTDOWN"}

Beating == \E n \in Start : Live(n)

(* is_healthy() does not outlive the heartbeat: a loop that gave up leaves *)
(* its failures behind, whatever status the application sets afterwards.   *)
(* Until a stop(): the event it sets is never cleared.                     *)
HealthyBeats == IsHealthy /\ ~shutdown => Beating

(* A record that was removed by stop() comes back only from a start, from  *)
(* a status set after stop() had cancelled the update, or from a loop that *)
(* an earlier stop() left behind when its hook raised.                     *)
RemovedStaysRemoved ==
  [][(shutdown /\ state = "STOPPED" /\ record = None /\ record' # None) =>
       \/ announce # None
       \/ \E t \in Task : call[t] \in StartPlace
       \/ \E n \in Start : n # latest /\ Live(n)]_vars

(* Once stop() has passed its hook the service falls silent, unless it is  *)
(* being started again: also a loop that is _heartbeat_task no more ends,  *)
(* left behind by an earlier stop() whose hook raised.                     *)
StopEndsBeats ==
  (\E t \in Task : call[t] = "cancel")
    ~> (~Beating \/ \E t \in Task : call[t] \in StartPlace)

(* The registry follows a service that beats: a record that expired or was *)
(* deleted returns, and an UNHEALTHY status reaches it although the update *)
(* that set_status sends may fail, with the next heartbeat.                *)
Behind ==
  \E n \in Start :
    /\ Live(n)
    /\ record = None \/ (object[held[n]] = "UNHEALTHY" /\ record # "UNHEALTHY")

RecordFollows == Behind ~> ~Behind
=============================================================================
