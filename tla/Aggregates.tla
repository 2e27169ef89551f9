----------------------------- MODULE Aggregates -----------------------------
(***************************************************************************)
(* The service aggregate of one instance under the use cases that register *)
(* it and process its heartbeats, while the application changes it: who    *)
(* publishes the events it records.                                        *)
(*                                                                         *)
(* The repository hands out the object it keeps, so executions that        *)
(* overlap share it.  A use case suspends at the calls of the message bus  *)
(* only; everything before the first of them is one step.                  *)
(***************************************************************************)
EXTENDS Naturals, Sequences

CONSTANTS
  Execution,     \* the executions of use cases that can overlap
  MaxEvents,     \* bound: events recorded
  MaxLives,      \* bound: aggregates made by registrations
  MaxFailures    \* bound: failing calls of the message bus

ASSUME AggregateAssumption ==
  MaxEvents \in Nat /\ MaxLives \in Nat \ {0} /\ MaxFailures \in Nat

AggregateStatus == {"ACTIVE", "STANDBY", "UNHEALTHY", "SHUTDOWN"}
EventId == 1 .. MaxEvents
Life == 1 .. MaxLives

VARIABLES
  lives,      \* the aggregates made; the last is in the repository
  status,     \* of each
  pending,    \* the events each has not committed
  event,      \* what each event says: the status before it, and after it
  recorded,   \* the events recorded
  published,  \* the events published, each at least once
  swept,      \* the events cleared by an execution that never published them
  stage,      \* where an execution is
  works,      \* the aggregate an execution works on
  batch,      \* the events it has copied
  failures

aggregateVars == <<lives, status, pending, event, recorded, published, swept,
                   stage, works, batch, failures>>
logVars == <<lives, status, pending, event, recorded>>

AggregateTypeOK ==
  /\ lives \in 0 .. MaxLives /\ recorded \in 0 .. MaxEvents
  /\ status \in [Life -> AggregateStatus]
  /\ pending \in [Life -> SUBSET (1 .. recorded)]
  /\ event \in [EventId -> [before : AggregateStatus, after : AggregateStatus,
                            life : 0 .. MaxLives]]
  /\ {published, swept} \subseteq SUBSET (1 .. recorded)
  /\ stage \in [Execution -> {"idle", "bus", "publish"}]
  /\ works \in [Execution -> 0 .. MaxLives]
  /\ batch \in [Execution -> SUBSET (1 .. recorded)]
  /\ failures \in 0 .. MaxFailures

Blank == [before |-> "ACTIVE", after |-> "ACTIVE", life |-> 0]

AggregateInit ==
  /\ lives = 0 /\ recorded = 0 /\ failures = 0
  /\ status = [a \in Life |-> "ACTIVE"]
  /\ pending = [a \in Life |-> {}]
  /\ event = [e \in EventId |-> Blank]
  /\ published = {} /\ swept = {}
  /\ stage = [x \in Execution |-> "idle"]
  /\ works = [x \in Execution |-> 0]
  /\ batch = [x \in Execution |-> {}]

-----------------------------------------------------------------------------
(* The aggregate *)

(* A method of the aggregate: the statuses it passes through, the first    *)
(* the one it finds; every change of them records an event.                *)
Record(a, path) ==
  LET n == Len(path) - 1 IN
  /\ recorded + n <= MaxEvents /\ recorded' = recorded + n
  /\ status' = [status EXCEPT ![a] = path[n + 1]]
  /\ pending' = [pending EXCEPT ![a] = @ \cup (recorded + 1 .. recorded + n)]
  /\ event' = [e \in EventId |->
       IF e \in recorded + 1 .. recorded + n
       THEN [before |-> path[e - recorded], after |-> path[e - recorded + 1],
             life |-> a]
       ELSE event[e]]

Newest == lives
Quiet == UNCHANGED <<published, swept, stage, works, batch, failures>>

(* activate and mark_unhealthy, called outside the use cases too, standby, *)
(* shutdown; nothing leads out of SHUTDOWN.                                *)
Change(to) ==
  /\ Newest > 0 /\ status[Newest] \notin {to, "SHUTDOWN"}
  /\ Record(Newest, <<status[Newest], to>>)
  /\ UNCHANGED lives /\ Quiet

(* update_metadata records an event and keeps the status.                  *)
UpdateMetadata ==
  /\ Newest > 0 /\ status[Newest] # "SHUTDOWN"
  /\ Record(Newest, <<status[Newest], status[Newest]>>)
  /\ UNCHANGED lives /\ Quiet

(* heartbeat() takes UNHEALTHY back to ACTIVE, whatever it was before, and *)
(* bad metrics make it UNHEALTHY once more; its time was just refreshed.   *)
AfterHeartbeat(s, well) ==
  LET beaten == IF s = "UNHEALTHY" THEN <<s, "ACTIVE">> ELSE <<s>>
  IN IF well THEN beaten ELSE Append(beaten, "UNHEALTHY")

-----------------------------------------------------------------------------
(* The use cases *)

(* The registration puts its aggregate in the place of the one before.     *)
RegisterService(x) ==
  /\ stage[x] = "idle" /\ lives < MaxLives /\ recorded < MaxEvents
  /\ lives' = lives + 1 /\ recorded' = recorded + 1
  /\ pending' = [pending EXCEPT ![lives + 1] = {recorded + 1}]
  /\ event' = [event EXCEPT ![recorded + 1] = [Blank EXCEPT !.life = lives + 1]]
  /\ stage' = [stage EXCEPT ![x] = "bus"]
  /\ works' = [works EXCEPT ![x] = lives + 1]
  /\ UNCHANGED <<status, published, swept, batch, failures>>

(* A heartbeat of a service that is shut down, or unknown, is an error.    *)
Heartbeat(x, well) ==
  /\ stage[x] = "idle" /\ Newest > 0 /\ status[Newest] # "SHUTDOWN"
  /\ Record(Newest, AfterHeartbeat(status[Newest], well))
  /\ stage' = [stage EXCEPT ![x] = "bus"]
  /\ works' = [works EXCEPT ![x] = Newest]
  /\ UNCHANGED <<lives, published, swept, batch, failures>>

Leaves(x) ==
  /\ stage' = [stage EXCEPT ![x] = "idle"]
  /\ works' = [works EXCEPT ![x] = 0]
  /\ batch' = [batch EXCEPT ![x] = {}]

BusFails(x) ==
  /\ stage[x] # "idle" /\ failures < MaxFailures /\ failures' = failures + 1
  /\ Leaves(x) /\ UNCHANGED <<logVars, published, swept>>

(* register_service or send_heartbeat is done: the events are copied.      *)
CopyEvents(x) ==
  /\ stage[x] = "bus"
  /\ stage' = [stage EXCEPT ![x] = "publish"]
  /\ batch' = [batch EXCEPT ![x] = pending[works[x]]]
  /\ UNCHANGED <<logVars, published, swept, works, failures>>

(* Mutant of PublishNext: in any order.                                    *)
PublishAny(x) ==
  /\ stage[x] = "publish"
  /\ \E e \in batch[x] \ published : published' = published \cup {e}
  /\ UNCHANGED <<logVars, swept, stage, works, batch, failures>>

(* In the order of recording.                                              *)
PublishNext(x) ==
  /\ stage[x] = "publish"
  /\ \E e \in batch[x] \ published :
       /\ \A d \in batch[x] : d < e => d \in published
       /\ published' = published \cup {e}
  /\ UNCHANGED <<logVars, swept, stage, works, batch, failures>>

(* All events go, also those recorded since they were copied.              *)
Commit(x) ==
  /\ stage[x] = "publish" /\ batch[x] \subseteq published
  /\ pending' = [pending EXCEPT ![works[x]] = {}]
  /\ swept' = swept \cup ((pending[works[x]] \ batch[x]) \ published)
  /\ Leaves(x)
  /\ UNCHANGED <<lives, status, event, recorded, published, failures>>

UseCaseStep(x) == CopyEvents(x) \/ PublishNext(x) \/ Commit(x) \/ BusFails(x)

AggregateNext ==
  \/ \E x \in Execution :
       \/ RegisterService(x) \/ UseCaseStep(x)
       \/ \E well \in BOOLEAN : Heartbeat(x, well)
  \/ \E s \in AggregateStatus : Change(s)
  \/ UpdateMetadata

AggregateSpec == AggregateInit /\ [][AggregateNext]_aggregateVars

-----------------------------------------------------------------------------
(* Every event is pending, published, or was recorded between the copy and *)
(* the commit of one execution; one that fails leaves its events behind.   *)
EventsAccountedFor ==
  1 .. recorded = published \cup swept \cup UNION {pending[a] : a \in Life}

(* The events of an aggregate tell its history: each goes on from the      *)
(* status the one before led to, the last to its status, and nothing after *)
(* a shutdown.                                                             *)
Told(a) == {e \in 1 .. recorded : event[e].life = a}
EventsTellStatus ==
  \A a \in 1 .. lives : \E last \in Told(a) :
    /\ \A e \in Told(a) : e <= last
    /\ event[last].after = status[a]
    /\ \A d, e \in Told(a) :
         (d < e /\ \A b \in Told(a) : ~(d < b /\ b < e)) =>
           event[d].after = event[e].before /\ event[d].after # "SHUTDOWN"

(* An event is first published after those recorded before it in the same  *)
(* aggregate, whatever executions publish and fail between them.           *)
FirstPublishedInOrder ==
  \A e \in published, d \in 1 .. recorded :
    (d < e /\ event[d].life = event[e].life) => d \in published \cup swept

(* The types, and the events: none is lost, they tell a history, and they  *)
(* come out in its order.                                                  *)
AggregatesSound ==
  AggregateTypeOK /\ EventsAccountedFor /\ EventsTellStatus /\ FirstPublishedInOrder
=============================================================================
