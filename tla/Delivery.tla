------------------------------ MODULE Delivery ------------------------------
(***************************************************************************)
(* Commands and events over JetStream: send_command and publish_event on   *)
(* one side, the subscriptions of register_command_handler and             *)
(* subscribe_event on the other.                                           *)
(*                                                                         *)
(* A publication is repeated when its reply does not parse, and each time  *)
(* stores a copy.  A copy is delivered until it is acknowledged: when the  *)
(* acknowledgement is long in coming it waits in the subscription once     *)
(* more, and the handler runs for it again even if the stream has got the  *)
(* late acknowledgement by then.  A subscription whose pattern has a       *)
(* wildcard is no JetStream subscription: it sees a copy once, and what it *)
(* acknowledges is the reply subject of the publisher, which then has an   *)
(* empty reply in place of its own.                                        *)
(***************************************************************************)
EXTENDS Naturals, FiniteSets

CONSTANTS
  Message,      \* the commands and events that are sent
  MaxCopies,    \* max_retries of a publication
  MaxFaults     \* bound: failing calls, raising handlers, crashes, timeouts

ASSUME DeliveryAssumption ==
  MaxCopies \in Nat \ {0} /\ MaxFaults \in Nat

Kind == {"event", "untracked", "tracked"}

VARIABLES
  kind,      \* an event, or a command with or without track_progress
  wildcard,  \* a wildcard subscription sees the events
  sender,    \* where the sending of a message is
  copies,    \* the publications that stored a copy
  tries,     \* the publications made
  open,      \* the sender's subscriptions to progress and completion
  told,      \* completion_data has arrived
  copy,      \* each copy at the stream: due to be delivered ("stored"),
             \* awaiting acknowledgement ("out"), or gone
  inbound,   \* its deliveries that wait in the subscription
  hand,      \* where the handler is with it
  overdue,   \* history: a copy was delivered again while it was held
  finished,  \* how often the handler ran to its end for the message
  completed, \* the last event of the command's progress: completed or failed
  faults

sendVars == <<kind, wildcard, sender, copies, tries, open, told>>
handleVars == <<copy, inbound, hand, overdue, finished, completed>>
deliveryVars == <<sendVars, handleVars, faults>>

Copy == 1 .. MaxCopies
Over == {"done", "timeout", "failed"}

DeliveryTypeOK ==
  /\ kind \in [Message -> Kind] /\ wildcard \in BOOLEAN
  /\ sender \in [Message -> {"idle", "publish", "wait", "close"} \cup Over]
  /\ {copies, tries} \subseteq [Message -> 0 .. MaxCopies]
  /\ open \in [Message -> SUBSET {"progress", "completion"}]
  /\ told \in [Message -> BOOLEAN]
  /\ copy \in [Message -> [Copy -> {"none", "stored", "out", "gone"}]]
  /\ inbound \in [Message -> [Copy -> Nat]]
  /\ hand \in [Message -> [Copy -> {"idle", "running", "report", "acking"}]]
  /\ overdue \in [Message -> BOOLEAN]
  /\ finished \in [Message -> Nat]
  /\ completed \in [Message -> {"nothing", "completed", "failed"}]
  /\ faults \in 0 .. MaxFaults

DeliveryInit ==
  /\ kind \in [Message -> Kind] /\ wildcard \in BOOLEAN
  /\ sender = [m \in Message |-> "idle"]
  /\ copies = [m \in Message |-> 0] /\ tries = [m \in Message |-> 0]
  /\ open = [m \in Message |-> {}]
  /\ told = [m \in Message |-> FALSE]
  /\ copy = [m \in Message |-> [k \in Copy |-> "none"]]
  /\ inbound = [m \in Message |-> [k \in Copy |-> 0]]
  /\ hand = [m \in Message |-> [k \in Copy |-> "idle"]]
  /\ overdue = [m \in Message |-> FALSE]
  /\ finished = [m \in Message |-> 0]
  /\ completed = [m \in Message |-> "nothing"]
  /\ faults = 0

Fails == faults < MaxFaults /\ faults' = faults + 1
Works == UNCHANGED faults

Event(m) == kind[m] = "event"
SenderAt(m, from, to) ==
  sender[m] = from /\ sender' = [sender EXCEPT ![m] = to]

-----------------------------------------------------------------------------
(* The sender *)

(* A tracked command first subscribes to its progress and its completion.  *)
BeginSend(m) ==
  /\ \/ Works /\ SenderAt(m, "idle", "publish")
        /\ open' = IF kind[m] = "tracked"
                   THEN [open EXCEPT ![m] = {"progress", "completion"}]
                   ELSE open
     \/ Fails /\ kind[m] = "tracked" /\ SenderAt(m, "idle", "failed")
        /\ \E s \in {{}, {"progress"}} : open' = [open EXCEPT ![m] = s]
  /\ UNCHANGED <<copies, tries, told, handleVars>>

Stored(m) ==
  /\ copies' = [copies EXCEPT ![m] = @ + 1]
  /\ copy' = [copy EXCEPT ![m][copies[m] + 1] = "stored"]

After(m) == IF kind[m] = "tracked" THEN "wait" ELSE "done"

Acknowledged(m) == Works /\ SenderAt(m, "publish", After(m)) /\ Stored(m)

(* The reply is empty: by the server, or by the acknowledgement, or the    *)
(* refusal, of the wildcard subscription that was quicker than the stream. *)
EmptyReply(m) ==
  /\ IF Event(m) /\ wildcard THEN Works ELSE Fails
  /\ SenderAt(m, "publish",
       IF tries[m] + 1 < MaxCopies THEN "publish" ELSE "failed")
  /\ Stored(m)

(* Any other error is not tried again, whether or not a copy was stored.   *)
PublishRaises(m) ==
  /\ Fails /\ SenderAt(m, "publish", "failed")
  /\ Stored(m) \/ UNCHANGED <<copies, copy>>

Publish(m) ==
  /\ Acknowledged(m) \/ EmptyReply(m) \/ PublishRaises(m)
  /\ tries' = [tries EXCEPT ![m] = @ + 1]
  /\ UNCHANGED <<open, told, inbound, hand, overdue, finished, completed>>

(* Completion ends the wait, as does the timeout of the command; what came *)
(* while the subscriptions were closed still counts.                       *)
StopWaiting(m) ==
  /\ SenderAt(m, "wait", "close")
  /\ IF told[m] THEN Works ELSE Fails
  /\ UNCHANGED <<copies, tries, open, told, handleVars>>

CloseSubscriptions(m) ==
  /\ \/ /\ Works /\ SenderAt(m, "close", IF told[m] THEN "done" ELSE "timeout")
        /\ open' = [open EXCEPT ![m] = {}]
     \/ /\ Fails /\ SenderAt(m, "close", "failed")
        /\ \E s \in {{"completion"}, {"progress", "completion"}} :
             open' = [open EXCEPT ![m] = s]
  /\ UNCHANGED <<copies, tries, told, handleVars>>

SenderStep(m) ==
  /\ Publish(m) \/ StopWaiting(m) \/ CloseSubscriptions(m)
  /\ UNCHANGED <<kind, wildcard>>

SendMessage(m) == BeginSend(m) /\ UNCHANGED <<kind, wildcard>>

-----------------------------------------------------------------------------
(* The JetStream subscription: one message at a time *)

Busy == \E m \in Message, k \in Copy : hand[m][k] # "idle"

CopyAt(m, k, to) == copy' = [copy EXCEPT ![m][k] = to]
HandAt(m, k, from, to) ==
  hand[m][k] = from /\ hand' = [hand EXCEPT ![m][k] = to]
Underway(m, k) == inbound[m][k] > 0 \/ hand[m][k] # "idle"

Deliver(m, k) ==
  /\ copy[m][k] = "stored" /\ CopyAt(m, k, "out")
  /\ inbound' = [inbound EXCEPT ![m][k] = @ + 1]
  /\ UNCHANGED <<hand, overdue, finished, completed, told>> /\ Works

(* ack_wait: a copy is due again if it is not acknowledged in time, though *)
(* the subscriber may only be slow.                                        *)
AckWaitPasses(m, k) ==
  /\ copy[m][k] = "out" /\ CopyAt(m, k, "stored")
  /\ \/ Underway(m, k) /\ Fails /\ overdue' = [overdue EXCEPT ![m] = TRUE]
     \/ ~Underway(m, k) /\ Works /\ UNCHANGED overdue
  /\ UNCHANGED <<inbound, hand, finished, completed, told>>

TakeCopy(m, k) ==
  /\ ~Busy /\ inbound[m][k] > 0
  /\ inbound' = [inbound EXCEPT ![m][k] = @ - 1]
  /\ HandAt(m, k, "idle", "running")
  /\ UNCHANGED <<copy, overdue, finished, completed, told>> /\ Works

(* Mutant of Refused: the stream is told to give the copy up.              *)
RefusedForGood(m, k, from) == HandAt(m, k, from, "idle") /\ CopyAt(m, k, "none")

(* nak, or nothing when that fails too.  The stream delivers the copy      *)
(* again, unless it has an acknowledgement already.                        *)
Refused(m, k, from) ==
  /\ HandAt(m, k, from, "idle")
  /\ \/ copy[m][k] = "out" /\ CopyAt(m, k, "stored")
     \/ UNCHANGED copy

(* Mutant of HandlerRuns: a failed publication of the outcome is passed    *)
(* over after the run.                                                     *)
HandlerRunsOn(m, k) ==
  /\ finished' = [finished EXCEPT ![m] = @ + 1]
  /\ HandAt(m, k, "running", IF Event(m) THEN "acking" ELSE "report")
  /\ \/ Works /\ completed' = [completed EXCEPT ![m] = "completed"]
     \/ Fails /\ completed' = [completed EXCEPT ![m] = "failed"]
  /\ UNCHANGED <<copy, told>>

(* A handler that is a CommandProcessingUseCase says how the run ended; if *)
(* "completed" cannot be published it says "failed", and the run has, too. *)
Says(m, outcome) ==
  completed' = [completed EXCEPT ![m] = IF Event(m) THEN @ ELSE outcome]

HandlerRuns(m, k) ==
  /\ \/ /\ Works /\ finished' = [finished EXCEPT ![m] = @ + 1]
        /\ HandAt(m, k, "running", IF Event(m) THEN "acking" ELSE "report")
        /\ Says(m, "completed") /\ UNCHANGED copy
     \/ /\ Fails /\ Refused(m, k, "running")
        /\ finished' = [finished EXCEPT ![m] = @ + 1] \/ UNCHANGED finished
        /\ Says(m, "failed") \/ UNCHANGED completed
  /\ UNCHANGED told

(* The completion is a plain message: nobody may be subscribed any more.   *)
ReportCompletion(m, k) ==
  /\ \/ /\ Works /\ HandAt(m, k, "report", "acking") /\ UNCHANGED copy
        /\ told' = [told EXCEPT ![m] = @ \/ "completion" \in open[m]]
     \/ Fails /\ HandAt(m, k, "report", "acking") /\ UNCHANGED <<copy, told>>
     \/ Fails /\ Refused(m, k, "report") /\ UNCHANGED told
  /\ UNCHANGED <<finished, completed>>

(* The stream takes an acknowledgement at any time, also one that comes    *)
(* after it has delivered the copy once more.                              *)
Acknowledge(m, k) ==
  /\ \/ Works /\ HandAt(m, k, "acking", "idle") /\ CopyAt(m, k, "gone")
     \/ Fails /\ Refused(m, k, "acking")
  /\ UNCHANGED <<finished, completed, told>>

(* The process of the subscription ends; what it held comes again when its *)
(* acknowledgement has been waited for.                                    *)
SubscriberRestarts ==
  /\ Fails
  /\ inbound' = [m \in Message |-> [k \in Copy |-> 0]]
  /\ hand' = [m \in Message |-> [k \in Copy |-> "idle"]]
  /\ UNCHANGED <<sendVars, copy, overdue, finished, completed>>

HandlerStep(m, k) ==
  /\ \/ Deliver(m, k) \/ AckWaitPasses(m, k) \/ TakeCopy(m, k)
     \/ (HandlerRuns(m, k) \/ ReportCompletion(m, k) \/ Acknowledge(m, k))
          /\ UNCHANGED <<inbound, overdue>>
  /\ UNCHANGED <<kind, wildcard, sender, copies, tries, open>>

DeliveryNext ==
  \/ \E m \in Message : SendMessage(m) \/ SenderStep(m)
  \/ \E m \in Message, k \in Copy : HandlerStep(m, k)
  \/ SubscriberRestarts

DeliverySpec == DeliveryInit /\ [][DeliveryNext]_deliveryVars

(* The event loops run, calls return or fail, and the stream delivers in   *)
(* its order, so that no copy is passed over for ever.                     *)
DeliveryFairness ==
  /\ \A m \in Message : WF_deliveryVars(SenderStep(m))
  /\ \A m \in Message, k \in Copy : SF_deliveryVars(HandlerStep(m, k))

-----------------------------------------------------------------------------
(* A copy leaves the stream only after the handler ran to its end.         *)
GoneMeansHandled ==
  \A m \in Message, k \in Copy : copy[m][k] = "gone" => finished[m] > 0

(* When nothing of a command is left in the stream, it was last reported   *)
(* completed, however often a run of it failed or said so before; unless a *)
(* copy was delivered again while the subscriber still held it, for that   *)
(* run may fail after the acknowledgement of the first.                    *)
LastReportTrue ==
  \A m \in Message :
    (~Event(m) /\ ~overdue[m] /\ copies[m] > 0
      /\ \A k \in 1 .. copies[m] : copy[m][k] = "gone") =>
        completed[m] = "completed"

(* A sender that is told of a completion was sending what was done, and a  *)
(* send that ends without an error holds no subscription.                  *)
ToldTrue == \A m \in Message : told[m] => finished[m] > 0
SubscriptionsEnd ==
  \A m \in Message : sender[m] \in {"done", "timeout"} => open[m] = {}

(* The types, and what the stream, the reports and the sender say of the   *)
(* handlers.                                                               *)
DeliverySound ==
  DeliveryTypeOK /\ GoneMeansHandled /\ LastReportTrue /\ ToldTrue /\ SubscriptionsEnd

(* What was published is handled: by the copy that was acknowledged to the *)
(* publisher, and also by those it never learned of.                       *)
StoredIsHandled ==
  \A m \in Message, k \in Copy :
    (copy[m][k] = "stored") ~> (copy[m][k] = "gone")
=============================================================================
