------------------------------- MODULE Hybrid -------------------------------
(***************************************************************************)
(* The hybrid reference implementation, HybridNATSDemo: calls answered by  *)
(* every instance of a service, events kept in a stream and handed to the  *)
(* handlers of one instance, commands in a work queue of limited length    *)
(* that the reports about commands share.                                  *)
(***************************************************************************)
EXTENDS Naturals, Sequences, SequencesExt

CONSTANTS
  Peer,         \* the instances of the service
  Listener,     \* event handlers
  Order,        \* commands
  StreamLimit,  \* max_msgs of the COMMANDS stream
  MaxUpsets     \* bound: raising handlers, failing publishes, timeouts, ends

ASSUME HybridAssumption == StreamLimit \in Nat \ {0} /\ MaxUpsets \in Nat

VARIABLES
  alive,       \* the instances that are connected
  callStage,       \* how far the call is
  requested,   \* the instances the request is on its way to
  replies,     \* the answers on their way back, oldest first
  ran,         \* history: how often each instance ran the call's handler
  listeners,   \* the event handlers of each instance, in order
  bound,       \* the instance that holds the durable consumer, if any
  turn,        \* the handler an event is at, 0 when it is not being handled
  heard,       \* history: the handlers that the event has run through
  ackedFor,    \* history: the handlers there were when it was acknowledged
  stream,      \* COMMANDS: <<"command", o>> and <<"report", o>>
  held,        \* how far the handling of each command is
  carriedOut,  \* history: the commands whose handler returned
  evicted,     \* history: whether the stream ever dropped a message
  answer,      \* what each sender of a command is at
  upsets

rpcVars == <<callStage, requested, replies, ran>>
eventVars == <<listeners, bound, turn, heard, ackedFor>>
commandVars == <<stream, held, carriedOut, evicted, answer>>
hybridVars == <<alive, rpcVars, eventVars, commandVars, upsets>>

HybridTypeOK ==
  /\ alive \subseteq Peer /\ requested \subseteq Peer /\ upsets \in 0 .. MaxUpsets
  /\ callStage \in {"new", "asked", "routed", "ok", "failed"}
  /\ replies \in Seq({"good", "bad"}) /\ ran \in [Peer -> Nat]
  /\ listeners \in [Peer -> Seq(Listener)] /\ bound \subseteq Peer
  /\ turn \in Nat
  /\ {heard, ackedFor} \subseteq SUBSET Listener
  /\ stream \in Seq({"command", "report"} \X Order) /\ Len(stream) <= StreamLimit
  /\ held \in [Order -> {"no", "runs", "returned"}] /\ carriedOut \subseteq Order
  /\ evicted \in BOOLEAN
  /\ answer \in [Order -> {"unsent", "waits", "told", "none"}]

HybridInit ==
  /\ alive = Peer
  /\ callStage = "new" /\ requested = {} /\ replies = <<>>
  /\ ran = [p \in Peer |-> 0]
  /\ listeners = [p \in Peer |-> <<>>] /\ bound = {} /\ turn = 0
  /\ heard = {} /\ ackedFor = {}
  /\ stream = <<>> /\ held = [o \in Order |-> "no"] /\ carriedOut = {} /\ evicted = FALSE
  /\ answer = [o \in Order |-> "unsent"]
  /\ upsets = 0

Upset == upsets < MaxUpsets /\ upsets' = upsets + 1
Well == UNCHANGED upsets

(* The process of an instance ends, and with it what it was doing; its     *)
(* consumer is free again, though nobody subscribes a second time.         *)
PeerEnds(p) ==
  /\ p \in alive /\ Upset
  /\ alive' = alive \ {p} /\ requested' = requested \ {p}
  /\ bound' = bound \ {p} /\ turn' = IF p \in bound THEN 0 ELSE turn
  /\ \E mine \in SUBSET Order :
       /\ alive' = {} => mine = Order
       /\ held' = [o \in Order |-> IF o \in mine THEN "no" ELSE held[o]]
  /\ UNCHANGED <<callStage, replies, ran, listeners, heard, ackedFor>>
  /\ UNCHANGED <<stream, carriedOut, evicted, answer>>

-----------------------------------------------------------------------------
(* Calls: without a queue group the request reaches every instance.        *)

Ask ==
  /\ callStage = "new" /\ requested' = alive
  /\ callStage' = IF alive = {} THEN "routed" ELSE "asked"
  /\ Well /\ UNCHANGED <<alive, replies, ran, eventVars, commandVars>>

HandleRpc(p) ==
  /\ p \in requested /\ requested' = requested \ {p}
  /\ ran' = [ran EXCEPT ![p] = @ + 1]
  /\ \/ Well /\ replies' = Append(replies, "good")
     \/ Upset /\ replies' = Append(replies, "bad")
  /\ UNCHANGED <<alive, callStage, eventVars, commandVars>>

(* The first answer is the answer, and the others are dropped: an error,   *)
(* though another instance may have succeeded, moves the call on to the    *)
(* routing subject.                                                        *)
FirstReply ==
  /\ callStage = "asked" /\ replies # <<>>
  /\ callStage' = IF Head(replies) = "good" THEN "ok" ELSE "routed"
  /\ Well /\ UNCHANGED <<alive, requested, replies, ran, eventVars, commandVars>>

NoReply ==
  /\ callStage = "asked" /\ Upset /\ callStage' = "routed"
  /\ UNCHANGED <<alive, requested, replies, ran, eventVars, commandVars>>

(* Nobody subscribes to the routing subject: the call fails for that.      *)
RouteRequest ==
  /\ callStage = "routed" /\ callStage' = "failed"
  /\ Well /\ UNCHANGED <<alive, requested, replies, ran, eventVars, commandVars>>

-----------------------------------------------------------------------------
(* Events.  The handler is in the list before the subscription is asked    *)
(* for, so it stays there when the consumer is bound already.              *)

Known(p) == ToSet(listeners[p])

SubscribeEvent(p, l) ==
  /\ p \in alive /\ l \notin Known(p) /\ Well
  /\ listeners' = [listeners EXCEPT ![p] = Append(@, l)]
  /\ bound' = IF bound = {} THEN {p} ELSE bound
  /\ UNCHANGED <<alive, rpcVars, turn, heard, ackedFor, commandVars>>

(* An event that is not acknowledged comes, and comes again.               *)
TakeEvent ==
  /\ bound # {} /\ turn = 0 /\ ackedFor = {} /\ turn' = 1
  /\ Well /\ UNCHANGED <<alive, rpcVars, listeners, bound, heard, ackedFor, commandVars>>

(* Mutant of RunListener: a handler that raises is passed over.            *)
PassOver(p) ==
  /\ p \in bound /\ turn \in 1 .. Len(listeners[p]) /\ turn' = turn + 1
  /\ \/ Well /\ heard' = heard \cup {listeners[p][turn]}
     \/ Upset /\ UNCHANGED heard
  /\ UNCHANGED <<alive, rpcVars, listeners, bound, ackedFor, commandVars>>
(* The loop runs over the list as it is, not as it was: a handler added    *)
(* meanwhile is reached.  One that raises has the event sent again.        *)
RunListener(p) ==
  /\ p \in bound /\ turn \in 1 .. Len(listeners[p])
  /\ \/ Well /\ heard' = heard \cup {listeners[p][turn]} /\ turn' = turn + 1
     \/ Upset /\ turn' = 0 /\ UNCHANGED heard
  /\ UNCHANGED <<alive, rpcVars, listeners, bound, ackedFor, commandVars>>

AckEvent(p) ==
  /\ p \in bound /\ turn = Len(listeners[p]) + 1 /\ turn' = 0
  /\ \/ Well /\ ackedFor' = Known(p)
     \/ Upset /\ UNCHANGED ackedFor
  /\ UNCHANGED <<alive, rpcVars, listeners, bound, heard, commandVars>>

-----------------------------------------------------------------------------
(* Commands.  commands.> takes in the progress and the completion of a     *)
(* command as well, which no consumer removes; a full stream drops its     *)
(* oldest message.                                                         *)

Store(m) ==
  /\ stream' = IF Len(stream) = StreamLimit THEN Tail(stream) \o <<m>> ELSE Append(stream, m)
  /\ evicted' = (evicted \/ Len(stream) = StreamLimit)
Unstore(m) ==
  /\ UNCHANGED evicted
  /\ IF m \in ToSet(stream)
     THEN \E k \in DOMAIN stream : stream[k] = m /\ stream' = RemoveAt(stream, k)
     ELSE UNCHANGED stream
At(o, place) == held' = [held EXCEPT ![o] = place]
CommandOnly == UNCHANGED <<alive, rpcVars, eventVars>>

SendOrder(o) ==
  /\ answer[o] = "unsent" /\ alive # {} /\ Well /\ Store(<<"command", o>>)
  /\ answer' = [answer EXCEPT ![o] = "waits"]
  /\ CommandOnly /\ UNCHANGED <<held, carriedOut>>

TakeOrder(o) ==
  /\ alive # {} /\ held[o] = "no" /\ <<"command", o>> \in ToSet(stream)
  /\ At(o, "runs")
  /\ Well /\ CommandOnly /\ UNCHANGED <<stream, carriedOut, evicted, answer>>

ReportProgress(o) ==
  /\ held[o] = "runs" /\ Upset /\ Store(<<"report", o>>)
  /\ CommandOnly /\ UNCHANGED <<held, carriedOut, answer>>

(* The handler returns and its completion is published: the sender learns  *)
(* of it unless it has stopped waiting, and the stream keeps it.           *)
Complete(o) ==
  /\ held[o] = "runs" /\ At(o, "returned") /\ carriedOut' = carriedOut \cup {o}
  /\ Store(<<"report", o>>)
  /\ answer' = [answer EXCEPT ![o] = IF @ = "waits" THEN "told" ELSE @]
  /\ Well /\ CommandOnly

AckOrder(o) ==
  /\ held[o] = "returned" /\ At(o, "no") /\ Unstore(<<"command", o>>)
  /\ Well /\ CommandOnly /\ UNCHANGED <<carriedOut, answer>>

(* The handler raises, or a publish or the acknowledgement fails.          *)
NakOrder(o) ==
  /\ held[o] # "no" /\ Upset /\ At(o, "no")
  /\ CommandOnly /\ UNCHANGED <<stream, carriedOut, evicted, answer>>

GiveUpWaiting(o) ==
  /\ answer[o] = "waits" /\ Upset /\ answer' = [answer EXCEPT ![o] = "none"]
  /\ CommandOnly /\ UNCHANGED <<stream, held, carriedOut, evicted>>

SomePeerEnds == \E p \in Peer : PeerEnds(p)
RpcNext ==
  Ask \/ FirstReply \/ NoReply \/ RouteRequest \/ SomePeerEnds \/ \E p \in Peer : HandleRpc(p)
EventNext ==
  \/ TakeEvent \/ SomePeerEnds
  \/ \E p \in Peer :
       RunListener(p) \/ AckEvent(p) \/ \E l \in Listener : SubscribeEvent(p, l)
OrderNext ==
  \/ SomePeerEnds
  \/ \E o \in Order :
       \/ SendOrder(o) \/ TakeOrder(o) \/ ReportProgress(o) \/ Complete(o)
       \/ AckOrder(o) \/ NakOrder(o) \/ GiveUpWaiting(o)

HybridNext == RpcNext \/ EventNext \/ OrderNext

HybridSpec == HybridInit /\ [][HybridNext]_hybridVars

-----------------------------------------------------------------------------
(* The second attempt of a call never runs the handlers again, whatever    *)
(* instances answered, failed or were slow the first time.                 *)
NoSecondRun == \A p \in Peer : ran[p] <= 1

(* An event is acknowledged only when every handler there is by then has   *)
(* run through it, those that were added while it was being handled and    *)
(* those of earlier deliveries included.                                   *)
AckedMeansHeard == ackedFor \subseteq heard

(* A command stays in the stream until it has been carried out, unless the *)
(* reports nobody reads have filled the stream and pushed messages out.    *)
OrdersSurvive ==
  \A o \in Order :
    answer[o] = "unsent" \/ evicted \/ o \in carriedOut
      \/ <<"command", o>> \in ToSet(stream)

(* The types, and what becomes of calls, events and commands.              *)
HybridSound == HybridTypeOK /\ NoSecondRun /\ AckedMeansHeard /\ OrdersSurvive
=============================================================================
