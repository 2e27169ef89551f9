---------------------------- MODULE MCMessaging -----------------------------
(***************************************************************************)
(* The modules about messages, the SDK's and those of its examples, for    *)
(* TLC.  They share no state, so each behaviour is one of one of them:     *)
(* focus says which.                                                       *)
(***************************************************************************)
EXTENDS Calls, Delivery, Aggregates, Handlers, Pools,
        HeartbeatElection, Hybrid, Echo, Orders

VARIABLE focus

sdkVars == <<callVars, deliveryVars, aggregateVars, handlerVars, poolVars>>
exampleVars == <<electVars, hybridVars, echoVars, orderVars>>
messagingVars == <<sdkVars, exampleVars, focus>>

Focus == {"calls", "delivery", "aggregates", "handlers", "links", "picks", "lends",
          "election", "rpc", "events", "commands", "echo", "orders"}

(* What the modules that are not in focus could begin with matters not.    *)
SomeCalls == \A c \in Call : method[c] = "plain" /\ client[c] = "service"
SomeMessages == ~wildcard /\ \A m \in Message : kind[m] = "event"

Init ==
  /\ focus \in Focus
  /\ CallInit /\ DeliveryInit /\ AggregateInit /\ HandlersInit /\ PoolInit
  /\ ElectInit /\ HybridInit /\ EchoInit /\ OrdersInit
  /\ focus # "calls" => SomeCalls /\ active = {}
  /\ focus # "delivery" => SomeMessages
  /\ focus # "election" => mode = "sticky"
  /\ focus # "echo" => \A r \in Ping : shape[r] = "simple"

SdkNext ==
  \/ /\ focus = "calls" /\ CallNext
     /\ UNCHANGED <<deliveryVars, aggregateVars, handlerVars, poolVars>>
  \/ /\ focus = "delivery" /\ DeliveryNext
     /\ UNCHANGED <<callVars, aggregateVars, handlerVars, poolVars>>
  \/ /\ focus = "aggregates" /\ AggregateNext
     /\ UNCHANGED <<callVars, deliveryVars, handlerVars, poolVars>>
  \/ /\ focus = "handlers" /\ HandlersNext
     /\ UNCHANGED <<callVars, deliveryVars, aggregateVars, poolVars>>
  \/ /\ \/ focus = "links" /\ LinkNext
        \/ focus = "picks" /\ PickNext
        \/ focus = "lends" /\ LendNext
     /\ UNCHANGED <<callVars, deliveryVars, aggregateVars, handlerVars>>

ExampleNext ==
  \/ focus = "election" /\ ElectNext /\ UNCHANGED <<hybridVars, echoVars, orderVars>>
  \/ /\ \/ focus = "rpc" /\ RpcNext
        \/ focus = "events" /\ EventNext
        \/ focus = "commands" /\ OrderNext
     /\ UNCHANGED <<electVars, echoVars, orderVars>>
  \/ focus = "echo" /\ EchoNext /\ UNCHANGED <<electVars, hybridVars, orderVars>>
  \/ focus = "orders" /\ OrdersNext /\ UNCHANGED <<electVars, hybridVars, echoVars>>

Next ==
  /\ UNCHANGED focus
  /\ (SdkNext /\ UNCHANGED exampleVars) \/ (ExampleNext /\ UNCHANGED sdkVars)

Spec ==
  Init /\ [][Next]_messagingVars /\ CallFairness /\ DeliveryFairness

(* What is sent comes to an end: every call, and every message that was    *)
(* stored.                                                                 *)
NothingIsLeft == EveryCallEnds /\ StoredIsHandled
=============================================================================
