------------------------------ MODULE Handlers ------------------------------
(***************************************************************************)
(* The handlers of a Service: HandlerRegistry, the decorators that write   *)
(* to it, and the start that hands copies of its dictionaries to the bus,  *)
(* one await per handler, while handlers may be added and removed.  The    *)
(* copies are shallow: a list of event handlers is the registry's own.     *)
(***************************************************************************)
EXTENDS Naturals, Sequences

CONSTANTS
  MethodName,      \* names of RPC methods; commands follow in the same way
  Pattern,     \* event patterns
  Handler,     \* functions
  Nothing,     \* no handler
  MaxChanges   \* bound: registrations and removals

ASSUME HandlersAssumption == MaxChanges \in Nat /\ Nothing \notin Handler

VARIABLES
  named,       \* the handler of each method
  lists,      \* the handlers of each pattern
  phase,       \* how far the start is
  copyNamed,   \* the copy of named the start works through
  detached,    \* lists the start holds that are no longer the registry's
  position,    \* the handlers of the patterns that were handed over
  served,      \* what the bus has: <<method or pattern, handler>>
  wanted,      \* history: registered before the start and not removed
  changes

handlerVars ==
  <<named, lists, phase, copyNamed, detached, position, served, wanted, changes>>

HandlersTypeOK ==
  /\ named \in [MethodName -> Handler \cup {Nothing}] /\ lists \in [Pattern -> Seq(Handler)]
  /\ phase \in {"new", "names", "events", "started"}
  /\ copyNamed \in [MethodName -> Handler \cup {Nothing}]
  /\ DOMAIN detached \subseteq Pattern /\ \A p \in DOMAIN detached : detached[p] \in Seq(Handler)
  /\ position \in [Pattern -> Nat] /\ changes \in 0 .. MaxChanges
  /\ {served, wanted} \subseteq SUBSET ((MethodName \cup Pattern) \X Handler)

HandlersInit ==
  /\ named = [m \in MethodName |-> Nothing] /\ lists = [p \in Pattern |-> <<>>]
  /\ phase = "new" /\ copyNamed = named /\ detached = <<>>
  /\ position = [p \in Pattern |-> 0]
  /\ served = {} /\ wanted = {} /\ changes = 0

Changed == changes < MaxChanges /\ changes' = changes + 1
StartOnly == UNCHANGED <<phase, copyNamed, position, served>>
Wanted(kept, x) == wanted' = kept \cup (IF phase = "new" THEN {x} ELSE {})
Without(x, h) == {w \in wanted : w[1] # x \/ (h # Nothing /\ w[2] # h)}

(* A second handler for a method takes the place of the first.             *)
RegisterNamed(m, h) ==
  /\ Changed /\ named' = [named EXCEPT ![m] = h] /\ Wanted(Without(m, Nothing), <<m, h>>)
  /\ StartOnly /\ UNCHANGED <<lists, detached>>
UnregisterNamed(m) ==
  /\ named[m] # Nothing /\ Changed /\ named' = [named EXCEPT ![m] = Nothing]
  /\ wanted' = Without(m, Nothing)
  /\ StartOnly /\ UNCHANGED <<lists, detached>>

RegisterEvent(p, h) ==
  /\ Changed /\ lists' = [lists EXCEPT ![p] = Append(@, h)] /\ Wanted(wanted, <<p, h>>)
  /\ StartOnly /\ UNCHANGED <<named, detached>>

(* What is left of a list, in its order.                                   *)
Left(s, h) ==
  LET left[k \in 0 .. Len(s)] ==
        IF k = 0 THEN <<>>
        ELSE IF s[k] = h THEN left[k - 1] ELSE Append(left[k - 1], s[k])
  IN left[Len(s)]

(* Removing one handler makes a new list, removing the pattern takes the   *)
(* list out; a start that is under way goes on with the old one.           *)
UnregisterEvent(p, h) ==
  /\ lists[p] # <<>> /\ Changed
  /\ lists' = [lists EXCEPT ![p] = IF h = Nothing THEN <<>> ELSE Left(@, h)]
  /\ detached' = IF phase \in {"names", "new"} \/ p \in DOMAIN detached THEN detached
                 ELSE [q \in DOMAIN detached \cup {p} |->
                         IF q = p THEN lists[p] ELSE detached[q]]
  /\ wanted' = Without(p, h)
  /\ StartOnly /\ UNCHANGED named

-----------------------------------------------------------------------------
RegistryOnly == UNCHANGED <<named, lists, wanted, changes>>

BeginStart ==
  /\ phase = "new" /\ phase' = "names" /\ copyNamed' = named
  /\ RegistryOnly /\ UNCHANGED <<detached, position, served>>

ServeNamed(m) ==
  /\ phase = "names" /\ copyNamed[m] # Nothing
  /\ served' = served \cup {<<m, copyNamed[m]>>}
  /\ copyNamed' = [copyNamed EXCEPT ![m] = Nothing]
  /\ RegistryOnly /\ UNCHANGED <<phase, detached, position>>

(* The patterns there are now; one that is added later comes too late.     *)
BeginEvents ==
  /\ phase = "names" /\ \A m \in MethodName : copyNamed[m] = Nothing
  /\ phase' = "events"
  /\ detached' = [p \in {q \in Pattern : lists[q] = <<>>} |-> <<>>]
  /\ RegistryOnly /\ UNCHANGED <<copyNamed, position, served>>

(* Mutant of ListOf: the list is looked up again after every await.        *)
ListNow(p) == lists[p]
ListOf(p) == IF p \in DOMAIN detached THEN detached[p] ELSE lists[p]

ServeEvent(p) ==
  /\ phase = "events" /\ position[p] < Len(ListOf(p))
  /\ served' = served \cup {<<p, ListOf(p)[position[p] + 1]>>}
  /\ position' = [position EXCEPT ![p] = @ + 1]
  /\ RegistryOnly /\ UNCHANGED <<phase, copyNamed, detached>>

Started ==
  /\ phase = "events" /\ \A p \in Pattern : position[p] >= Len(ListOf(p))
  /\ phase' = "started"
  /\ RegistryOnly /\ UNCHANGED <<copyNamed, detached, position, served>>

HandlersNext ==
  \/ BeginStart \/ BeginEvents \/ Started
  \/ \E m \in MethodName :
       UnregisterNamed(m) \/ ServeNamed(m) \/ \E h \in Handler : RegisterNamed(m, h)
  \/ \E p \in Pattern :
       \/ ServeEvent(p)
       \/ \E h \in Handler : RegisterEvent(p, h)
       \/ \E h \in Handler \cup {Nothing} : UnregisterEvent(p, h)

HandlersSpec == HandlersInit /\ [][HandlersNext]_handlerVars

-----------------------------------------------------------------------------
(* When the service has started, every handler that was registered before  *)
(* the start and never removed is on the bus, though others were removed   *)
(* from the same list while the start worked through it.                   *)
WantedIsServed == phase = "started" => wanted \subseteq served

(* The types, and the handlers on the bus.                                 *)
HandlersSound == HandlersTypeOK /\ WantedIsServed
=============================================================================
