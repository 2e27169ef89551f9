--------------------------- MODULE DiscoveryCache ---------------------------
(***************************************************************************)
(* Service discovery with a cache: CachedServiceDiscovery and its subclass *)
(* WatchableCachedServiceDiscovery (infrastructure/) over a registry.      *)
(*                                                                         *)
(* Requests are coroutines that share one cache; each awaits the registry  *)
(* between looking into the cache and storing what it got.  The watch loop *)
(* invalidates entries when the registry changes.  What the registry says  *)
(* of a service is a version number; an answer is the version it shows.    *)
(* Hit and miss counters, metrics and logs are left out.                   *)
(***************************************************************************)
EXTENDS Naturals, FiniteSets, SequencesExt

CONSTANTS
  Service,      \* service names
  Request,      \* coroutines that call discover_instances
  Nothing,      \* the empty list that stands for a failed registry call
  NoAnswer,     \* the call raised, or none was made yet
  MaxEntries,   \* CacheConfig.max_entries
  TTL,          \* CacheConfig.ttl_seconds, in ticks of the clock
  MaxAttempts,  \* WatchConfig.max_reconnect_attempts
  InnerRaises,  \* the wrapped discovery raises when the registry fails;
                \* FALSE for BasicServiceDiscovery, which answers []
  KeysDotted,   \* registry keys are service-instances.{service}.{id}; FALSE
                \* for KVServiceRegistry, which joins them with "__"
  MaxVersion,   \* bound: changes of a service in the registry
  MaxFaults     \* bound: failing calls

ASSUME CacheAssumption ==
  /\ IsFiniteSet(Service)
  /\ Nothing \notin Nat \cup (Service \X BOOLEAN)
  /\ NoAnswer \notin Nat \cup {Nothing}
  /\ MaxEntries \in Nat \ {0} /\ TTL \in Nat \ {0} /\ MaxAttempts \in Nat \ {0}
  /\ InnerRaises \in BOOLEAN /\ KeysDotted \in BOOLEAN
  /\ MaxVersion \in Nat /\ MaxFaults \in Nat

VARIABLES
  registry,  \* the version of each service in the registry
  present,   \* the services with a registered instance
  cache,     \* _cache: a dictionary, so a function on the keys it holds
  place,     \* where each request is
  wanted,    \* the cache key of its call
  seen,      \* what its registry call returned
  answer,    \* what its last call returned
  watch,     \* where the watch task is
  attempts,  \* _reconnect_attempts
  events,    \* watch events on their way
  faults     \* calls that failed so far

registryVars == <<registry, present>>
requestVars == <<place, wanted, seen, answer>>
watchVars == <<watch, attempts, events>>
vars == <<registryVars, cache, requestVars, watchVars, faults>>

-----------------------------------------------------------------------------
(* f"{service_name}:{only_healthy}"                                        *)
Key == Service \X BOOLEAN
Version == 0 .. MaxVersion
Content == Version \cup {Nothing}

(* CacheEntry; its age is the time since its timestamp, and no more is     *)
(* told apart once it has expired.                                         *)
Entry == [value : Content, age : 0 .. TTL]

Expired(entry) == entry.age >= TTL

(* Mutant of KeysOf: the key is built with the default health filter.      *)
HealthyKeysOf(services) == services \X {TRUE}

(* Both entries of a service begin with its name.                          *)
KeysOf(services) == services \X BOOLEAN

Event == [service : Service, operation : {"PUT", "DELETE"}]

TypeOK ==
  /\ registry \in [Service -> Version]
  /\ present \subseteq Service
  /\ DOMAIN cache \subseteq Key
  /\ cache \in [DOMAIN cache -> Entry]
  /\ place \in [Request -> {"idle", "read", "fill", "failed"}]
  /\ wanted \in [Request -> Key \cup {Nothing}]
  /\ \A r \in Request : place[r] # "idle" => wanted[r] \in Key
  /\ seen \in [Request -> Content]
  /\ answer \in [Request -> Content \cup {NoAnswer}]
  /\ watch \in {"off", "connect", "watching", "sleep", "ended"}
  /\ attempts \in 0 .. MaxAttempts
  /\ events \in Seq(Event)
  /\ faults \in 0 .. MaxFaults

(* Instances may have registered before; the watch task is created with    *)
(* the cache, if it is enabled.                                            *)
Init ==
  /\ registry = [s \in Service |-> 0]
  /\ present \in SUBSET Service
  /\ cache = [k \in {} |-> [value |-> Nothing, age |-> 0]]
  /\ place = [r \in Request |-> "idle"]
  /\ wanted = [r \in Request |-> Nothing]
  /\ seen = [r \in Request |-> Nothing]
  /\ answer = [r \in Request |-> NoAnswer]
  /\ watch \in {"off", "connect"}
  /\ attempts = 0
  /\ events = <<>>
  /\ faults = 0

Fault == faults < MaxFaults /\ faults' = faults + 1

-----------------------------------------------------------------------------
(* discover_instances                                                      *)

LiveKeys == {k \in DOMAIN cache : ~Expired(cache[k])}

(* Mutant of Hit: a hit renews the entry, as a least-recently-used cache   *)
(* would.                                                                  *)
HitRenews(r, k) ==
  /\ place[r] = "idle" /\ k \in LiveKeys
  /\ answer' = [answer EXCEPT ![r] = cache[k].value]
  /\ cache' = [cache EXCEPT ![k].age = 0]
  /\ UNCHANGED <<registryVars, place, wanted, seen, watchVars, faults>>

Hit(r, k) ==
  /\ place[r] = "idle" /\ k \in LiveKeys
  /\ answer' = [answer EXCEPT ![r] = cache[k].value]
  /\ UNCHANGED <<registryVars, cache, place, wanted, seen, watchVars, faults>>

Miss(r, k) ==
  /\ place[r] = "idle" /\ k \notin LiveKeys
  /\ place' = [place EXCEPT ![r] = "read"]
  /\ wanted' = [wanted EXCEPT ![r] = k]
  /\ UNCHANGED <<registryVars, cache, seen, answer, watchVars, faults>>

(* The registry answers the awaited call ...                               *)
ReadRegistry(r) ==
  /\ place[r] = "read"
  /\ place' = [place EXCEPT ![r] = "fill"]
  /\ seen' = [seen EXCEPT ![r] = registry[wanted[r][1]]]
  /\ UNCHANGED <<registryVars, cache, wanted, answer, watchVars, faults>>

(* ... or fails, which BasicServiceDiscovery turns into an empty answer.   *)
ReadFails(r) ==
  /\ place[r] = "read" /\ Fault
  /\ place' = [place EXCEPT ![r] = IF InnerRaises THEN "failed" ELSE "fill"]
  /\ UNCHANGED <<registryVars, cache, wanted, seen, answer, watchVars>>

(* The call returns. *)
Return(r, result) ==
  /\ place' = [place EXCEPT ![r] = "idle"]
  /\ wanted' = [wanted EXCEPT ![r] = Nothing]
  /\ seen' = [seen EXCEPT ![r] = Nothing]
  /\ answer' = [answer EXCEPT ![r] = result]

(* dict.__setitem__ *)
Stored(k, entry) ==
  [j \in DOMAIN cache \cup {k} |-> IF j = k THEN entry ELSE cache[j]]

(* Mutant of Survivors: _ensure_cache_size is not called.                  *)
SurvivorsUnbounded(dict, k) == {{j \in DOMAIN dict : ~Expired(dict[j])}}

(* What _evict_old_entries and _ensure_cache_size may leave of dict, the   *)
(* entry of k being the last one stored: the entries that have not         *)
(* expired, without the oldest if they are too many.                       *)
Survivors(dict, k) ==
  LET live == {j \in DOMAIN dict : ~Expired(dict[j])}
  IN  {kept \in SUBSET live :
         /\ k \in kept
         /\ IF Cardinality(live) <= MaxEntries
              THEN kept = live
              ELSE Cardinality(kept) = MaxEntries
         /\ \A j \in kept, gone \in live \ kept : dict[j].age <= dict[gone].age}

(* The result is stored, whatever happened to the cache since the miss.    *)
Fill(r) ==
  /\ place[r] = "fill"
  /\ LET dict == Stored(wanted[r], [value |-> seen[r], age |-> 0])
     IN  \E kept \in Survivors(dict, wanted[r]) : cache' = Restrict(dict, kept)
  /\ Return(r, seen[r])
  /\ UNCHANGED <<registryVars, watchVars, faults>>

(* Mutant of ServeStale: the exception is always raised again.             *)
ServeNothing(r) ==
  /\ place[r] = "failed"
  /\ Return(r, NoAnswer)
  /\ UNCHANGED <<registryVars, cache, watchVars, faults>>

(* The exception is caught: an old entry is better than none. *)
ServeStale(r) ==
  /\ place[r] = "failed"
  /\ Return(r, IF wanted[r] \in DOMAIN cache THEN cache[wanted[r]].value ELSE NoAnswer)
  /\ UNCHANGED <<registryVars, cache, watchVars, faults>>

RequestStep(r) == ReadRegistry(r) \/ Fill(r) \/ ServeStale(r)

-----------------------------------------------------------------------------
(* invalidate_cache                                                        *)

Forget(services) == cache' = Restrict(cache, DOMAIN cache \ KeysOf(services))

Invalidate(services) ==
  /\ Forget(services)
  /\ UNCHANGED <<registryVars, requestVars, watchVars, faults>>

-----------------------------------------------------------------------------
(* The watch task                                                          *)

(* NATSKVStore.watch passes on keys that begin with "service-instances.";  *)
(* no others carry a service the handler would find.                       *)
Observed(seq) == IF KeysDotted THEN seq ELSE <<>>
Notify(s, operation) ==
  events' = IF watch = "watching"
              THEN events \o Observed(<<[service |-> s, operation |-> operation]>>)
              ELSE events

(* A new watch begins with the last value of every key.                    *)
Connect ==
  /\ watch = "connect"
  /\ watch' = "watching"
  /\ \E order \in SetToSeqs(present) :
       events' = Observed([n \in DOMAIN order |->
                             [service |-> order[n], operation |-> "PUT"]])
  /\ UNCHANGED <<registryVars, cache, requestVars, attempts, faults>>

GiveUp(failures) == failures >= MaxAttempts

(* Opening the watch, or decoding a record it delivers, raises.            *)
WatchRaises ==
  /\ watch \in {"connect", "watching"} /\ Fault
  /\ attempts' = attempts + 1
  /\ watch' = IF GiveUp(attempts + 1) THEN "ended" ELSE "sleep"
  /\ events' = <<>>
  /\ UNCHANGED <<registryVars, cache, requestVars>>

(* Losing the connection ends the watch as if it were complete.            *)
WatchBreaks ==
  /\ watch = "watching" /\ Fault
  /\ attempts' = 0
  /\ watch' = "connect"
  /\ events' = <<>>
  /\ UNCHANGED <<registryVars, cache, requestVars>>

Reconnect ==
  /\ watch = "sleep"
  /\ watch' = "connect"
  /\ UNCHANGED <<registryVars, cache, requestVars, attempts, events, faults>>

(* A PUT invalidates both entries of its service; a DELETE comes without   *)
(* the entry that would name one.                                          *)
HandleEvent ==
  /\ watch = "watching" /\ events # <<>>
  /\ IF Head(events).operation = "PUT"
       THEN Forget({Head(events).service}) ELSE UNCHANGED cache
  /\ events' = Tail(events)
  /\ UNCHANGED <<registryVars, requestVars, watch, attempts, faults>>

(* stop_watch: no event is handled once the stop event is set.             *)
StopWatch ==
  /\ watch # "off"
  /\ watch' = "off"
  /\ attempts' \in {attempts, 0}
  /\ events' = <<>>
  /\ UNCHANGED <<registryVars, cache, requestVars, faults>>

WatchStep == Connect \/ Reconnect \/ HandleEvent

-----------------------------------------------------------------------------
(* Other services and the clock                                            *)

RegistryPut(s) ==
  /\ registry[s] < MaxVersion
  /\ registry' = [registry EXCEPT ![s] = @ + 1]
  /\ present' = present \cup {s}
  /\ Notify(s, "PUT")
  /\ UNCHANGED <<cache, requestVars, watch, attempts, faults>>

RegistryDelete(s) ==
  /\ s \in present /\ registry[s] < MaxVersion
  /\ registry' = [registry EXCEPT ![s] = @ + 1]
  /\ present' = present \ {s}
  /\ Notify(s, "DELETE")
  /\ UNCHANGED <<cache, requestVars, watch, attempts, faults>>

Tick ==
  /\ LiveKeys # {}
  /\ cache' = [k \in DOMAIN cache |->
                 [cache[k] EXCEPT !.age = IF Expired(cache[k]) THEN @ ELSE @ + 1]]
  /\ UNCHANGED <<registryVars, requestVars, watchVars, faults>>

Next ==
  \/ \E r \in Request :
       \/ \E k \in Key : Hit(r, k) \/ Miss(r, k)
       \/ ReadFails(r) \/ RequestStep(r)
  \/ Invalidate(Service)
  \/ \E s \in Service : Invalidate({s}) \/ RegistryPut(s) \/ RegistryDelete(s)
  \/ WatchStep \/ WatchRaises \/ WatchBreaks \/ StopWatch
  \/ Tick

Spec == Init /\ [][Next]_vars

(* The event loop runs requests and the watch task; registry calls return. *)
Fairness == (\A r \in Request : WF_vars(RequestStep(r))) /\ WF_vars(WatchStep)

FairSpec == Spec /\ Fairness

-----------------------------------------------------------------------------
(* Properties                                                              *)

(* Whatever requests store at the same time, the cache keeps to            *)
(* max_entries (_ensure_cache_size).                                       *)
CacheBounded == Cardinality(DOMAIN cache) <= MaxEntries

(* No entry of s among keys shows an older registry than version v.        *)
UpToDate(s, v, keys) ==
  \A k \in keys : k[1] = s /\ cache[k].value # Nothing => cache[k].value >= v

(* However often an entry is hit and however late a request stores what it *)
(* read, as long as the clock runs every change of the registry reaches    *)
(* the answers for good within the TTL (discover_instances, is_expired).   *)
AnswersCatchUp ==
  WF_vars(Tick) =>
    \A s \in Service, v \in 1 .. MaxVersion :
      registry[s] >= v ~> []UpToDate(s, v, LiveKeys)

Pending(s, operation) ==
  \E n \in DOMAIN events : events[n] = [service |-> s, operation |-> operation]

(* With the keys it expects, the watch clears the old answers about a      *)
(* service that is still registered, also when the event was lost with the *)
(* connection and only the new watch tells (_watch_loop,                   *)
(* _handle_watch_event).                                                   *)
ChangeClearsCache ==
  \A s \in Service, v \in 1 .. MaxVersion :
    (/\ registry[s] >= v /\ s \in present
     /\ Pending(s, "PUT") \/ watch \in {"connect", "sleep"})
      ~> (\/ UpToDate(s, v, LiveKeys)
          \/ s \notin present
          \/ watch \in {"off", "ended"})

(* Fewer failures than max_reconnect_attempts never cost the watch         *)
(* (_watch_loop).                                                          *)
WatchComesBack == []<>(watch \in {"watching", "off"})

(* The watch does its part: it comes back, and what it tells clears.       *)
WatchKeepsUp == WatchComesBack /\ ChangeClearsCache

(* "On failure, return stale cache if available", expired or not           *)
(* (cached_service_discovery.py:230).                                      *)
FailureServesCache ==
  [][\A r \in Request :
       /\ place[r] = "failed" \/ (place[r] = "fill" /\ seen[r] = Nothing)
       /\ place'[r] = "idle" /\ wanted[r] \in DOMAIN cache
       => answer'[r] = cache[wanted[r]].value]_vars
=============================================================================
