----------------------------- MODULE ToolsProofs ----------------------------
(***************************************************************************)
(* Theorems about what stands around the calls: DiscoveryCache, through    *)
(* which a client sees the registry, ServiceDefinitions, the monitor's     *)
(* part of it, and the developer tools, DevChecks and Scaffold; for any    *)
(* services, requests, configurations and projects, and every bound.       *)
(***************************************************************************)
EXTENDS DiscoveryCache, ServiceDefinitions, DevChecks, Scaffold,
        FiniteSetTheorems, TLAPS

-----------------------------------------------------------------------------
(* DiscoveryCache                                                          *)

(* A dictionary with well-formed entries under known keys. *)
Dictionary(dict) ==
  /\ DOMAIN dict \subseteq Key
  /\ dict \in [DOMAIN dict -> Entry]

LEMMA RestrictedDictionary ==
  ASSUME NEW dict, Dictionary(dict), NEW kept \in SUBSET DOMAIN dict
  PROVE  /\ Dictionary(Restrict(dict, kept))
         /\ DOMAIN Restrict(dict, kept) = kept
BY DEF Dictionary, Restrict

LEMMA StoredDictionary ==
  ASSUME Dictionary(cache), NEW k \in Key, NEW v \in Content
  PROVE  LET entry == [value |-> v, age |-> 0]
         IN  /\ Dictionary(Stored(k, entry))
             /\ DOMAIN Stored(k, entry) = DOMAIN cache \cup {k}
<1>1. [value |-> v, age |-> 0] \in Entry
  BY CacheAssumption DEF Entry
<1> QED BY <1>1 DEF Dictionary, Stored

LEMMA FaultCounted ==
  ASSUME faults \in 0 .. MaxFaults, Fault
  PROVE  faults' \in 0 .. MaxFaults
BY CacheAssumption DEF Fault

-----------------------------------------------------------------------------
(* Type correctness, by the parts of the state.                            *)
RegistryType ==
  /\ registry \in [Service -> Version]
  /\ present \subseteq Service

RequestType ==
  /\ place \in [Request -> {"idle", "read", "fill", "failed"}]
  /\ wanted \in [Request -> Key \cup {Nothing}]
  /\ \A r \in Request : place[r] # "idle" => wanted[r] \in Key
  /\ seen \in [Request -> Content]
  /\ answer \in [Request -> Content \cup {NoAnswer}]

WatchType ==
  /\ watch \in {"off", "connect", "watching", "sleep", "ended"}
  /\ attempts \in 0 .. MaxAttempts
  /\ events \in Seq(Event)

(* A loop that goes on has not used up its attempts.                       *)
AttemptsLeft == watch \in {"connect", "watching", "sleep"} => attempts < MaxAttempts

TypeInv ==
  RegistryType /\ Dictionary(cache) /\ RequestType /\ WatchType
  /\ faults \in 0 .. MaxFaults /\ AttemptsLeft

LEMMA TypeParts == TypeOK /\ AttemptsLeft <=> TypeInv
BY DEF TypeInv, TypeOK, RegistryType, Dictionary, RequestType, WatchType

LEMMA ReturnType ==
  ASSUME RequestType, NEW r \in Request, NEW a \in Content \cup {NoAnswer}, Return(r, a)
  PROVE  RequestType'
BY DEF RequestType, Return, Content

LEMMA RequestKeeps ==
  ASSUME TypeInv, NEW r \in Request,
         (\E k \in Key : Hit(r, k) \/ Miss(r, k)) \/ ReadFails(r) \/ RequestStep(r)
  PROVE  TypeInv'
<1> USE DEF TypeInv, registryVars, watchVars
<1>1. ASSUME NEW k \in Key, Hit(r, k)
      PROVE  TypeInv'
  <2>1. cache[k].value \in Content
    BY <1>1 DEF Hit, LiveKeys, Dictionary, Entry
  <2> QED BY <1>1, <2>1 DEF Hit, RegistryType, RequestType, WatchType, Dictionary, AttemptsLeft
<1>2. ASSUME NEW k \in Key, Miss(r, k)
      PROVE  TypeInv'
  BY <1>2 DEF Miss, RegistryType, RequestType, WatchType, Dictionary, AttemptsLeft
<1>3. CASE ReadRegistry(r)
  <2>1. registry[wanted[r][1]] \in Content
    BY <1>3 DEF ReadRegistry, RequestType, RegistryType, Key, Content
  <2> QED BY <1>3, <2>1 DEF ReadRegistry, RegistryType, RequestType, WatchType, Dictionary, AttemptsLeft
<1>4. CASE ReadFails(r)
  <2>1. faults' \in 0 .. MaxFaults
    BY <1>4, FaultCounted DEF ReadFails
  <2> QED BY <1>4, <2>1 DEF ReadFails, RegistryType, RequestType, WatchType, Dictionary, AttemptsLeft
<1>5. CASE Fill(r)
  <2>1. wanted[r] \in Key /\ seen[r] \in Content
    BY <1>5 DEF Fill, RequestType
  <2> DEFINE dict == Stored(wanted[r], [value |-> seen[r], age |-> 0])
  <2>2. Dictionary(dict)
    BY <2>1, StoredDictionary
  <2>3. PICK kept \in Survivors(dict, wanted[r]) : cache' = Restrict(dict, kept)
    BY <1>5 DEF Fill
  <2>4. kept \in SUBSET DOMAIN dict
    BY <2>3 DEF Survivors
  <2>5. Dictionary(cache')
    BY <2>2, <2>3, <2>4, RestrictedDictionary
  <2>6. RequestType'
    BY <1>5, <2>1, ReturnType DEF Fill
  <2> QED BY <1>5, <2>5, <2>6 DEF Fill, RegistryType, WatchType, Dictionary, AttemptsLeft
<1>6. CASE ServeStale(r)
  <2>1. (IF wanted[r] \in DOMAIN cache THEN cache[wanted[r]].value ELSE NoAnswer)
          \in Content \cup {NoAnswer}
    BY DEF Dictionary, Entry
  <2>2. RequestType'
    BY <1>6, <2>1, ReturnType DEF ServeStale
  <2> QED BY <1>6, <2>2 DEF ServeStale, RegistryType, WatchType, Dictionary, AttemptsLeft
<1> QED BY <1>1, <1>2, <1>3, <1>4, <1>5, <1>6 DEF RequestStep

LEMMA ForgetKeeps ==
  ASSUME Dictionary(cache), NEW services, Forget(services)
  PROVE  Dictionary(cache)' /\ DOMAIN cache' \subseteq DOMAIN cache
BY RestrictedDictionary DEF Forget, Dictionary

LEMMA ConnectEvents ==
  ASSUME present \subseteq Service, NEW order \in SetToSeqs(present)
  PROVE  [n \in DOMAIN order |-> [service |-> order[n], operation |-> "PUT"]] \in Seq(Event)
<1>1. Cardinality(present) \in Nat
  BY CacheAssumption, FS_Subset, FS_CardinalityType
<1>2. order \in [1 .. Cardinality(present) -> present]
  BY DEF SetToSeqs
<1>3. [n \in DOMAIN order |-> [service |-> order[n], operation |-> "PUT"]]
        \in [1 .. Cardinality(present) -> Event]
  BY <1>2 DEF Event
<1> QED BY <1>1, <1>3

LEMMA WatchKeeps ==
  ASSUME TypeInv, WatchStep \/ WatchRaises \/ WatchBreaks \/ StopWatch
  PROVE  TypeInv'
<1> USE DEF TypeInv, registryVars, requestVars
<1>1. CASE Connect
  <2>1. events' \in Seq(Event)
    <3>1. PICK order \in SetToSeqs(present) :
            events' = Observed([n \in DOMAIN order |->
                                  [service |-> order[n], operation |-> "PUT"]])
      BY <1>1 DEF Connect
    <3> QED BY <3>1, ConnectEvents DEF Observed, RegistryType
  <2> QED BY <1>1, <2>1 DEF Connect, RegistryType, RequestType, WatchType, Dictionary, AttemptsLeft
<1>2. CASE Reconnect
  BY <1>2 DEF Reconnect, RegistryType, RequestType, WatchType, Dictionary, AttemptsLeft
<1>3. CASE HandleEvent
  <2>1. Dictionary(cache)'
    BY <1>3, ForgetKeeps DEF HandleEvent, Dictionary
  <2>2. events' \in Seq(Event)
    BY <1>3 DEF HandleEvent, WatchType
  <2> QED BY <1>3, <2>1, <2>2 DEF HandleEvent, RegistryType, RequestType, WatchType, AttemptsLeft
<1>4. CASE WatchRaises
  <2>1. faults' \in 0 .. MaxFaults
    BY <1>4, FaultCounted DEF WatchRaises
  <2> QED BY <1>4, <2>1, CacheAssumption DEF WatchRaises, GiveUp, RegistryType, RequestType,
            WatchType, Dictionary, AttemptsLeft
<1>5. CASE WatchBreaks
  <2>1. faults' \in 0 .. MaxFaults
    BY <1>5, FaultCounted DEF WatchBreaks
  <2> QED BY <1>5, <2>1, CacheAssumption DEF WatchBreaks, RegistryType, RequestType, WatchType,
            Dictionary, AttemptsLeft
<1>6. CASE StopWatch
  BY <1>6, CacheAssumption DEF StopWatch, RegistryType, RequestType, WatchType, Dictionary, AttemptsLeft
<1> QED BY <1>1, <1>2, <1>3, <1>4, <1>5, <1>6 DEF WatchStep

LEMMA NotifyKeeps ==
  ASSUME WatchType, NEW s \in Service, NEW operation \in {"PUT", "DELETE"}, Notify(s, operation)
  PROVE  events' \in Seq(Event)
<1> DEFINE event == [service |-> s, operation |-> operation]
<1>0. event \in Event
  BY DEF Event
<1> HIDE DEF event
<1>1. Observed(<<event>>) \in Seq(Event)
  BY <1>0 DEF Observed
<1> QED BY <1>1 DEF Notify, WatchType, event

LEMMA OthersKeep ==
  ASSUME TypeInv,
         \/ Invalidate(Service) \/ Tick \/ UNCHANGED vars
         \/ \E s \in Service : Invalidate({s}) \/ RegistryPut(s) \/ RegistryDelete(s)
  PROVE  TypeInv'
<1> USE DEF TypeInv
<1>1. ASSUME NEW services, Invalidate(services)
      PROVE  TypeInv'
  <2>1. Dictionary(cache)'
    BY <1>1, ForgetKeeps DEF Invalidate
  <2> QED BY <1>1, <2>1 DEF Invalidate, registryVars, requestVars, watchVars, RegistryType,
            RequestType, WatchType, AttemptsLeft
<1>2. ASSUME NEW s \in Service, RegistryPut(s)
      PROVE  TypeInv'
  <2>1. registry' \in [Service -> Version]
    BY <1>2, CacheAssumption DEF RegistryPut, RegistryType, Version
  <2>2. events' \in Seq(Event)
    BY <1>2, NotifyKeeps DEF RegistryPut
  <2> QED BY <1>2, <2>1, <2>2 DEF RegistryPut, requestVars, RegistryType, RequestType, WatchType,
            Dictionary, AttemptsLeft
<1>3. ASSUME NEW s \in Service, RegistryDelete(s)
      PROVE  TypeInv'
  <2>1. registry' \in [Service -> Version]
    BY <1>3, CacheAssumption DEF RegistryDelete, RegistryType, Version
  <2>2. events' \in Seq(Event)
    BY <1>3, NotifyKeeps DEF RegistryDelete
  <2> QED BY <1>3, <2>1, <2>2 DEF RegistryDelete, requestVars, RegistryType, RequestType, WatchType,
            Dictionary, AttemptsLeft
<1>4. CASE Tick
  <2>1. ASSUME NEW k \in DOMAIN cache
        PROVE  [cache[k] EXCEPT !.age = IF Expired(cache[k]) THEN @ ELSE @ + 1] \in Entry
    BY <2>1, CacheAssumption DEF Dictionary, Entry, Expired
  <2>2. Dictionary(cache)'
    BY <1>4, <2>1 DEF Tick, Dictionary
  <2> QED BY <1>4, <2>2 DEF Tick, registryVars, requestVars, watchVars, RegistryType, RequestType,
            WatchType, AttemptsLeft
<1>5. CASE UNCHANGED vars
  BY <1>5 DEF vars, registryVars, requestVars, watchVars, RegistryType, RequestType, WatchType,
     Dictionary, AttemptsLeft
<1> QED BY <1>1, <1>2, <1>3, <1>4, <1>5

LEMMA TypeInvariant == Spec => []TypeInv
<1>1. Init => TypeInv
  BY CacheAssumption DEF Init, TypeInv, RegistryType, RequestType, WatchType, Dictionary,
     AttemptsLeft, Version, Content
<1>2. TypeInv /\ [Next]_vars => TypeInv'
  BY RequestKeeps, WatchKeeps, OthersKeep DEF Next
<1> QED BY <1>1, <1>2, PTL DEF Spec

(* Every variable keeps its type, and the reconnect counter its limit.     *)
THEOREM TypeCorrect == Spec => []TypeOK
<1>1. TypeInv => TypeOK
  BY TypeParts
<1> QED BY <1>1, TypeInvariant, PTL

-----------------------------------------------------------------------------
(* The bound.  A step either only drops entries, or keeps the keys, or     *)
(* stores one entry and evicts.                                            *)
KeysShrink == DOMAIN cache' \subseteq DOMAIN cache

LEMMA KeysMove ==
  ASSUME TypeInv, [Next]_vars
  PROVE  \/ KeysShrink
         \/ \E r \in Request : Fill(r)
<1> USE DEF KeysShrink
<1>1. ASSUME NEW r \in Request, NEW k \in Key, Hit(r, k) \/ Miss(r, k)
      PROVE  KeysShrink
  BY <1>1 DEF Hit, Miss
<1>2. ASSUME NEW r \in Request, ReadFails(r) \/ ReadRegistry(r) \/ ServeStale(r)
      PROVE  KeysShrink
  BY <1>2 DEF ReadFails, ReadRegistry, ServeStale
<1>3. ASSUME NEW services, Invalidate(services)
      PROVE  KeysShrink
  BY <1>3, ForgetKeeps DEF Invalidate, TypeInv
<1>4. ASSUME WatchStep \/ WatchRaises \/ WatchBreaks \/ StopWatch
      PROVE  KeysShrink
  <2>1. CASE HandleEvent
    BY <2>1, ForgetKeeps DEF HandleEvent, TypeInv
  <2> QED
    BY <1>4, <2>1 DEF WatchStep, Connect, Reconnect, WatchRaises, WatchBreaks, StopWatch
<1>5. CASE Tick \/ UNCHANGED vars \/ \E s \in Service : RegistryPut(s) \/ RegistryDelete(s)
  BY <1>5 DEF Tick, vars, RegistryPut, RegistryDelete
<1> QED BY <1>1, <1>2, <1>3, <1>4, <1>5 DEF Next, RequestStep

(* The entries that survive a fill are at most max_entries.                *)
LEMMA FillBounded ==
  ASSUME TypeInv, IsFiniteSet(DOMAIN cache), NEW r \in Request, Fill(r)
  PROVE  IsFiniteSet(DOMAIN cache') /\ Cardinality(DOMAIN cache') <= MaxEntries
<1> DEFINE dict == Stored(wanted[r], [value |-> seen[r], age |-> 0])
<1>1. wanted[r] \in Key /\ seen[r] \in Content
  BY DEF Fill, TypeInv, RequestType
<1>2. Dictionary(dict) /\ DOMAIN dict = DOMAIN cache \cup {wanted[r]}
  BY <1>1, StoredDictionary DEF TypeInv
<1>3. IsFiniteSet(DOMAIN dict)
  BY <1>2, FS_AddElement
<1>4. PICK kept \in Survivors(dict, wanted[r]) : cache' = Restrict(dict, kept)
  BY DEF Fill
<1> HIDE DEF dict
<1>5. kept \in SUBSET DOMAIN dict
  BY <1>4 DEF Survivors
<1>6. DOMAIN cache' = kept
  BY <1>2, <1>4, <1>5, RestrictedDictionary
<1>7. IsFiniteSet(kept) /\ Cardinality(kept) \in Nat
  BY <1>3, <1>5, FS_Subset, FS_CardinalityType
<1>8. Cardinality(kept) <= MaxEntries
  BY <1>4, <1>7, CacheAssumption DEF Survivors
<1> QED BY <1>6, <1>7, <1>8

BoundInv == IsFiniteSet(DOMAIN cache) /\ CacheBounded

(* However the requests interleave, the cache never holds more than        *)
(* max_entries entries (_ensure_cache_size).                               *)
THEOREM CacheStaysBounded == Spec => []CacheBounded
<1>1. Init => BoundInv
  BY CacheAssumption, FS_EmptySet DEF Init, BoundInv, CacheBounded
<1>2. TypeInv /\ BoundInv /\ [Next]_vars => BoundInv'
  <2> SUFFICES ASSUME TypeInv, BoundInv, [Next]_vars
               PROVE  BoundInv'
    OBVIOUS
  <2>1. CASE KeysShrink
    <3>1. IsFiniteSet(DOMAIN cache') /\ Cardinality(DOMAIN cache') <= Cardinality(DOMAIN cache)
      BY <2>1, FS_Subset DEF KeysShrink, BoundInv
    <3>2. Cardinality(DOMAIN cache) \in Nat /\ Cardinality(DOMAIN cache') \in Nat
      BY <3>1, FS_CardinalityType DEF BoundInv
    <3> QED BY <3>1, <3>2, CacheAssumption DEF BoundInv, CacheBounded
  <2>2. CASE \E r \in Request : Fill(r)
    BY <2>2, FillBounded DEF BoundInv, CacheBounded
  <2> QED BY <2>1, <2>2, KeysMove
<1>3. BoundInv => CacheBounded
  BY DEF BoundInv
<1> QED BY <1>1, <1>2, <1>3, TypeInvariant, PTL DEF Spec

-----------------------------------------------------------------------------
(* Over a discovery that raises, a request about to store its result has   *)
(* one.                                                                    *)
ResultRead == \A r \in Request : place[r] = "fill" => seen[r] # Nothing

LEMMA ResultReadKept ==
  ASSUME InnerRaises, TypeInv, ResultRead, [Next]_vars
  PROVE  ResultRead'
<1>1. ASSUME NEW r \in Request, (\E k \in Key : Hit(r, k) \/ Miss(r, k)) \/ ReadFails(r)
      PROVE  ResultRead'
  BY <1>1 DEF ResultRead, TypeInv, RequestType, Hit, Miss, ReadFails
<1>2. ASSUME NEW r \in Request, ReadRegistry(r)
      PROVE  ResultRead'
  <2>1. registry[wanted[r][1]] \in Version
    BY <1>2 DEF ReadRegistry, TypeInv, RequestType, RegistryType, Key
  <2>2. registry[wanted[r][1]] # Nothing
    BY <2>1, CacheAssumption DEF Version
  <2> QED BY <1>2, <2>2 DEF ResultRead, TypeInv, RequestType, ReadRegistry
<1>3. ASSUME NEW r \in Request, Fill(r) \/ ServeStale(r)
      PROVE  ResultRead'
  BY <1>3 DEF ResultRead, TypeInv, RequestType, Fill, ServeStale, Return
<1>4. CASE UNCHANGED requestVars
  BY <1>4 DEF ResultRead, requestVars
<1> QED
  BY <1>1, <1>2, <1>3, <1>4 DEF Next, RequestStep, Invalidate, RegistryPut, RegistryDelete, WatchStep,
     Connect, Reconnect, HandleEvent, WatchRaises, WatchBreaks, StopWatch, Tick, vars

(* If the wrapped discovery raises on failure, a failed call is answered   *)
(* from the cache whenever that has an entry.  The assumption excludes     *)
(* BasicServiceDiscovery.                                                  *)
THEOREM RaisingInnerServesCache ==
  ASSUME InnerRaises
  PROVE  Spec => FailureServesCache
<1>1. Init => ResultRead
  BY DEF Init, ResultRead
<1>2. TypeInv /\ ResultRead /\ [Next]_vars => ResultRead'
  BY ResultReadKept
<1> DEFINE Served ==
      \A r \in Request :
        /\ place[r] = "failed" \/ (place[r] = "fill" /\ seen[r] = Nothing)
        /\ place'[r] = "idle" /\ wanted[r] \in DOMAIN cache
        => answer'[r] = cache[wanted[r]].value
<1>3. TypeInv /\ ResultRead /\ [Next]_vars => [Served]_vars
  <2> SUFFICES ASSUME TypeInv, ResultRead, Next, NEW r \in Request,
                      place[r] = "failed", place'[r] = "idle", wanted[r] \in DOMAIN cache
               PROVE  answer'[r] = cache[wanted[r]].value
    BY DEF ResultRead
  <2>1. ServeStale(r)
    BY DEF Next, RequestStep, Hit, Miss, ReadFails, ReadRegistry, Fill, ServeStale, Return,
       Invalidate, RegistryPut, RegistryDelete, WatchStep, Connect, Reconnect, HandleEvent,
       WatchRaises, WatchBreaks, StopWatch, Tick, requestVars, TypeInv, RequestType
  <2> QED BY <2>1 DEF ServeStale, Return, TypeInv, RequestType
<1> QED BY <1>1, <1>2, <1>3, TypeInvariant, PTL DEF Spec, FailureServesCache

-----------------------------------------------------------------------------
(* ServiceDefinitions                                                      *)

(* Where a request can be, and the types of the state.                     *)
AskPlace == {"new", "exists", "load", "check", "compare", "put", "delete", "keys", "entry", "done"}

DefTypes ==
  /\ def \in Definition \cup {NoDef} /\ rev \in Nat /\ defRev \in 0 .. rev
  /\ wrote \in Ask \cup {NoDef}
  /\ askKind \in [Ask -> AskKind] /\ given \in [Ask -> Nat]
  /\ askAt \in [Ask -> AskPlace]
  /\ base \in [Ask -> Definition \cup {NoDef}]
  /\ result \in [Ask -> Answer \cup {0}]
  /\ witnessed \in [Ask -> SUBSET BOOLEAN] /\ hit \in [Ask -> BOOLEAN]
  /\ before \in [Ask -> SUBSET Ask] /\ crossed \in [Ask -> BOOLEAN]
  /\ task \in {"off", "waiting", "listing"}
  /\ defFaults \in 0 .. MaxDefFaults

(* The history of one request, as far as its place tells it.               *)
IsUpdate(a) == askKind[a] \in {"setOwner", "setVersion"}
KindFits(a) ==
  /\ (askAt[a] = "done") = (result[a] \in Answer)
  /\ askAt[a] = "exists" => askKind[a] \in {"create", "delete"}
  /\ askAt[a] \in {"load", "check", "compare"} => IsUpdate(a)
  /\ askAt[a] = "put" => askKind[a] = "create" \/ IsUpdate(a)
  /\ given[a] # NoRevision => IsUpdate(a)

(* It has seen what is there now, and a create that found nothing, that.   *)
SeenFits(a) ==
  /\ Under(a) /\ There => TRUE \in witnessed[a]
  /\ Under(a) /\ ~There => FALSE \in witnessed[a]
  /\ askAt[a] = "put" /\ askKind[a] = "create" /\ ~hit[a] => FALSE \in witnessed[a]
  /\ askAt[a] = "done" /\ ~hit[a] =>
       /\ result[a] \in {404, 204, 201} => FALSE \in witnessed[a]
       /\ result[a] \in {409, 201} => TRUE \in witnessed[a]

(* What an update has loaded is there still, or another has written since: *)
(* one that had not ended when the update began.                           *)
BaseFits(a) ==
  /\ given[a] <= rev
  /\ IsUpdate(a) /\ askAt[a] \in {"check", "compare", "put"} =>
       base[a] \in Definition /\ (base[a] = def \/ wrote \notin before[a])
  /\ askAt[a] \in {"check", "compare"} => base[a] = def \/ defRev > given[a]
  /\ askAt[a] = "put" /\ given[a] # NoRevision /\ ~crossed[a] => base[a] = def
  /\ \A b \in before[a] : askAt[b] = "done"

AskFits(a) == KindFits(a) /\ SeenFits(a) /\ BaseFits(a)

(* Only requests that end have written.                                    *)
Ended == {a \in Ask : askAt[a] = "done"}
DefInv ==
  /\ DefTypes /\ \A a \in Ask : AskFits(a)
  /\ rev <= Cardinality(Ended)

(* The assumption, in parts.                                               *)
LEMMA DefBounds ==
  /\ Ask \subseteq Nat /\ IsFiniteSet(Ask) /\ MaxDefFaults \in Nat
  /\ NoDef \notin Definition
BY DefinitionAssumption DEF Definition, Field

(* At the beginning no request was made.                                   *)
LEMMA DefBegins ==
  ASSUME DefinitionInit PROVE DefInv
<1> USE DEF DefinitionInit, NoRevision
<1>1. DefTypes
  BY DefBounds DEF DefTypes, AskPlace, AskKind, Answer
<1>2. \A a \in Ask : AskFits(a)
  BY DEF AskFits, KindFits, SeenFits, BaseFits, IsUpdate, Under, Answer
<1>3. rev <= Cardinality(Ended)
  <2>1. Ended = {}
    BY DEF Ended
  <2>2. QED
    BY <2>1, FS_EmptySet
<1>4. QED
  BY <1>1, <1>2, <1>3 DEF DefInv

(* What a request is, has and has been told.                               *)
Own(b) == <<askAt[b], askKind[b], given[b], base[b], result[b], hit[b], before[b]>>

(* What a step of one request leaves of the others.                        *)
LEMMA OtherFits ==
  ASSUME DefInv, NEW b \in Ask, Own(b)' = Own(b), NEW a, a # b, a \notin Ended,
         Ended \subseteq Ended',
         \/ UNCHANGED keyVars /\ crossed'[b] = crossed[b] /\ witnessed'[b] = witnessed[b]
         \/ \E d : Write(a, d)
  PROVE  AskFits(b)'
<1>1. AskFits(b) /\ DefTypes
  BY DEF DefInv
<1>2. /\ askAt'[b] = askAt[b] /\ askKind'[b] = askKind[b] /\ given'[b] = given[b]
      /\ base'[b] = base[b] /\ result'[b] = result[b] /\ hit'[b] = hit[b] /\ before'[b] = before[b]
  BY DEF Own
<1>0. hit[b] \in BOOLEAN /\ crossed[b] \in BOOLEAN /\ (hit'[b] <=> hit[b])
  <2>1. hit[b] \in BOOLEAN /\ crossed[b] \in BOOLEAN
    BY <1>1 DEF DefTypes
  <2>2. QED
    BY <1>2, <2>1
<1>3. KindFits(b)'
  BY <1>1, <1>2 DEF AskFits, KindFits, IsUpdate
<1>4. \A c \in before[b] : c \in Ask /\ askAt'[c] = "done" /\ c # a
  BY <1>1 DEF AskFits, BaseFits, DefTypes, Ended
<1>5. CASE UNCHANGED keyVars /\ crossed'[b] = crossed[b] /\ witnessed'[b] = witnessed[b]
  <2>1. SeenFits(b)'
    <3>1. (Under(b) <=> Under(b)') /\ (There' <=> There)
      BY <1>2, <1>5 DEF Under, There, keyVars
    <3>2. witnessed'[b] = witnessed[b] /\ SeenFits(b)
      BY <1>1, <1>5 DEF AskFits
    <3>3. /\ Under(b)' /\ There' => TRUE \in witnessed'[b]
          /\ Under(b)' /\ ~There' => FALSE \in witnessed'[b]
      BY <3>1, <3>2 DEF SeenFits
    <3>4. /\ askAt'[b] = "put" /\ askKind'[b] = "create" /\ ~hit'[b] => FALSE \in witnessed'[b]
          /\ askAt'[b] = "done" /\ ~hit'[b] =>
               /\ result'[b] \in {404, 204, 201} => FALSE \in witnessed'[b]
               /\ result'[b] \in {409, 201} => TRUE \in witnessed'[b]
      <4>1. askAt'[b] = "put" /\ askKind'[b] = "create" /\ ~hit'[b] => FALSE \in witnessed'[b]
        BY <1>0, <1>2, <3>2, ZenonT(60) DEF SeenFits
      <4>2. askAt'[b] = "done" /\ ~hit'[b] /\ result'[b] \in {404, 204, 201}
              => FALSE \in witnessed'[b]
        BY <1>0, <1>2, <3>2, ZenonT(60) DEF SeenFits
      <4>3. askAt'[b] = "done" /\ ~hit'[b] /\ result'[b] \in {409, 201} => TRUE \in witnessed'[b]
        BY <1>0, <1>2, <3>2, ZenonT(60) DEF SeenFits
      <4>4. QED
        BY <4>1, <4>2, <4>3, ZenonT(60)
    <3>5. QED
      BY <3>3, <3>4 DEF SeenFits
  <2>2. BaseFits(b)'
    BY <1>1, <1>2, <1>4, <1>5 DEF AskFits, BaseFits, IsUpdate, keyVars
  <2>3. QED
    BY <1>3, <2>1, <2>2 DEF AskFits
<1>6. ASSUME NEW d, Write(a, d) PROVE AskFits(b)'
  <2>1. /\ def' = d /\ rev' = rev + 1 /\ defRev' = rev + 1 /\ wrote' = a
        /\ crossed'[b] = (crossed[b] \/ askAt[b] = "put")
        /\ witnessed'[b] = witnessed[b] \cup (IF Under(b) THEN {d # NoDef} ELSE {})
    BY <1>6 DEF Write
  <2>2. SeenFits(b)'
    <3>1. (Under(b) <=> Under(b)') /\ (There' <=> d # NoDef)
      BY <1>2, <2>1 DEF Under, There
    <3>2. /\ Under(b) /\ There' => TRUE \in witnessed'[b]
          /\ Under(b) /\ ~There' => FALSE \in witnessed'[b]
      <4>1. CASE Under(b) /\ There'
        BY <2>1, <3>1, <4>1
      <4>2. CASE Under(b) /\ ~There'
        BY <2>1, <3>1, <4>2
      <4>3. QED
        BY <4>1, <4>2
    <3>3. witnessed[b] \subseteq witnessed'[b]
      BY <2>1
    <3>4. SeenFits(b)
      BY <1>1 DEF AskFits
    <3>5. /\ askAt'[b] = "put" /\ askKind'[b] = "create" /\ ~hit'[b] => FALSE \in witnessed'[b]
          /\ askAt'[b] = "done" /\ ~hit'[b] =>
               /\ result'[b] \in {404, 204, 201} => FALSE \in witnessed'[b]
               /\ result'[b] \in {409, 201} => TRUE \in witnessed'[b]
      <4>1. askAt'[b] = "put" /\ askKind'[b] = "create" /\ ~hit'[b] => FALSE \in witnessed'[b]
        BY <1>0, <1>2, <3>3, <3>4, ZenonT(60) DEF SeenFits
      <4>2. askAt'[b] = "done" /\ ~hit'[b] /\ result'[b] \in {404, 204, 201}
              => FALSE \in witnessed'[b]
        BY <1>0, <1>2, <3>3, <3>4, ZenonT(60) DEF SeenFits
      <4>3. askAt'[b] = "done" /\ ~hit'[b] /\ result'[b] \in {409, 201} => TRUE \in witnessed'[b]
        BY <1>0, <1>2, <3>3, <3>4, ZenonT(60) DEF SeenFits
      <4>4. QED
        BY <4>1, <4>2, <4>3, ZenonT(60)
    <3>6. QED
      BY <3>1, <3>2, <3>5 DEF SeenFits
  <2>3. BaseFits(b)'
    <3>1. rev \in Nat /\ given[b] \in Nat /\ given[b] <= rev
      BY <1>1 DEF DefTypes, AskFits, BaseFits
    <3>2. a \notin before[b]
      BY <1>4
    <3>3. askAt[b] = "put" => crossed'[b]
      BY <2>1
    <3>4. given'[b] <= rev' /\ defRev' > given'[b]
      BY <1>2, <2>1, <3>1
    <3>5. IsUpdate(b) /\ askAt[b] \in {"check", "compare", "put"} => base[b] \in Definition
      BY <1>1 DEF AskFits, BaseFits
    <3>6. QED
      BY <1>2, <1>4, <2>1, <3>2, <3>3, <3>4, <3>5 DEF BaseFits, IsUpdate
  <2>4. QED
    BY <1>3, <2>2, <2>3 DEF AskFits
<1>7. QED
  BY <1>5, <1>6

(* The step of a request counts: it ends at most once, and writes then.    *)
Moves(a) ==
  \/ Ended' = Ended /\ rev' = rev
  \/ a \in Ask \ Ended /\ Ended' = Ended \cup {a} /\ rev' \in {rev, rev + 1}

(* So no more was written than requests have ended.                        *)
LEMMA EndedCounts ==
  ASSUME DefInv, NEW a, Moves(a)
  PROVE  rev' <= Cardinality(Ended')
<1>1. Ended \subseteq Ask /\ IsFiniteSet(Ended)
  BY DefBounds, FS_Subset DEF Ended
<1>2. Cardinality(Ended) \in Nat /\ rev \in Nat /\ rev <= Cardinality(Ended)
  BY <1>1, FS_CardinalityType DEF DefInv, DefTypes
<1>3. CASE a \in Ask \ Ended /\ Ended' = Ended \cup {a} /\ rev' \in {rev, rev + 1}
  <2>1. Cardinality(Ended \cup {a}) = Cardinality(Ended) + 1
    BY <1>1, <1>3, FS_AddElement
  <2>2. QED
    BY <1>2, <1>3, <2>1
<1>4. QED
  BY <1>2, <1>3 DEF Moves

(* The type invariant of the module follows, with its bound on revisions.  *)
LEMMA TypesAsked ==
  ASSUME DefInv, \A a \in Ask : given[a] <= rev
  PROVE  DefinitionTypeOK
<1>1. Ended \subseteq Ask /\ IsFiniteSet(Ask)
  BY DefBounds DEF Ended
<1>2. /\ Cardinality(Ended) <= Cardinality(Ask)
      /\ Cardinality(Ask) \in Nat /\ Cardinality(Ended) \in Nat
  BY <1>1, FS_Subset, FS_CardinalityType
<1>3. rev \in 0 .. MaxRevision
  BY <1>2 DEF DefInv, DefTypes, MaxRevision
<1>4. given \in [Ask -> 0 .. MaxRevision]
  <2>1. \A a \in Ask : given[a] \in 0 .. MaxRevision
    BY <1>2, <1>3 DEF DefInv, DefTypes, MaxRevision
  <2>2. QED
    BY <2>1 DEF DefInv, DefTypes
<1>5. QED
  BY <1>3, <1>4 DEF DefInv, DefTypes, DefinitionTypeOK, AskFits, KindFits, AskPlace

-----------------------------------------------------------------------------
(* An action that only moves request a on keeps the others.                *)
LEMMA AskMoves ==
  ASSUME DefInv, NEW a \in Ask, NEW p \in AskPlace, askAt[a] # "done",
         askAt' = [askAt EXCEPT ![a] = p]
  PROVE  /\ p = "done" => Ended' = Ended \cup {a} /\ a \in Ask \ Ended
         /\ p # "done" => Ended' = Ended
         /\ Ended \subseteq Ended' /\ a \notin Ended
BY DEF DefInv, DefTypes, Ended
(* A reading: the definition, or nothing after a failing call.             *)
LEMMA ReadsTell ==
  ASSUME DefInv, NEW a \in Ask, NEW d, Reads(a, d)
  PROVE  /\ d \in Definition \cup {NoDef}
         /\ hit' \in [Ask -> BOOLEAN] /\ defFaults' \in 0 .. MaxDefFaults
         /\ \A b \in Ask : b # a => hit'[b] = hit[b]
         /\ ~hit'[a] => ~hit[a] /\ d = def
<1>1. hit \in [Ask -> BOOLEAN] /\ def \in Definition \cup {NoDef} /\ defFaults \in 0 .. MaxDefFaults
  BY DEF DefInv, DefTypes
<1>2. CASE d = def /\ Smooth
  BY <1>1, <1>2 DEF Smooth
<1>3. CASE d = NoDef /\ Trips(a)
  BY <1>1, <1>3, DefBounds DEF Trips
<1>4. QED
  BY <1>2, <1>3 DEF Reads

(* ... and a call that reads nothing, which fails or does not.             *)
LEMMA SmoothTells ==
  ASSUME DefInv, NEW a \in Ask, Smooth \/ Trips(a)
  PROVE  /\ hit' \in [Ask -> BOOLEAN] /\ defFaults' \in 0 .. MaxDefFaults
         /\ \A b \in Ask : b # a => hit'[b] = hit[b]
         /\ ~hit'[a] => ~hit[a] /\ Smooth
<1>1. hit \in [Ask -> BOOLEAN] /\ defFaults \in 0 .. MaxDefFaults
  BY DEF DefInv, DefTypes
<1>2. CASE Smooth
  BY <1>1, <1>2 DEF Smooth
<1>3. CASE Trips(a)
  BY <1>1, <1>3, DefBounds DEF Trips
<1>4. QED
  BY <1>2, <1>3

(* What is there, and what is not, one may have witnessed.                 *)
LEMMA SeenNow ==
  ASSUME DefInv, NEW a \in Ask, Under(a)
  PROVE  /\ def = NoDef => FALSE \in witnessed[a]
         /\ def # NoDef => TRUE \in witnessed[a]
BY DEF DefInv, AskFits, SeenFits, There

(* A request is made.                                                      *)
LEMMA ArrivesStays ==
  ASSUME DefInv, NEW a \in Ask, Arrives(a)
  PROVE  DefInv'
<1> USE DEF Arrives, Goes, Smooth
<1>1. PICK k \in AskKind, r \in 0 .. rev :
        /\ askKind' = [askKind EXCEPT ![a] = k] /\ given' = [given EXCEPT ![a] = r]
        /\ askAt' = [askAt EXCEPT ![a] = FirstCall(k)] /\ UNCHANGED result
        /\ r # NoRevision => k \in {"setOwner", "setVersion"}
  <2>1. PICK k \in AskKind :
          /\ askKind' = [askKind EXCEPT ![a] = k]
          /\ \E r \in IF k \in {"setOwner", "setVersion"} THEN 0 .. rev ELSE {NoRevision} :
               given' = [given EXCEPT ![a] = r]
          /\ Goes(a, FirstCall(k))
    BY Zenon
  <2>2. PICK r \in IF k \in {"setOwner", "setVersion"} THEN 0 .. rev ELSE {NoRevision} :
          given' = [given EXCEPT ![a] = r]
    BY <2>1
  <2>3. r \in 0 .. rev /\ (r # NoRevision => k \in {"setOwner", "setVersion"})
    BY <2>2 DEF NoRevision, DefInv, DefTypes
  <2>4. QED
    BY <2>1, <2>2, <2>3
<1>2. FirstCall(k) \in {"exists", "keys", "load"} /\ FirstCall(k) \in AskPlace
  BY <1>1 DEF FirstCall, AskPlace
<1>3. Ended' = Ended /\ a \notin Ended
  BY <1>1, <1>2, AskMoves
<1>4. DefTypes'
  BY <1>1, <1>2 DEF DefInv, DefTypes, There, keyVars
<1>5. ASSUME NEW b \in Ask, b # a PROVE AskFits(b)'
  <2>1. /\ Own(b)' = Own(b) /\ UNCHANGED keyVars
        /\ crossed'[b] = crossed[b] /\ witnessed'[b] = witnessed[b]
    BY <1>1, <1>5 DEF Own, DefInv, DefTypes
  <2>2. QED
    BY <1>3, <1>5, <2>1, OtherFits
<1>6. /\ askAt'[a] = FirstCall(k) /\ askKind'[a] = k /\ given'[a] = r /\ result'[a] = result[a]
      /\ witnessed'[a] = {There} /\ before'[a] = {b \in Ask : askAt[b] = "done"}
      /\ UNCHANGED keyVars
  BY <1>1 DEF DefInv, DefTypes
<1>7. KindFits(a)'
  <2>1. result[a] \notin Answer
    BY DEF DefInv, AskFits, KindFits
  <2>2. FirstCall(k) = "exists" => k \in {"create", "delete"}
    BY DEF FirstCall
  <2>3. FirstCall(k) = "load" => k \in {"setOwner", "setVersion"}
    BY <1>1 DEF FirstCall, AskKind
  <2>4. QED
    BY <1>1, <1>2, <1>6, <2>1, <2>2, <2>3 DEF KindFits, IsUpdate
<1>8. SeenFits(a)'
  <2>1. There' <=> There
    BY <1>6 DEF There, keyVars
  <2>2. /\ There' => TRUE \in witnessed'[a]
        /\ ~There' => FALSE \in witnessed'[a]
    <3>1. CASE There
      BY <1>6, <2>1, <3>1
    <3>2. CASE ~There
      <4>1. There = FALSE
        BY <3>2 DEF There
      <4>2. FALSE \in {There}
        BY <4>1, Zenon
      <4>3. QED
        BY <1>6, <2>1, <3>2, <4>2
    <3>3. QED
      BY <3>1, <3>2
  <2>3. QED
    BY <1>2, <1>6, <2>2 DEF SeenFits
<1>9. BaseFits(a)'
  <2>1. rev' = rev /\ r <= rev
    BY <1>1, <1>6 DEF keyVars, DefInv, DefTypes
  <2>2. \A b \in before'[a] : askAt'[b] = "done"
    BY <1>3, <1>6 DEF Ended
  <2>3. QED
    BY <1>2, <1>6, <2>1, <2>2 DEF BaseFits
<1>10. Moves(a)
  BY <1>3, <1>6 DEF Moves, keyVars
<1>11. QED
  BY <1>4, <1>5, <1>7, <1>8, <1>9, <1>10, EndedCounts DEF DefInv, AskFits

(* What the calls that only read have in common.                           *)
LEMMA ReadingStays ==
  ASSUME DefInv, NEW a \in Ask, NEW p \in AskPlace, askAt' = [askAt EXCEPT ![a] = p],
         Under(a), hit' \in [Ask -> BOOLEAN], defFaults' \in 0 .. MaxDefFaults,
         \A b \in Ask : b # a => hit'[b] = hit[b],
         base' \in [Ask -> Definition \cup {NoDef}], \A b \in Ask : b # a => base'[b] = base[b],
         result' \in [Ask -> Answer \cup {0}], \A b \in Ask : b # a => result'[b] = result[b],
         crossed' \in [Ask -> BOOLEAN], \A b \in Ask : b # a => crossed'[b] = crossed[b],
         UNCHANGED <<keyVars, witnessed>>, Asking
  PROVE  /\ DefTypes' /\ rev' <= Cardinality(Ended')
         /\ \A b \in Ask : b # a => AskFits(b)'
         /\ Under(a)' \/ p \in {"new", "done"}
         /\ AskFits(a)' => DefInv'
<1>1. askAt[a] # "done"
  BY DEF Under
<1>2. Moves(a)
  BY <1>1, AskMoves DEF Moves, keyVars, DefInv, DefTypes
<1>3. DefTypes'
  BY DEF DefInv, DefTypes, Asking, keyVars
<1>4. ASSUME NEW b \in Ask, b # a PROVE AskFits(b)'
  <2>1. /\ Own(b)' = Own(b) /\ UNCHANGED keyVars
        /\ crossed'[b] = crossed[b] /\ witnessed'[b] = witnessed[b]
    BY <1>4 DEF Own, DefInv, DefTypes, Asking
  <2>2. QED
    BY <1>1, <1>4, <2>1, AskMoves, OtherFits
<1>5. rev' <= Cardinality(Ended')
  BY <1>2, EndedCounts
<1>6. askAt'[a] = p
  BY DEF DefInv, DefTypes
<1>7. QED
  BY <1>3, <1>4, <1>5, <1>6 DEF DefInv, Under
(* What a call leaves of the request that makes it.                        *)
Stays(a) == /\ UNCHANGED <<keyVars, witnessed>>
            /\ askKind'[a] = askKind[a] /\ given'[a] = given[a] /\ before'[a] = before[a]

(* A request that ends with a true answer.                                 *)
LEMMA AskEnds ==
  ASSUME DefInv, NEW a \in Ask, Under(a), Stays(a), NEW x \in Answer,
         askAt'[a] = "done", result'[a] = x, Ended \subseteq Ended',
         ~hit'[a] /\ x \in {404, 204, 201} => def = NoDef,
         ~hit'[a] /\ x \in {409, 201} => def # NoDef
  PROVE  AskFits(a)'
<1>1. AskFits(a)
  BY DEF DefInv
<1>2. KindFits(a)'
  BY <1>1 DEF AskFits, KindFits, IsUpdate, Stays
<1>3. (def = NoDef => FALSE \in witnessed[a]) /\ (def # NoDef => TRUE \in witnessed[a])
  BY SeenNow
<1>4. SeenFits(a)'
  <2>1. ~Under(a)'
    BY DEF Under
  <2>2. ~hit'[a] /\ result'[a] \in {404, 204, 201} => FALSE \in witnessed'[a]
    BY <1>3 DEF Stays
  <2>3. ~hit'[a] /\ result'[a] \in {409, 201} => TRUE \in witnessed'[a]
    BY <1>3 DEF Stays
  <2>4. QED
    BY <2>1, <2>2, <2>3, ZenonT(60) DEF SeenFits
<1>5. BaseFits(a)'
  BY <1>1 DEF AskFits, BaseFits, Stays, keyVars, Ended, DefInv, DefTypes
<1>6. QED
  BY <1>2, <1>4, <1>5 DEF AskFits

(* An update, or a listing or deletion, that goes on.                      *)
LEMMA AskGoesOn ==
  ASSUME DefInv, NEW a \in Ask, Under(a), Stays(a),
         askAt'[a] \in {"check", "compare", "put", "entry"}, result'[a] = result[a],
         Ended \subseteq Ended',
         askAt'[a] # "entry" =>
           IsUpdate(a) /\ base'[a] \in Definition /\ (base'[a] = def \/ wrote \notin before[a]),
         askAt'[a] \in {"check", "compare"} => base'[a] = def \/ defRev > given[a],
         askAt'[a] = "put" /\ given[a] # NoRevision /\ ~crossed'[a] => base'[a] = def
  PROVE  AskFits(a)'
<1>1. AskFits(a)
  BY DEF DefInv
<1>2. KindFits(a)'
  BY <1>1 DEF AskFits, KindFits, IsUpdate, Stays, Under
<1>3. (def = NoDef => FALSE \in witnessed[a]) /\ (def # NoDef => TRUE \in witnessed[a])
  BY SeenNow
<1>4. SeenFits(a)'
  <2>1. /\ There' => TRUE \in witnessed'[a]
        /\ ~There' => FALSE \in witnessed'[a]
    BY <1>3 DEF There, Stays, keyVars
  <2>2. ~(askAt'[a] = "put" /\ askKind'[a] = "create")
    BY DEF Stays, IsUpdate
  <2>3. QED
    BY <2>1, <2>2 DEF SeenFits
<1>5. BaseFits(a)'
  BY <1>1 DEF AskFits, BaseFits, Stays, keyVars, Ended, DefInv, DefTypes
<1>6. QED
  BY <1>2, <1>4, <1>5 DEF AskFits

(* The check whether a service exists, of a create or a deletion.          *)
LEMMA ExistsStays ==
  ASSUME DefInv, NEW a \in Ask, Exists(a)
  PROVE  DefInv'
<1> USE DEF Exists
<1>1. PICK d \in {def, NoDef} :
        /\ Reads(a, d)
        /\ \/ askKind[a] = "create" /\ IF d = NoDef THEN Goes(a, "put") ELSE Ends(a, 409)
           \/ askKind[a] = "delete" /\ IF d = NoDef THEN Ends(a, 404) ELSE Goes(a, "delete")
  OBVIOUS
<1>2. /\ d \in Definition \cup {NoDef}
      /\ hit' \in [Ask -> BOOLEAN] /\ defFaults' \in 0 .. MaxDefFaults
      /\ \A b \in Ask : b # a => hit'[b] = hit[b]
      /\ ~hit'[a] => ~hit[a] /\ d = def
  BY <1>1, ReadsTell
<1>3. Under(a) /\ result[a] \notin Answer /\ KindFits(a)
  BY DEF Under, DefInv, AskFits, KindFits
<1>4. /\ UNCHANGED <<keyVars, crossed, witnessed>> /\ Asking /\ UNCHANGED base
      /\ askKind'[a] = askKind[a] /\ base'[a] = base[a]
      /\ given'[a] = given[a] /\ before'[a] = before[a]
  BY DEF Untouched, Asking
<1>5. PICK p \in {"put", "delete", "done"}, x \in Answer \cup {0} :
        /\ askAt' = [askAt EXCEPT ![a] = p]
        /\ result' = IF p = "done" THEN [result EXCEPT ![a] = x] ELSE result
        /\ p = "put" => askKind[a] = "create" /\ d = NoDef
        /\ p = "done" => x \in {404, 409} /\ (x = 404 => d = NoDef) /\ (x = 409 => d # NoDef)
  <2>1. CASE askKind[a] = "create" /\ d = NoDef /\ Goes(a, "put")
    BY <2>1, ZenonT(60) DEF Goes
  <2>2. CASE d # NoDef /\ Ends(a, 409)
    BY <2>2 DEF Ends, Answer
  <2>3. CASE d = NoDef /\ Ends(a, 404)
    BY <2>3 DEF Ends, Answer
  <2>4. CASE d # NoDef /\ Goes(a, "delete")
    BY <2>4 DEF Goes
  <2>5. QED
    BY <1>1, <2>1, <2>2, <2>3, <2>4
<1>6. /\ p \in AskPlace /\ result' \in [Ask -> Answer \cup {0}]
      /\ \A b \in Ask : b # a => result'[b] = result[b]
  BY <1>5 DEF AskPlace, DefInv, DefTypes
<1>7. askAt'[a] = p /\ result'[a] = IF p = "done" THEN x ELSE result[a]
  BY <1>5 DEF DefInv, DefTypes
<1>8. KindFits(a)'
  BY <1>3, <1>4, <1>5, <1>7 DEF KindFits, IsUpdate, Answer
<1>9. (def = NoDef => FALSE \in witnessed[a]) /\ (def # NoDef => TRUE \in witnessed[a])
  BY <1>3, SeenNow
<1>10. SeenFits(a)'
  <2>1. (There' <=> There) /\ witnessed' = witnessed
    BY <1>4 DEF There, keyVars
  <2>2. askAt'[a] = "put" /\ askKind'[a] = "create" /\ ~hit'[a] => FALSE \in witnessed'[a]
    BY <1>2, <1>5, <1>7, <1>9, <2>1, ZenonT(60)
  <2>3. askAt'[a] = "done" /\ ~hit'[a] =>
          /\ result'[a] \in {404, 204, 201} => FALSE \in witnessed'[a]
          /\ result'[a] \in {409, 201} => TRUE \in witnessed'[a]
    <3>1. CASE p = "done" /\ ~hit'[a]
      <4>1. d = def /\ result'[a] = x /\ x \in {404, 409}
        BY <1>2, <1>5, <1>7, <3>1
      <4>5. result'[a] \in {404, 204, 201} => def = NoDef
        BY <1>5, <3>1, <4>1
      <4>6. result'[a] \in {409, 201} => def # NoDef
        BY <1>5, <3>1, <4>1
      <4>2. result'[a] \in {404, 204, 201} => FALSE \in witnessed'[a]
        BY <1>9, <2>1, <4>5
      <4>3. result'[a] \in {409, 201} => TRUE \in witnessed'[a]
        BY <1>9, <2>1, <4>6
      <4>4. QED
        BY <4>2, <4>3
    <3>2. QED
      BY <1>7, <3>1
  <2>4. QED
    BY <1>9, <2>1, <2>2, <2>3 DEF SeenFits, There
<1>11. BaseFits(a)'
  <2>1. p = "put" => ~IsUpdate(a)' /\ given'[a] = NoRevision
    BY <1>4, <1>5 DEF IsUpdate, DefInv, AskFits, KindFits
  <2>2. \A b \in before[a] : askAt'[b] = "done"
    BY <1>5 DEF DefInv, DefTypes, AskFits, BaseFits
  <2>3. given'[a] <= rev'
    BY <1>4 DEF DefInv, AskFits, BaseFits, keyVars
  <2>4. QED
    BY <1>4, <1>5, <1>7, <2>1, <2>2, <2>3 DEF BaseFits
<1>12. base' \in [Ask -> Definition \cup {NoDef}] /\ crossed' \in [Ask -> BOOLEAN]
  BY <1>4 DEF DefInv, DefTypes
<1>13. AskFits(a)'
  BY <1>8, <1>10, <1>11 DEF AskFits
<1>14. QED
  BY <1>2, <1>3, <1>4, <1>5, <1>6, <1>12, <1>13, ReadingStays

(* An update loads what it will change.                                    *)
LEMMA LoadStays ==
  ASSUME DefInv, NEW a \in Ask, Load(a)
  PROVE  DefInv'
<1> USE DEF Load
<1>1. PICK d \in {def, NoDef} :
        /\ Reads(a, d)
        /\ IF d = NoDef THEN Ends(a, 404) /\ UNCHANGED base
           ELSE Goes(a, "check") /\ base' = [base EXCEPT ![a] = d]
  OBVIOUS
<1>2. /\ d \in Definition \cup {NoDef}
      /\ hit' \in [Ask -> BOOLEAN] /\ defFaults' \in 0 .. MaxDefFaults
      /\ \A b \in Ask : b # a => hit'[b] = hit[b]
      /\ ~hit'[a] => ~hit[a] /\ d = def
  BY <1>1, ReadsTell
<1>3. Under(a) /\ AskFits(a) /\ IsUpdate(a) /\ DefTypes
  BY DEF Under, DefInv, AskFits, KindFits
<1>4. Stays(a) /\ UNCHANGED <<keyVars, crossed, witnessed>> /\ Asking
  BY DEF Untouched, Asking, Stays
<1>5. crossed' \in [Ask -> BOOLEAN]
  BY <1>3, <1>4 DEF DefTypes
<1>6. CASE d = NoDef
  <2>1. askAt' = [askAt EXCEPT ![a] = "done"] /\ result' = [result EXCEPT ![a] = 404] /\ base' = base
    BY <1>1, <1>6 DEF Ends
  <2>2. "done" \in AskPlace /\ 404 \in Answer /\ base' \in [Ask -> Definition \cup {NoDef}]
    BY <1>3, <2>1 DEF AskPlace, Answer, DefTypes
  <2>3. result' \in [Ask -> Answer \cup {0}] /\ (\A b \in Ask : b # a => result'[b] = result[b])
        /\ askAt'[a] = "done" /\ result'[a] = 404
    BY <1>3, <2>1, <2>2 DEF DefTypes
  <2>4. Ended \subseteq Ended'
    BY <1>3, <2>1, <2>2, AskMoves DEF Under
  <2>5. AskFits(a)'
    BY <1>2, <1>3, <1>4, <1>6, <2>2, <2>3, <2>4, AskEnds
  <2>6. QED
    BY <1>2, <1>3, <1>4, <1>5, <2>1, <2>2, <2>3, <2>5, ReadingStays, ZenonT(60)
<1>7. CASE d # NoDef
  <2>1. askAt' = [askAt EXCEPT ![a] = "check"] /\ result' = result /\ base' = [base EXCEPT ![a] = d]
    BY <1>1, <1>7 DEF Goes
  <2>2. "check" \in AskPlace /\ base' \in [Ask -> Definition \cup {NoDef}]
        /\ (\A b \in Ask : b # a => base'[b] = base[b]) /\ base'[a] = d
    BY <1>2, <1>3, <2>1 DEF AskPlace, DefTypes
  <2>3. result' \in [Ask -> Answer \cup {0}] /\ askAt'[a] = "check" /\ result'[a] = result[a]
    BY <1>3, <2>1 DEF DefTypes
  <2>4. Ended \subseteq Ended'
    BY <1>3, <2>1, <2>2, AskMoves DEF Under
  <2>5. d = def /\ d \in Definition
    BY <1>2, <1>7
  <2>6. AskFits(a)'
    BY <1>3, <1>4, <2>2, <2>3, <2>4, <2>5, AskGoesOn
  <2>7. QED
    BY <1>2, <1>3, <1>4, <1>5, <2>1, <2>2, <2>3, <2>6, ReadingStays
<1>8. QED
  BY <1>6, <1>7

(* ... looks whether it still exists,                                      *)
LEMMA CheckStays ==
  ASSUME DefInv, NEW a \in Ask, Check(a)
  PROVE  DefInv'
<1> USE DEF Check
<1>1. PICK d \in {def, NoDef} :
        /\ Reads(a, d)
        /\ CASE d = NoDef -> Ends(a, 404)
             [] given[a] = NoRevision -> Goes(a, "put")
             [] OTHER -> Goes(a, "compare")
  OBVIOUS
<1>2. /\ d \in Definition \cup {NoDef}
      /\ hit' \in [Ask -> BOOLEAN] /\ defFaults' \in 0 .. MaxDefFaults
      /\ \A b \in Ask : b # a => hit'[b] = hit[b]
      /\ ~hit'[a] => ~hit[a] /\ d = def
  BY <1>1, ReadsTell
<1>3. Under(a) /\ AskFits(a) /\ IsUpdate(a) /\ DefTypes
  BY DEF Under, DefInv, AskFits, KindFits
<1>4. Stays(a) /\ UNCHANGED <<keyVars, crossed, witnessed, base>> /\ Asking
  BY DEF Untouched, Asking, Stays
<1>5. crossed' \in [Ask -> BOOLEAN] /\ base' \in [Ask -> Definition \cup {NoDef}]
  BY <1>3, <1>4 DEF DefTypes
<1>6. CASE Ends(a, 404) /\ (~hit'[a] => def = NoDef)
  <2>1. askAt' = [askAt EXCEPT ![a] = "done"] /\ result' = [result EXCEPT ![a] = 404]
    BY <1>6 DEF Ends
  <2>2. "done" \in AskPlace /\ 404 \in Answer
    BY DEF AskPlace, Answer
  <2>3. result' \in [Ask -> Answer \cup {0}] /\ (\A b \in Ask : b # a => result'[b] = result[b])
        /\ askAt'[a] = "done" /\ result'[a] = 404
    BY <1>3, <2>1, <2>2 DEF DefTypes
  <2>4. Ended \subseteq Ended'
    BY <1>3, <2>1, <2>2, AskMoves DEF Under
  <2>5. AskFits(a)'
    BY <1>3, <1>4, <1>6, <2>2, <2>3, <2>4, AskEnds
  <2>6. QED
    BY <1>2, <1>3, <1>4, <1>5, <2>1, <2>2, <2>3, <2>5, ReadingStays, ZenonT(60)
<1>7. ASSUME NEW p \in {"put", "compare"}, Goes(a, p), p = "put" => given[a] = NoRevision
      PROVE  DefInv'
  <2>1. askAt' = [askAt EXCEPT ![a] = p] /\ result' = result
    BY <1>7 DEF Goes
  <2>2. p \in AskPlace
    BY DEF AskPlace
  <2>3. result' \in [Ask -> Answer \cup {0}] /\ askAt'[a] = p /\ result'[a] = result[a]
    BY <1>3, <2>1 DEF DefTypes
  <2>4. Ended \subseteq Ended'
    BY <1>3, <1>7, <2>1, <2>2, AskMoves DEF Under
  <2>5. /\ base[a] \in Definition /\ (base[a] = def \/ wrote \notin before[a])
        /\ base[a] = def \/ defRev > given[a]
    BY <1>3 DEF AskFits, BaseFits
  <2>6. AskFits(a)'
    BY <1>3, <1>4, <1>7, <2>3, <2>4, <2>5, AskGoesOn
  <2>7. QED
    BY <1>2, <1>3, <1>4, <1>5, <2>1, <2>2, <2>3, <2>6, ReadingStays
<1>8. QED
  BY <1>1, <1>2, <1>6, <1>7

(* ... and compares its revision with the one it was given.                *)
LEMMA CompareStays ==
  ASSUME DefInv, NEW a \in Ask, Compare(a)
  PROVE  DefInv'
<1> USE DEF Compare
<1>1. /\ hit' \in [Ask -> BOOLEAN] /\ defFaults' \in 0 .. MaxDefFaults
      /\ \A b \in Ask : b # a => hit'[b] = hit[b]
  BY SmoothTells
<1>2. Under(a) /\ AskFits(a) /\ IsUpdate(a) /\ DefTypes
  BY DEF Under, DefInv, AskFits, KindFits
<1>3. Stays(a) /\ UNCHANGED <<keyVars, witnessed, base>> /\ Asking
  BY DEF Asking, Stays, keyVars
<1>4. /\ crossed' \in [Ask -> BOOLEAN] /\ (\A b \in Ask : b # a => crossed'[b] = crossed[b])
      /\ base' \in [Ask -> Definition \cup {NoDef}]
  BY <1>2, <1>3 DEF DefTypes
<1>5. ASSUME NEW x \in {409, 500}, Ends(a, x), x = 409 => def # NoDef
      PROVE  DefInv'
  <2>1. askAt' = [askAt EXCEPT ![a] = "done"] /\ result' = [result EXCEPT ![a] = x]
    BY <1>5 DEF Ends
  <2>2. "done" \in AskPlace /\ x \in Answer
    BY DEF AskPlace, Answer
  <2>3. result' \in [Ask -> Answer \cup {0}] /\ (\A b \in Ask : b # a => result'[b] = result[b])
        /\ askAt'[a] = "done" /\ result'[a] = x
    BY <1>2, <2>1, <2>2 DEF DefTypes
  <2>4. Ended \subseteq Ended'
    BY <1>2, <2>1, <2>2, AskMoves, ZenonT(60) DEF Under
  <2>5. AskFits(a)'
    BY <1>2, <1>3, <1>5, <2>2, <2>3, <2>4, AskEnds
  <2>6. QED
    BY <1>1, <1>2, <1>3, <1>4, <2>1, <2>2, <2>3, <2>5, ReadingStays
<1>6. CASE There /\ defRev = given[a] /\ Goes(a, "put") /\ Smooth
  <2>1. askAt' = [askAt EXCEPT ![a] = "put"] /\ result' = result
    BY <1>6 DEF Goes
  <2>2. "put" \in AskPlace
    BY DEF AskPlace
  <2>3. result' \in [Ask -> Answer \cup {0}] /\ askAt'[a] = "put" /\ result'[a] = result[a]
    BY <1>2, <2>1 DEF DefTypes
  <2>4. Ended \subseteq Ended'
    BY <1>2, <2>1, <2>2, AskMoves DEF Under
  <2>5. base[a] \in Definition /\ (base[a] = def \/ defRev > given[a])
    BY <1>2 DEF AskFits, BaseFits
  <2>6. given[a] \in Nat /\ defRev \in Nat
    BY <1>2 DEF DefTypes
  <2>7. base[a] = def
    BY <1>6, <2>5, <2>6
  <2>8. AskFits(a)'
    BY <1>2, <1>3, <2>3, <2>4, <2>5, <2>7, AskGoesOn
  <2>9. QED
    BY <1>1, <1>2, <1>3, <1>4, <2>1, <2>2, <2>3, <2>8, ReadingStays
<1>7. QED
  BY <1>5, <1>6 DEF There

(* A listing reads the keys and the entry.                                 *)
LEMMA ListStays ==
  ASSUME DefInv, NEW a \in Ask, List(a)
  PROVE  DefInv'
<1> USE DEF List
<1>1. PICK d \in {def, NoDef} :
        /\ Reads(a, d)
        /\ IF askAt[a] = "keys" /\ d # NoDef THEN Goes(a, "entry") /\ UNCHANGED base
           ELSE Ends(a, 200) /\ base' = [base EXCEPT ![a] = d]
  OBVIOUS
<1>2. /\ d \in Definition \cup {NoDef}
      /\ hit' \in [Ask -> BOOLEAN] /\ defFaults' \in 0 .. MaxDefFaults
      /\ \A b \in Ask : b # a => hit'[b] = hit[b]
  BY <1>1, ReadsTell
<1>3. Under(a) /\ DefTypes
  BY DEF Under, DefInv
<1>4. Stays(a) /\ UNCHANGED <<keyVars, crossed, witnessed>> /\ Asking
  BY DEF Untouched, Asking, Stays
<1>5. crossed' \in [Ask -> BOOLEAN]
  BY <1>3, <1>4 DEF DefTypes
<1>6. CASE Ends(a, 200) /\ base' = [base EXCEPT ![a] = d]
  <2>1. askAt' = [askAt EXCEPT ![a] = "done"] /\ result' = [result EXCEPT ![a] = 200]
    BY <1>6 DEF Ends
  <2>2. "done" \in AskPlace /\ 200 \in Answer
    BY DEF AskPlace, Answer
  <2>3. result' \in [Ask -> Answer \cup {0}] /\ (\A b \in Ask : b # a => result'[b] = result[b])
        /\ askAt'[a] = "done" /\ result'[a] = 200
    BY <1>3, <2>1, <2>2 DEF DefTypes
  <2>4. Ended \subseteq Ended'
    BY <1>3, <2>1, <2>2, AskMoves DEF Under
  <2>5. AskFits(a)'
    BY <1>3, <1>4, <2>2, <2>3, <2>4, AskEnds
  <2>6. base' \in [Ask -> Definition \cup {NoDef}] /\ (\A b \in Ask : b # a => base'[b] = base[b])
    BY <1>2, <1>3, <1>6 DEF DefTypes
  <2>7. QED
    BY <1>2, <1>3, <1>4, <1>5, <2>1, <2>2, <2>3, <2>5, <2>6, ReadingStays
<1>7. CASE Goes(a, "entry") /\ UNCHANGED base
  <2>1. askAt' = [askAt EXCEPT ![a] = "entry"] /\ result' = result
    BY <1>7 DEF Goes
  <2>2. "entry" \in AskPlace
    BY DEF AskPlace
  <2>3. result' \in [Ask -> Answer \cup {0}] /\ askAt'[a] = "entry" /\ result'[a] = result[a]
    BY <1>3, <2>1 DEF DefTypes
  <2>4. Ended \subseteq Ended'
    BY <1>3, <2>1, <2>2, AskMoves DEF Under
  <2>5. AskFits(a)'
    BY <1>3, <1>4, <2>3, <2>4, AskGoesOn
  <2>6. base' \in [Ask -> Definition \cup {NoDef}] /\ (\A b \in Ask : b # a => base'[b] = base[b])
    BY <1>3, <1>7 DEF DefTypes
  <2>7. QED
    BY <1>2, <1>3, <1>4, <1>5, <2>1, <2>2, <2>3, <2>5, <2>6, ReadingStays
<1>8. QED
  BY <1>1, <1>6, <1>7

(* What a request writes is a definition.                                  *)
LEMMA MergedIs ==
  ASSUME DefInv, NEW a \in Ask, askAt[a] = "put"
  PROVE  Merged(a) \in Definition /\ Merged(a) # NoDef
<1>1. Merged(a) \in Definition
  <2>1. AskFits(a) /\ DefTypes
    BY DEF DefInv
  <2>2. CASE askKind[a] = "create"
    BY <2>2 DEF Merged, Definition
  <2>3. CASE askKind[a] = "setOwner"
    <3>1. base[a] \in [Field -> Ask]
      BY <2>1, <2>3 DEF AskFits, BaseFits, IsUpdate, Definition
    <3>2. QED
      BY <2>3, <3>1 DEF Merged, Definition, Field
  <2>4. CASE askKind[a] = "setVersion"
    <3>1. base[a] \in [Field -> Ask]
      BY <2>1, <2>4 DEF AskFits, BaseFits, IsUpdate, Definition
    <3>2. QED
      BY <2>4, <3>1 DEF Merged, Definition, Field
  <2>5. QED
    BY <2>1, <2>2, <2>3, <2>4 DEF AskFits, KindFits, IsUpdate
<1>2. QED
  BY <1>1, DefBounds

(* A request that ends, and may have written.                              *)
TrueAnswer(a, x, d) ==
  \/ x \in {200, 500} \/ hit'[a]
  \/ x = 204 /\ d = NoDef /\ Write(a, d)
  \/ x = 201 /\ d # NoDef /\ Write(a, d) /\ FALSE \in witnessed[a]

(* What the two calls that write have in common.                           *)
LEMMA WritingStays ==
  ASSUME DefInv, NEW a \in Ask, Under(a), NEW x \in Answer, Ends(a, x),
         Smooth \/ Trips(a), NEW d \in Definition \cup {NoDef}, Write(a, d) \/ Untouched,
         Asking, UNCHANGED base,
         TrueAnswer(a, x, d)
  PROVE  DefInv'
<1>1. /\ hit' \in [Ask -> BOOLEAN] /\ defFaults' \in 0 .. MaxDefFaults
      /\ \A b \in Ask : b # a => hit'[b] = hit[b]
  BY SmoothTells
<1>2. /\ askAt' = [askAt EXCEPT ![a] = "done"] /\ result' = [result EXCEPT ![a] = x]
      /\ askAt[a] # "done" /\ DefTypes /\ AskFits(a)
  BY DEF Ends, DefInv, Under
<1>3. askAt'[a] = "done" /\ result'[a] = x /\ "done" \in AskPlace
  BY <1>2 DEF DefTypes, AskPlace
<1>4. Ended' = Ended \cup {a} /\ a \in Ask \ Ended /\ Ended \subseteq Ended'
  BY <1>2, <1>3, AskMoves
<1>5. DefTypes'
  <2>1. CASE Write(a, d)
    <3>1. crossed' \in [Ask -> BOOLEAN] /\ witnessed' \in [Ask -> SUBSET BOOLEAN]
      BY <1>2, <2>1 DEF DefTypes, Write
    <3>2. /\ def' \in Definition \cup {NoDef} /\ rev' \in Nat /\ defRev' \in 0 .. rev'
          /\ wrote' \in Ask \cup {NoDef}
      BY <1>2, <2>1 DEF DefTypes, Write
    <3>3. QED
      BY <1>1, <1>2, <1>3, <3>1, <3>2 DEF DefTypes, Asking
  <2>2. CASE Untouched
    BY <1>1, <1>2, <1>3, <2>2 DEF DefTypes, Untouched, keyVars, Asking
  <2>3. QED
    BY <2>1, <2>2
<1>6. rev' \in {rev, rev + 1}
  BY DEF Write, Untouched, keyVars
<1>7. ASSUME NEW b \in Ask, b # a PROVE AskFits(b)'
  <2>1. Own(b)' = Own(b)
    BY <1>1, <1>2, <1>7 DEF Own, DefTypes, Asking
  <2>2. \/ UNCHANGED keyVars /\ crossed'[b] = crossed[b] /\ witnessed'[b] = witnessed[b]
        \/ \E e : Write(a, e)
    BY DEF Untouched
  <2>3. QED
    BY <1>4, <1>7, <2>1, <2>2, OtherFits
<1>8. KindFits(a)'
  BY <1>2, <1>3 DEF AskFits, KindFits, IsUpdate, Asking
<1>9. SeenFits(a)'
  <2>1. CASE hit'[a] \/ x \in {200, 500}
    <3>1. ~Under(a)' /\ askAt'[a] # "put"
      BY <1>3 DEF Under
    <3>2. hit'[a] \/ (result'[a] \notin {404, 204, 201} /\ result'[a] \notin {409, 201})
      BY <1>3, <2>1
    <3>3. QED
      BY <3>1, <3>2 DEF SeenFits
  <2>2. CASE x = 204 /\ d = NoDef /\ Write(a, d)
    <3>1. witnessed'[a] = witnessed[a] \cup {d # NoDef}
      BY <2>2 DEF Write
    <3>2. (d # NoDef) = FALSE
      BY <2>2
    <3>3. FALSE \in {d # NoDef}
      BY <3>2, Zenon
    <3>4. FALSE \in witnessed'[a]
      BY <3>1, <3>3
    <3>5. ~Under(a)' /\ askAt'[a] # "put" /\ result'[a] \notin {409, 201}
      BY <1>3, <2>2 DEF Under
    <3>6. QED
      BY <3>4, <3>5 DEF SeenFits
  <2>3. CASE x = 201 /\ d # NoDef /\ Write(a, d) /\ FALSE \in witnessed[a]
    <3>1. witnessed'[a] = witnessed[a] \cup {d # NoDef}
      BY <2>3 DEF Write
    <3>2. (d # NoDef) = TRUE
      BY <2>3
    <3>3. TRUE \in {d # NoDef}
      BY <3>2, Zenon
    <3>4. FALSE \in witnessed'[a] /\ TRUE \in witnessed'[a]
      BY <2>3, <3>1, <3>3
    <3>5. QED
      BY <1>3, <2>3, <3>4 DEF SeenFits, Under
  <2>4. QED
    BY <2>1, <2>2, <2>3, ZenonT(60) DEF TrueAnswer
<1>10. BaseFits(a)'
  <2>1. given[a] <= rev' /\ given'[a] = given[a] /\ before'[a] = before[a]
    BY <1>2, <1>6 DEF AskFits, BaseFits, DefTypes, Asking
  <2>2. \A b \in before[a] : askAt'[b] = "done"
    BY <1>2, <1>4 DEF AskFits, BaseFits, Ended, DefTypes
  <2>3. QED
    BY <1>3, <2>1, <2>2 DEF BaseFits
<1>11. rev' <= Cardinality(Ended')
  BY <1>4, <1>6, EndedCounts DEF Moves
<1>12. QED
  BY <1>5, <1>7, <1>8, <1>9, <1>10, <1>11 DEF DefInv, AskFits

(* A create or an update writes.                                           *)
LEMMA PutStays ==
  ASSUME DefInv, NEW a \in Ask, Put(a)
  PROVE  DefInv'
<1>1. Under(a) /\ askAt[a] = "put" /\ Merged(a) \in Definition /\ Merged(a) # NoDef
  BY MergedIs DEF Put, Under
<1>2. Asking /\ UNCHANGED base
  BY DEF Put
<1>3. CASE Write(a, Merged(a)) /\ Smooth /\ Ends(a, IF askKind[a] = "create" THEN 201 ELSE 200)
  <2>1. CASE askKind[a] # "create"
    <3>1. Ends(a, 200) /\ TrueAnswer(a, 200, Merged(a)) /\ 200 \in Answer
      BY <1>3, <2>1 DEF TrueAnswer, Answer
    <3>2. QED
      BY <1>1, <1>2, <1>3, <3>1, WritingStays
  <2>2. CASE askKind[a] = "create" /\ ~hit[a]
    <3>1. FALSE \in witnessed[a]
      BY <1>1, <2>2 DEF DefInv, AskFits, SeenFits
    <3>2. Ends(a, 201) /\ TrueAnswer(a, 201, Merged(a)) /\ 201 \in Answer
      BY <1>1, <1>3, <2>2, <3>1, ZenonT(60) DEF TrueAnswer, Answer
    <3>3. QED
      BY <1>1, <1>2, <1>3, <3>2, WritingStays
  <2>3. CASE askKind[a] = "create" /\ hit[a]
    <3>1. hit'[a]
      BY <1>3, <2>3 DEF Smooth
    <3>2. Ends(a, 201) /\ TrueAnswer(a, 201, Merged(a)) /\ 201 \in Answer
      BY <1>3, <2>3, <3>1 DEF TrueAnswer, Answer
    <3>3. QED
      BY <1>1, <1>2, <1>3, <3>2, WritingStays
  <2>4. QED
    BY <2>1, <2>2, <2>3
<1>4. CASE Trips(a) /\ Ends(a, 500) /\ (Write(a, Merged(a)) \/ Untouched)
  <2>1. TrueAnswer(a, 500, Merged(a)) /\ 500 \in Answer
    BY DEF TrueAnswer, Answer
  <2>2. QED
    BY <1>1, <1>2, <1>4, <2>1, WritingStays
<1>5. QED
  BY <1>3, <1>4 DEF Put

(* A deletion does.                                                        *)
LEMMA DeleteStays ==
  ASSUME DefInv, NEW a \in Ask, Delete(a)
  PROVE  DefInv'
<1>1. Under(a) /\ Asking /\ UNCHANGED base /\ Ends(a, 204) /\ 204 \in Answer
  BY DEF Delete, Under, Answer
<1>2. CASE Write(a, NoDef) /\ Smooth
  <2>1. TrueAnswer(a, 204, NoDef)
    BY <1>2 DEF TrueAnswer
  <2>2. QED
    BY <1>1, <1>2, <2>1, WritingStays
<1>3. CASE Trips(a) /\ Untouched
  <2>1. hit'[a]
    BY <1>3 DEF Trips, DefInv, DefTypes
  <2>2. QED
    BY <1>1, <1>3, <2>1, WritingStays, ZenonT(60) DEF TrueAnswer
<1>4. QED
  BY <1>2, <1>3 DEF Delete

(* The cleanup task finds nothing to sweep.                                *)
LEMMA NothingSwept ==
  ASSUME DefInv
  PROVE  ~Sweepable(def)
BY DEF Sweepable, DefInv, DefTypes, Definition, Field

(* The cleanup task touches no definition.                                 *)
LEMMA TaskStays ==
  ASSUME DefInv, TaskStep
  PROVE  DefInv' /\ UNCHANGED <<keyVars, askAt>>
<1>1. Untouched /\ NoAsk /\ task' \in {"off", "waiting", "listing"}
  BY NothingSwept DEF TaskStep, Interval, StopTask, Sweep
<1>2. DefTypes'
  BY <1>1 DEF DefInv, DefTypes, Untouched, NoAsk, keyVars
<1>3. Ended' = Ended /\ rev' = rev
  BY <1>1 DEF Ended, Untouched, NoAsk, keyVars
<1>4. ASSUME NEW b \in Ask PROVE AskFits(b)'
  BY <1>1, ZenonT(60) DEF DefInv, AskFits, KindFits, SeenFits, BaseFits, IsUpdate, Under, There, Untouched,
              NoAsk, keyVars
<1>5. QED
  BY <1>1, <1>2, <1>3, <1>4 DEF DefInv, Untouched, NoAsk

(* Every step keeps the invariant.                                         *)
LEMMA DefInductive ==
  ASSUME DefInv, [DefinitionNext]_definitionVars
  PROVE  DefInv'
<1>1. CASE UNCHANGED definitionVars
  <2> USE <1>1 DEF definitionVars, keyVars, askVars
  <2>1. DefTypes' /\ Ended' = Ended /\ rev' = rev
    BY DEF DefInv, DefTypes, Ended
  <2>2. ASSUME NEW b \in Ask PROVE AskFits(b)'
    BY DEF DefInv, AskFits, KindFits, SeenFits, BaseFits, IsUpdate, Under, There
  <2>3. QED
    BY <2>1, <2>2 DEF DefInv
<1>2. CASE TaskStep
  BY <1>2, TaskStays
<1>3. ASSUME NEW a \in Ask, AskStep(a) PROVE DefInv'
  BY <1>3, ArrivesStays, ExistsStays, LoadStays, CheckStays, CompareStays, PutStays, DeleteStays,
     ListStays DEF AskStep
<1>4. QED
  BY <1>1, <1>2, <1>3 DEF DefinitionNext

(* Who writes: a put its definition, a delete nothing.                     *)
LEMMA WhoWrites ==
  ASSUME DefInv, DefinitionNext, def' # def
  PROVE  \E a \in Ask :
           /\ askAt'[a] = "done"
           /\ \/ askAt[a] = "put" /\ def' = Merged(a)
              \/ askAt[a] = "delete" /\ def' = NoDef
<1>1. ~TaskStep
  BY TaskStays DEF keyVars
<1>2. PICK a \in Ask : AskStep(a)
  BY <1>1 DEF DefinitionNext
<1>3. Put(a) \/ Delete(a)
  BY <1>2 DEF AskStep, Arrives, Exists, Load, Check, Compare, List, Untouched, keyVars
<1>4. askAt'[a] = "done"
  BY <1>3 DEF Put, Delete, Ends, DefInv, DefTypes
<1>5. QED
  BY <1>3, <1>4 DEF Put, Delete, Write, Untouched, keyVars

(* A field changes by a put of a request it was given to, or by one that   *)
(* loaded the definition before its last writer had ended.                 *)
LEMMA UndoneStep ==
  ASSUME DefInv, [DefinitionNext]_definitionVars, NEW f \in Field,
         def # NoDef, def' # NoDef, def'[f] # def[f]
  PROVE  \E a \in Ask :
           /\ askAt[a] = "put" /\ askAt'[a] = "done"
           /\ \/ askKind[a] = "create"
              \/ f = "owner" /\ askKind[a] = "setOwner"
              \/ f = "version" /\ askKind[a] = "setVersion"
              \/ wrote \notin before[a]
<1>1. PICK a \in Ask : askAt'[a] = "done" /\ askAt[a] = "put" /\ def' = Merged(a)
  BY WhoWrites DEF definitionVars, keyVars
<1>2. CASE IsUpdate(a)
  <2>1. base[a] \in [Field -> Ask] /\ (base[a] = def \/ wrote \notin before[a])
    BY <1>1, <1>2 DEF DefInv, AskFits, BaseFits, Definition
  <2>2. CASE askKind[a] = "setOwner" /\ f = "version"
    <3>1. Merged(a)[f] = base[a][f]
      BY <2>1, <2>2 DEF Merged, Field
    <3>2. QED
      BY <1>1, <2>1, <3>1
  <2>3. CASE askKind[a] = "setVersion" /\ f = "owner"
    <3>1. Merged(a)[f] = base[a][f]
      BY <2>1, <2>3 DEF Merged, Field
    <3>2. QED
      BY <1>1, <2>1, <3>1
  <2>4. QED
    BY <1>1, <1>2, <2>2, <2>3 DEF IsUpdate, Field
<1>3. QED
  BY <1>1, <1>2 DEF DefInv, AskFits, KindFits

(* DefinitionsSound, for every number of requests and of failing calls.    *)
THEOREM RequestsAreAnsweredTruly == DefinitionSpec => DefinitionsSound
<1>1. DefInv => DefinitionTypeOK /\ AnswersAreTrue /\ GuardedUpdateIsFresh
  <2> SUFFICES ASSUME DefInv PROVE DefinitionTypeOK /\ AnswersAreTrue /\ GuardedUpdateIsFresh
    OBVIOUS
  <2>1. DefinitionTypeOK
    BY TypesAsked DEF DefInv, AskFits, BaseFits
  <2>2. AnswersAreTrue
    BY DEF DefInv, AskFits, SeenFits, AnswersAreTrue
  <2>3. GuardedUpdateIsFresh
    BY DEF DefInv, AskFits, BaseFits, GuardedUpdateIsFresh
  <2>4. QED
    BY <2>1, <2>2, <2>3
<1>2. DefinitionSpec => []DefInv
  BY DefBegins, DefInductive, PTL DEF DefinitionSpec
<1>3. DefInv /\ [DefinitionNext]_definitionVars
        => [\A f \in Field :
             def # NoDef /\ def' # NoDef /\ def'[f] # def[f] =>
               \E a \in Ask :
                 /\ askAt[a] = "put" /\ askAt'[a] = "done"
                 /\ \/ askKind[a] = "create"
                    \/ f = "owner" /\ askKind[a] = "setOwner"
                    \/ f = "version" /\ askKind[a] = "setVersion"
                    \/ wrote \notin before[a]]_definitionVars
  BY UndoneStep
<1>4. DefInv /\ [DefinitionNext]_definitionVars
        => [def # NoDef /\ def' = NoDef =>
              \E a \in Ask : askAt[a] = "delete" /\ askAt'[a] = "done"]_definitionVars
  BY WhoWrites, MergedIs
<1>5. QED
  BY <1>1, <1>2, <1>3, <1>4, PTL DEF DefinitionSpec, DefinitionsSound, NeverUndone, OnlyDeleteDeletes

-----------------------------------------------------------------------------
(* DevChecks                                                               *)

(* What ERROR there is, and the one about the name.                        *)
Errors == {i \in issues : i[1] = "ERROR"}
NameError == {<<"ERROR", "NAME">>}

(* The verdict as far as the validation has come.                          *)
VerdictFits ==
  /\ valid <=> Errors = {}
  /\ at \in {"new", "refused"} => issues = {}
  /\ at \in {"new", "configured", "connecting"} => ~reached
  /\ at \in {"connecting", "connected"} => tool = "dev" /\ Connectable
  /\ at \in {"configured", "connecting", "connected"} =>
       /\ tool = "dev" /\ Connectable => Errors \subseteq NameError
       /\ tool = "cli" => Errors \subseteq NameError
  /\ at = "connected" => reached
  /\ at \in {"checked", "done"} =>
       /\ valid => reached
       /\ reached /\ tool # "sdk" => Errors \subseteq NameError

(* A connect under way has no other open, unless somebody was careless.    *)
AdapterFits ==
  ~careless =>
    /\ open \subseteq {client}
    /\ at = "connecting" \/ boot = "connecting" => open = {}
    /\ at # "connecting" \/ boot # "connecting"

ChecksInv == DevTypeOK /\ VerdictFits /\ AdapterFits

(* The assumption, in parts.                                               *)
LEMMA ChecksBounds ==
  /\ Given \subseteq [name : Name, url : Url, environment : Environment]
  /\ MaxConnections \in Nat /\ MaxChanges \in Nat
BY DevChecksAssumption

(* A tool begins with no issue and no connection.                          *)
LEMMA ChecksBegin ==
  ASSUME DevInit PROVE ChecksInv
<1> USE DEF DevInit
<1>1. DevTypeOK
  <2>1. {reachable, kubernetes, valid, reached, careless} \subseteq BOOLEAN
    OBVIOUS
  <2>2. 0 \in 0 .. MaxConnections /\ 0 \in 0 .. MaxChanges
    BY ChecksBounds
  <2>3. QED
    BY <2>1, <2>2 DEF DevTypeOK
<1>2. VerdictFits
  BY DEF VerdictFits, Errors
<1>3. AdapterFits
  BY DEF AdapterFits
<1>4. QED
  BY <1>1, <1>2, <1>3 DEF ChecksInv

(* What is added to the issues.                                            *)
LEMMA IssuesAdded ==
  ASSUME ChecksInv, NEW new \in SUBSET Issue, AddIssues(new)
  PROVE  /\ issues' \in SUBSET Issue /\ valid' \in BOOLEAN
         /\ Errors' = Errors \cup {i \in new : i[1] = "ERROR"}
         /\ valid' <=> Errors' = {}
<1>1. issues \in SUBSET Issue /\ valid \in BOOLEAN /\ (valid <=> Errors = {})
  BY DEF ChecksInv, DevTypeOK, VerdictFits
<1>2. issues' = issues \cup new /\ valid' = (valid /\ {i \in new : i[1] = "ERROR"} = {})
  BY DEF AddIssues
<1>3. Errors' = Errors \cup {i \in new : i[1] = "ERROR"}
  BY <1>2 DEF Errors
<1>4. issues' \in SUBSET Issue /\ valid' \in BOOLEAN
  BY <1>1, <1>2
<1>5. valid' <=> Errors' = {}
  BY <1>1, <1>2, <1>3
<1>6. QED
  BY <1>3, <1>4, <1>5

(* That NATS did not answer is an error.                                   *)
LEMMA NatsIsError == NatsError \in SUBSET Issue /\ {i \in NatsError : i[1] = "ERROR"} # {}
BY DEF NatsError, Issue

(* What the rules find before the server is asked.                         *)
LEMMA FirstIssues ==
  ASSUME NEW c
  PROVE  /\ {DevIssues(c), CliIssues(c), SdkIssues(c)} \subseteq SUBSET Issue
         /\ c.url \in {"nats://", "tls://"} => {i \in DevIssues(c) : i[1] = "ERROR"} \subseteq NameError
         /\ {i \in CliIssues(c) : i[1] = "ERROR"} \subseteq NameError
<1>1. {DevIssues(c), CliIssues(c), SdkIssues(c)} \subseteq SUBSET Issue
  BY DEF DevIssues, CliIssues, SdkIssues, NameIssues, If, Issue
<1>2. CliIssues(c) \subseteq NameError /\ NameIssues(c.name) \subseteq NameError
  BY DEF CliIssues, NameIssues, If, NameError
<1>3. ASSUME c.url \in {"nats://", "tls://"}, NEW i \in DevIssues(c), i[1] = "ERROR"
      PROVE  i \in NameError
  <2>1. i \in NameIssues(c.name) \/ i = <<"WARNING", "ENVIRONMENT">>
    BY <1>3 DEF DevIssues, If
  <2>2. QED
    BY <1>2, <1>3, <2>1
<1>4. QED
  BY <1>1, <1>2, <1>3

(* A configuration is refused, or looked at.                               *)
LEMMA ConfigureFits ==
  ASSUME ChecksInv, Configure
  PROVE  ChecksInv'
<1> USE DEF Configure
<1>1. /\ UNCHANGED <<worldVars, config, tool, reached, boot, adapterVars>>
      /\ DevTypeOK /\ VerdictFits /\ AdapterFits /\ at = "new" /\ issues = {} /\ ~reached
  BY DEF ChecksInv, VerdictFits
<1>2. AdapterFits'
  BY <1>1 DEF AdapterFits, adapterVars
<1>3. CASE at' = "refused" /\ UNCHANGED <<issues, valid>>
  <2>1. DevTypeOK'
    BY <1>1, <1>3 DEF DevTypeOK, worldVars, adapterVars
  <2>2. VerdictFits'
    BY <1>1, <1>3 DEF VerdictFits, Errors
  <2>3. QED
    BY <1>2, <2>1, <2>2 DEF ChecksInv
<1>4. CASE at' = "configured"
  <2> DEFINE new == CASE tool = "dev" -> DevIssues(config)
                      [] tool = "cli" -> CliIssues(config)
                      [] tool = "sdk" -> SdkIssues(config)
  <2>1. tool \in {"dev", "cli", "sdk"}
    BY <1>1 DEF DevTypeOK, Tool
  <2>2. /\ new \in SUBSET Issue
        /\ tool = "dev" => new = DevIssues(config)
        /\ tool = "cli" => new = CliIssues(config)
    BY <2>1, FirstIssues
  <2>3. AddIssues(new)
    BY <1>4
  <2> HIDE DEF new
  <2>4. /\ issues' \in SUBSET Issue /\ valid' \in BOOLEAN
        /\ Errors' = Errors \cup {i \in new : i[1] = "ERROR"}
        /\ valid' <=> Errors' = {}
    BY <2>2, <2>3, IssuesAdded
  <2>5. Errors = {}
    BY <1>1 DEF Errors
  <2>6. DevTypeOK'
    BY <1>1, <1>4, <2>4 DEF DevTypeOK, worldVars, adapterVars
  <2>7. /\ tool = "dev" /\ Connectable => Errors' \subseteq NameError
        /\ tool = "cli" => Errors' \subseteq NameError
    BY <2>2, <2>4, <2>5, FirstIssues DEF Connectable
  <2>8. VerdictFits'
    BY <1>1, <1>4, <2>4, <2>7 DEF VerdictFits, Connectable
  <2>9. QED
    BY <1>2, <2>6, <2>8 DEF ChecksInv
<1>5. QED
  BY <1>3, <1>4

-----------------------------------------------------------------------------
(* The adapter: what each of its calls leaves, for whoever makes it.       *)
AdapterTypes ==
  /\ careless \in BOOLEAN /\ client \in 0 .. MaxConnections
  /\ open \subseteq 1 .. MaxConnections /\ made \in 0 .. MaxConnections

(* A connect begins: what was open is closed, or the URL is refused.       *)
LEMMA BeginConnectFits ==
  ASSUME ChecksInv, BeginConnect
  PROVE  /\ AdapterTypes'
         /\ ~careless' => ~careless /\ open' = {}
         /\ Connectable /\ ~careless' => at # "connecting" /\ boot # "connecting"
<1>1. /\ AdapterTypes /\ AdapterFits
  BY DEF ChecksInv, DevTypeOK, AdapterTypes
<1>2. CASE Connectable
  <2>1. /\ open' = open \ {client} /\ UNCHANGED <<client, made>>
        /\ careless' = (careless \/ at = "connecting" \/ boot = "connecting")
    BY <1>2 DEF BeginConnect
  <2>2. QED
    BY <1>1, <2>1 DEF AdapterTypes, AdapterFits
<1>3. CASE ~Connectable
  <2>1. client' = 0 /\ careless' = (careless \/ client # 0) /\ UNCHANGED <<open, made>>
    BY <1>3 DEF BeginConnect
  <2>2. ~careless' => ~careless /\ client = 0 /\ open \subseteq {0}
    BY <1>1, <2>1 DEF AdapterTypes, AdapterFits
  <2>3. 0 \notin open
    BY <1>1, ChecksBounds DEF AdapterTypes
  <2>4. AdapterTypes'
    BY <1>1, <2>1, ChecksBounds DEF AdapterTypes
  <2>5. QED
    BY <1>3, <2>1, <2>2, <2>3, <2>4
<1>4. QED
  BY <1>2, <1>3

(* It opens a connection or does not.                                      *)
LEMMA ConnectEndsFits ==
  ASSUME ChecksInv, at = "connecting" \/ boot = "connecting", Opened \/ NotOpened
  PROVE  /\ AdapterTypes' /\ UNCHANGED careless
         /\ ~careless => open' \subseteq {client'}
<1>1. AdapterTypes /\ AdapterFits
  BY DEF ChecksInv, DevTypeOK, AdapterTypes
<1>2. CASE Opened
  <2>1. made < MaxConnections /\ made' = made + 1 /\ client' = made + 1
        /\ open' = open \cup {made + 1} /\ UNCHANGED careless
    BY <1>2 DEF Opened
  <2>2. AdapterTypes'
    BY <1>1, <2>1, ChecksBounds DEF AdapterTypes
  <2>3. QED
    BY <1>1, <2>1, <2>2 DEF AdapterFits
<1>3. CASE NotOpened
  <2>1. client' \in {0, client} /\ UNCHANGED <<open, made, careless>>
    BY <1>3 DEF NotOpened
  <2>2. AdapterTypes'
    BY <1>1, <2>1, ChecksBounds DEF AdapterTypes
  <2>3. QED
    BY <1>1, <2>1, <2>2 DEF AdapterFits
<1>4. QED
  BY <1>2, <1>3

(* A disconnect leaves none open that is known.                            *)
LEMMA DisconnectFits ==
  ASSUME ChecksInv, Disconnect
  PROVE  /\ AdapterTypes' /\ UNCHANGED careless
         /\ ~careless => open' = {}
<1>1. AdapterTypes /\ AdapterFits
  BY DEF ChecksInv, DevTypeOK, AdapterTypes
<1>2. open' = open \ {client} /\ client' = 0 /\ UNCHANGED <<made, careless>>
  BY DEF Disconnect
<1>3. AdapterTypes'
  BY <1>1, <1>2, ChecksBounds DEF AdapterTypes
<1>4. QED
  BY <1>1, <1>2, <1>3 DEF AdapterFits

-----------------------------------------------------------------------------
(* The validation of aegis-sdk-dev connects,                               *)
LEMMA TryConnectFits ==
  ASSUME ChecksInv, TryConnect
  PROVE  ChecksInv'
<1> USE DEF TryConnect
<1>1. /\ DevTypeOK /\ VerdictFits /\ AdapterFits /\ tool = "dev" /\ at = "configured"
      /\ UNCHANGED <<worldVars, config, tool, reached, boot>>
  BY DEF ChecksInv
<1>2. /\ AdapterTypes'
      /\ ~careless' => ~careless /\ open' = {}
      /\ Connectable /\ ~careless' => at # "connecting" /\ boot # "connecting"
  BY BeginConnectFits
<1>3. CASE Connectable
  <2>1. at' = "connecting" /\ UNCHANGED <<issues, valid>>
    BY <1>3
  <2>2. DevTypeOK'
    BY <1>1, <1>2, <2>1 DEF DevTypeOK, AdapterTypes, worldVars
  <2>3. VerdictFits'
    BY <1>1, <1>3, <2>1 DEF VerdictFits, Errors, Connectable
  <2>4. AdapterFits'
    BY <1>1, <1>2, <1>3 DEF AdapterFits
  <2>5. QED
    BY <2>2, <2>3, <2>4 DEF ChecksInv
<1>4. CASE ~Connectable
  <2>1. at' = "checked" /\ AddIssues(NatsError) /\ NatsError \in SUBSET Issue
    BY <1>4 DEF NatsError, Issue
  <2>2. /\ issues' \in SUBSET Issue /\ valid' \in BOOLEAN
        /\ Errors' = Errors \cup {i \in NatsError : i[1] = "ERROR"}
        /\ valid' <=> Errors' = {}
    BY <2>1, IssuesAdded
  <2>3. Errors' # {}
    BY <2>2, NatsIsError
  <2>4. DevTypeOK'
    BY <1>1, <1>2, <2>1, <2>2 DEF DevTypeOK, AdapterTypes, worldVars
  <2>5. VerdictFits'
    BY <1>1, <2>1, <2>2, <2>3 DEF VerdictFits
  <2>6. AdapterFits'
    BY <1>2, <2>1 DEF AdapterFits
  <2>7. QED
    BY <2>4, <2>5, <2>6 DEF ChecksInv
<1>5. QED
  BY <1>3, <1>4

(* ... hears the answer,                                                   *)
LEMMA ConnectEndsKeeps ==
  ASSUME ChecksInv, ConnectEnds
  PROVE  ChecksInv'
<1> USE DEF ConnectEnds
<1>1. /\ DevTypeOK /\ VerdictFits /\ AdapterFits /\ at = "connecting"
      /\ UNCHANGED <<worldVars, config, tool, boot>>
  BY DEF ChecksInv
<1>2. /\ AdapterTypes' /\ UNCHANGED careless
      /\ ~careless => open' \subseteq {client'}
  BY ConnectEndsFits
<1>3. AdapterFits'
  BY <1>1, <1>2 DEF AdapterFits
<1>4. CASE at' = "connected" /\ reached' = TRUE /\ UNCHANGED <<issues, valid>>
  <2>1. DevTypeOK'
    BY <1>1, <1>2, <1>4 DEF DevTypeOK, AdapterTypes, worldVars
  <2>2. VerdictFits'
    BY <1>1, <1>4 DEF VerdictFits, Errors, Connectable
  <2>3. QED
    BY <1>3, <2>1, <2>2 DEF ChecksInv
<1>5. CASE at' = "checked" /\ AddIssues(NatsError) /\ UNCHANGED reached
  <2>1. NatsError \in SUBSET Issue
    BY DEF NatsError, Issue
  <2>2. /\ issues' \in SUBSET Issue /\ valid' \in BOOLEAN
        /\ Errors' = Errors \cup {i \in NatsError : i[1] = "ERROR"}
        /\ valid' <=> Errors' = {}
    BY <1>5, <2>1, IssuesAdded
  <2>3. Errors' # {}
    BY <2>2, NatsIsError
  <2>4. DevTypeOK'
    BY <1>1, <1>2, <1>5, <2>2 DEF DevTypeOK, AdapterTypes, worldVars
  <2>5. VerdictFits'
    BY <1>1, <1>5, <2>2, <2>3 DEF VerdictFits
  <2>6. QED
    BY <1>3, <2>4, <2>5 DEF ChecksInv
<1>6. QED
  BY <1>4, <1>5

(* ... and closes the connection.                                          *)
LEMMA CloseAgainFits ==
  ASSUME ChecksInv, CloseAgain
  PROVE  ChecksInv'
<1> USE DEF CloseAgain
<1>1. /\ DevTypeOK /\ VerdictFits /\ AdapterFits /\ at = "connected" /\ at' = "checked"
      /\ UNCHANGED <<worldVars, verdictVars, boot>>
  BY DEF ChecksInv
<1>2. AdapterTypes' /\ UNCHANGED careless /\ (~careless => open' = {})
  BY DisconnectFits
<1>3. DevTypeOK'
  BY <1>1, <1>2 DEF DevTypeOK, AdapterTypes, worldVars, verdictVars
<1>4. VerdictFits'
  BY <1>1 DEF VerdictFits, Errors, verdictVars, Connectable
<1>5. AdapterFits'
  BY <1>1, <1>2 DEF AdapterFits
<1>6. QED
  BY <1>3, <1>4, <1>5 DEF ChecksInv

(* The two others use an adapter of their own.                             *)
LEMMA TryPoolFits ==
  ASSUME ChecksInv, TryPool
  PROVE  ChecksInv'
<1> USE DEF TryPool
<1>1. /\ DevTypeOK /\ VerdictFits /\ AdapterFits /\ at = "configured" /\ at' = "checked"
      /\ tool # "dev" /\ ~reached
      /\ UNCHANGED <<worldVars, config, tool, boot, adapterVars>>
  BY DEF ChecksInv, VerdictFits
<1>2. AdapterFits'
  BY <1>1 DEF AdapterFits, adapterVars
<1>3. NatsError \in SUBSET Issue /\ {i \in NatsError : i[1] = "ERROR"} # {}
  BY DEF NatsError, Issue
<1>4. CASE UNCHANGED reached /\ AddIssues(NatsError)
  <2>1. /\ issues' \in SUBSET Issue /\ valid' \in BOOLEAN /\ Errors' # {}
        /\ valid' <=> Errors' = {}
    BY <1>3, <1>4, IssuesAdded
  <2>2. DevTypeOK'
    BY <1>1, <1>4, <2>1 DEF DevTypeOK, worldVars, adapterVars
  <2>3. VerdictFits'
    BY <1>1, <1>4, <2>1 DEF VerdictFits
  <2>4. QED
    BY <1>2, <2>2, <2>3 DEF ChecksInv
<1>5. CASE reached' = TRUE /\ AddIssues(IF tool = "sdk" THEN NatsError ELSE {})
  <2> DEFINE new == IF tool = "sdk" THEN NatsError ELSE {}
  <2>1. new \in SUBSET Issue /\ (tool # "sdk" => {i \in new : i[1] = "ERROR"} = {})
    BY <1>3
  <2>2. AddIssues(new)
    BY <1>5
  <2> HIDE DEF new
  <2>3. /\ issues' \in SUBSET Issue /\ valid' \in BOOLEAN
        /\ Errors' = Errors \cup {i \in new : i[1] = "ERROR"}
        /\ valid' <=> Errors' = {}
    BY <2>1, <2>2, IssuesAdded
  <2>4. tool # "sdk" => tool = "cli"
    BY <1>1 DEF DevTypeOK, Tool
  <2>5. tool # "sdk" => Errors' \subseteq NameError
    BY <1>1, <2>1, <2>3, <2>4 DEF VerdictFits
  <2>6. DevTypeOK'
    BY <1>1, <1>5, <2>3 DEF DevTypeOK, worldVars, adapterVars
  <2>7. VerdictFits'
    BY <1>1, <1>5, <2>3, <2>5 DEF VerdictFits
  <2>8. QED
    BY <1>2, <2>6, <2>7 DEF ChecksInv
<1>6. QED
  BY <1>4, <1>5

(* None of them but the SDK's finds an ERROR about the cluster.            *)
LEMMA LookAroundFits ==
  ASSUME ChecksInv, LookAround
  PROVE  ChecksInv'
<1> USE DEF LookAround
<1>1. /\ DevTypeOK /\ VerdictFits /\ AdapterFits /\ at = "checked" /\ at' = "done"
      /\ UNCHANGED <<worldVars, config, tool, reached, boot, adapterVars>>
  BY DEF ChecksInv
<1>2. AdapterFits'
  BY <1>1 DEF AdapterFits, adapterVars
<1>3. PICK found \in ClusterIssues : AddIssues(found)
  OBVIOUS
<1>4. found \in SUBSET Issue
  BY DEF ClusterIssues, If, Issue
<1>5. tool # "sdk" => {i \in found : i[1] = "ERROR"} = {}
  BY DEF ClusterIssues, If
<1>6. /\ issues' \in SUBSET Issue /\ valid' \in BOOLEAN
      /\ Errors' = Errors \cup {i \in found : i[1] = "ERROR"}
      /\ valid' <=> Errors' = {}
  BY <1>3, <1>4, IssuesAdded
<1>7. DevTypeOK'
  BY <1>1, <1>6 DEF DevTypeOK, worldVars, adapterVars
<1>8. VerdictFits'
  BY <1>1, <1>5, <1>6 DEF VerdictFits
<1>9. QED
  BY <1>2, <1>7, <1>8 DEF ChecksInv

-----------------------------------------------------------------------------
(* The bootstrap shares the adapter, and touches no verdict.               *)
LEMMA BootstrapFits ==
  ASSUME ChecksInv, BeginBootstrap \/ BootstrapConnects \/ PrepareBucket \/ CleanUp
  PROVE  ChecksInv'
<1>1. /\ DevTypeOK /\ VerdictFits /\ AdapterFits
      /\ UNCHANGED <<worldVars, verdictVars, at>>
  BY DEF ChecksInv, BeginBootstrap, BootstrapConnects, PrepareBucket, CleanUp
<1>2. VerdictFits'
  BY <1>1 DEF VerdictFits, Errors, verdictVars, Connectable
<1>3. boot' \in {"connecting", "connected", "yes", "failed", "cleaned"}
  BY DEF BeginBootstrap, BootstrapConnects, PrepareBucket, CleanUp
<1>4. ASSUME AdapterTypes' PROVE DevTypeOK'
  BY <1>1, <1>3, <1>4 DEF DevTypeOK, AdapterTypes, worldVars, verdictVars
<1>5. CASE BeginBootstrap
  <2>1. /\ AdapterTypes'
        /\ ~careless' => ~careless /\ open' = {}
        /\ Connectable /\ ~careless' => at # "connecting" /\ boot # "connecting"
    BY <1>5, BeginConnectFits DEF BeginBootstrap
  <2>2. AdapterFits'
    BY <1>1, <1>5, <2>1 DEF AdapterFits, BeginBootstrap
  <2>3. QED
    BY <1>2, <1>4, <2>1, <2>2 DEF ChecksInv
<1>6. CASE BootstrapConnects
  <2>1. AdapterTypes' /\ UNCHANGED careless /\ (~careless => open' \subseteq {client'})
    BY <1>6, ConnectEndsFits DEF BootstrapConnects
  <2>2. AdapterFits'
    BY <1>1, <1>6, <2>1 DEF AdapterFits, BootstrapConnects
  <2>3. QED
    BY <1>2, <1>4, <2>1, <2>2 DEF ChecksInv
<1>7. CASE PrepareBucket
  <2>1. AdapterTypes'
    BY <1>1, <1>7 DEF AdapterTypes, DevTypeOK, PrepareBucket, adapterVars
  <2>2. AdapterFits'
    BY <1>1, <1>7 DEF AdapterFits, PrepareBucket, adapterVars
  <2>3. QED
    BY <1>2, <1>4, <2>1, <2>2 DEF ChecksInv
<1>8. CASE CleanUp
  <2>1. CASE Disconnect
    <3>1. AdapterTypes' /\ UNCHANGED careless /\ (~careless => open' = {})
      BY <2>1, DisconnectFits
    <3>2. AdapterFits'
      BY <1>1, <1>8, <3>1 DEF AdapterFits, CleanUp
    <3>3. QED
      BY <1>2, <1>4, <3>1, <3>2 DEF ChecksInv
  <2>2. CASE UNCHANGED adapterVars
    <3>1. AdapterTypes'
      BY <1>1, <2>2 DEF AdapterTypes, DevTypeOK, adapterVars
    <3>2. AdapterFits'
      BY <1>1, <1>8, <2>2 DEF AdapterFits, CleanUp, adapterVars
    <3>3. QED
      BY <1>2, <1>4, <3>1, <3>2 DEF ChecksInv
  <2>3. QED
    BY <1>8, <2>1, <2>2 DEF CleanUp
<1>9. QED
  BY <1>5, <1>6, <1>7, <1>8

(* Every step keeps the invariant.                                         *)
LEMMA ChecksInductive ==
  ASSUME ChecksInv, [DevNext]_devVars
  PROVE  ChecksInv'
<1>1. CASE UNCHANGED devVars
  BY <1>1 DEF devVars, worldVars, verdictVars, adapterVars, ChecksInv, DevTypeOK, VerdictFits,
              AdapterFits, Errors, Connectable
<1>2. CASE ServerChanges
  <2>1. /\ DevTypeOK /\ VerdictFits /\ AdapterFits
        /\ UNCHANGED <<kubernetes, verdictVars, at, boot, adapterVars>>
        /\ changes' \in 0 .. MaxChanges /\ reachable' \in BOOLEAN
    BY <1>2, ChecksBounds DEF ChecksInv, DevTypeOK, ServerChanges
  <2>2. DevTypeOK'
    BY <2>1 DEF DevTypeOK, verdictVars, adapterVars
  <2>3. VerdictFits' /\ AdapterFits'
    BY <2>1 DEF VerdictFits, AdapterFits, Errors, Connectable, verdictVars, adapterVars
  <2>4. QED
    BY <2>2, <2>3 DEF ChecksInv
<1>3. QED
  BY <1>1, <1>2, ConfigureFits, TryConnectFits, ConnectEndsKeeps, CloseAgainFits, TryPoolFits,
     LookAroundFits, BootstrapFits DEF DevNext

(* The rules themselves, for every configuration.                          *)
LEMMA RulesHold ==
  ASSUME config \in Given
  PROVE  RulesAgree /\ ProjectsCanRun
<1>1. /\ config \in [name : Name, url : Url, environment : Environment]
      /\ config.name.size \in {"short", "fits", "long"}
  BY ChecksBounds DEF Name
<1>2. RulesAgree
  <2> SUFFICES ASSUME Constructs(config),
                      NEW i \in DevIssues(config) \cup FileErrors(config) \cup CliIssues(config)
               PROVE  i = <<i[1], "ENVIRONMENT">> /\ config.environment = "docker"
    BY DEF RulesAgree
  <2>1. NameIssues(config.name) = {} /\ CliIssues(config) = {}
    BY DEF Constructs, NameIssues, CliIssues, If, Plain
  <2>2. i \in {<<"WARNING", "ENVIRONMENT">>, <<"ERROR", "ENVIRONMENT">>}
        /\ config.environment \notin {"auto", "local", "kubernetes", "production"}
    BY <2>1 DEF Constructs, DevIssues, FileErrors, If
  <2>3. QED
    BY <2>2 DEF Constructs
<1>3. ProjectsCanRun
  BY <1>1 DEF ProjectsCanRun, Bootstraps, Constructs, ServiceName, Plain, Chars
<1>4. QED
  BY <1>2, <1>3

(* ChecksSound, for every set of configurations and any number of changes. *)
THEOREM VerdictsAreTrue == DevSpec => []ChecksSound
<1>1. ChecksInv => ChecksSound
  <2> SUFFICES ASSUME ChecksInv PROVE ChecksSound
    OBVIOUS
  <2>1. RulesAgree /\ ProjectsCanRun
    BY RulesHold DEF ChecksInv, DevTypeOK
  <2>2. VerdictTells
    BY DEF ChecksInv, VerdictFits, VerdictTells, Errors, NameError
  <2>3. NoneForgotten
    BY DEF ChecksInv, AdapterFits, NoneForgotten
  <2>4. QED
    BY <2>1, <2>2, <2>3 DEF ChecksInv, ChecksSound
<1>2. QED
  BY <1>1, ChecksBegin, ChecksInductive, PTL DEF DevSpec

-----------------------------------------------------------------------------
(* Scaffold                                                                *)

(* What a list of files writes, and where.                                 *)
AnyPath ==
  {".", "src", "tests", "k8s", ".github/workflows", "domain", "application", "ports",
   "infrastructure"}
    \X {"__init__.py", "modules", "main.py", "requirements.txt", "conftest.py", "unit",
        "integration", "Dockerfile", ".dockerignore", "deployment.yaml", "service.yaml",
        "configmap.yaml", "README.md", "pyproject.toml", ".gitignore", "test_service.py", "ci.yml"}
AnyFile == [path : AnyPath, text : Text]
Elements(s) == {s[i] : i \in DOMAIN s}
PathsOf(s) == {f.path : f \in Elements(s)}
(* Where s writes q it has written p before.                               *)
Follows(s, p, q) ==
  \A i \in DOMAIN s : s[i].path = q => \E j \in DOMAIN s : j < i /\ s[j].path = p
(* ... and so does whatever begins with s.                                 *)
Before(s, p, q) == p \in PathsOf(s) /\ Follows(s, p, q)

(* What is in two lists together is in their concatenation.                *)
LEMMA JoinedFiles ==
  ASSUME NEW s \in Seq(AnyFile), NEW t \in Seq(AnyFile)
  PROVE  /\ s \o t \in Seq(AnyFile)
         /\ Elements(s \o t) = Elements(s) \cup Elements(t)
         /\ PathsOf(s \o t) = PathsOf(s) \cup PathsOf(t)
<1>1. s \o t \in Seq(AnyFile)
  OBVIOUS
<1>2. Elements(s \o t) = Elements(s) \cup Elements(t)
  <2>1. ASSUME NEW i \in DOMAIN (s \o t) PROVE (s \o t)[i] \in Elements(s) \cup Elements(t)
    <3>1. CASE i <= Len(s)
      BY <3>1 DEF Elements
    <3>2. CASE i > Len(s)
      <4>1. (s \o t)[i] = t[i - Len(s)] /\ i - Len(s) \in DOMAIN t
        BY <3>2
      <4>2. QED
        BY <4>1 DEF Elements
    <3>3. QED
      BY <3>1, <3>2
  <2>2. ASSUME NEW i \in DOMAIN s PROVE s[i] \in Elements(s \o t)
    <3>1. i \in DOMAIN (s \o t) /\ (s \o t)[i] = s[i]
      OBVIOUS
    <3>2. QED
      BY <3>1 DEF Elements
  <2>3. ASSUME NEW i \in DOMAIN t PROVE t[i] \in Elements(s \o t)
    <3>1. Len(s) + i \in DOMAIN (s \o t) /\ (s \o t)[Len(s) + i] = t[i]
      OBVIOUS
    <3>2. QED
      BY <3>1 DEF Elements
  <2>4. QED
    BY <2>1, <2>2, <2>3 DEF Elements
<1>3. PathsOf(s \o t) = PathsOf(s) \cup PathsOf(t)
  BY <1>2 DEF PathsOf
<1>4. QED
  BY <1>1, <1>2, <1>3

(* A list that has p and not q has p before q,                             *)
LEMMA BeforeBegins ==
  ASSUME NEW s, NEW p, NEW q, p \in PathsOf(s), q \notin PathsOf(s)
  PROVE  Before(s, p, q)
BY DEF Before, Follows, PathsOf, Elements

(* ... and what is appended changes nothing about it.                      *)
LEMMA BeforeStays ==
  ASSUME NEW s \in Seq(AnyFile), NEW t \in Seq(AnyFile), NEW p, NEW q, Before(s, p, q)
  PROVE  Before(s \o t, p, q)
<1>1. p \in PathsOf(s \o t)
  BY JoinedFiles DEF Before
<1>2. PICK k \in DOMAIN s : s[k].path = p
  BY DEF Before, PathsOf, Elements
<1>3. ASSUME NEW i \in DOMAIN (s \o t), (s \o t)[i].path = q
      PROVE  \E j \in DOMAIN (s \o t) : j < i /\ (s \o t)[j].path = p
  <2>1. CASE i <= Len(s)
    <3>1. i \in DOMAIN s /\ s[i].path = q
      BY <1>3, <2>1
    <3>2. PICK j \in DOMAIN s : j < i /\ s[j].path = p
      BY <3>1 DEF Before, Follows
    <3>3. j \in DOMAIN (s \o t) /\ (s \o t)[j] = s[j]
      OBVIOUS
    <3>4. QED
      BY <3>2, <3>3
  <2>2. CASE i > Len(s)
    <3>1. k \in DOMAIN (s \o t) /\ (s \o t)[k] = s[k] /\ k < i
      BY <2>2
    <3>2. QED
      BY <1>2, <3>1
  <2>3. QED
    BY <2>1, <2>2
<1>4. QED
  BY <1>1, <1>3 DEF Before, Follows

-----------------------------------------------------------------------------
(* The files of a piece are well-formed, say the text and go to the paths. *)
Says(s, texts, paths) ==
  /\ s \in Seq(AnyFile) /\ PathsOf(s) = paths
  /\ \A f \in Elements(s) : f.text \in texts

(* One, two or three files that say the same.                              *)
LEMMA SaysOne ==
  ASSUME NEW p \in AnyPath, NEW text \in Text
  PROVE  Says(<<File(p, text)>>, {text}, {p})
<1> DEFINE a == File(p, text)
<1>1. a \in AnyFile /\ a.path = p /\ a.text = text
  BY DEF File, AnyFile
<1> HIDE DEF a
<1>2. <<a>> \in Seq(AnyFile) /\ Elements(<<a>>) = {a}
  BY <1>1 DEF Elements
<1>3. Says(<<a>>, {text}, {p})
  BY <1>1, <1>2 DEF Says, PathsOf
<1>4. QED
  BY <1>3 DEF a

LEMMA SaysTwo ==
  ASSUME NEW p \in AnyPath, NEW q \in AnyPath, NEW text \in Text
  PROVE  Says(<<File(p, text), File(q, text)>>, {text}, {p, q})
<1> DEFINE a == File(p, text)
           b == File(q, text)
<1>1. /\ a \in AnyFile /\ a.path = p /\ a.text = text
      /\ b \in AnyFile /\ b.path = q /\ b.text = text
  BY DEF File, AnyFile
<1> HIDE DEF a, b
<1>2. <<a, b>> \in Seq(AnyFile) /\ Elements(<<a, b>>) = {a, b}
  BY <1>1 DEF Elements
<1>3. Says(<<a, b>>, {text}, {p, q})
  BY <1>1, <1>2 DEF Says, PathsOf
<1>4. QED
  BY <1>3 DEF a, b

LEMMA SaysThree ==
  ASSUME NEW p \in AnyPath, NEW q \in AnyPath, NEW r \in AnyPath, NEW text \in Text
  PROVE  Says(<<File(p, text), File(q, text), File(r, text)>>, {text}, {p, q, r})
<1> DEFINE a == File(p, text)
           b == File(q, text)
           c == File(r, text)
<1>1. /\ a \in AnyFile /\ a.path = p /\ a.text = text
      /\ b \in AnyFile /\ b.path = q /\ b.text = text
      /\ c \in AnyFile /\ c.path = r /\ c.text = text
  BY DEF File, AnyFile
<1> HIDE DEF a, b, c
<1>2. <<a, b, c>> \in Seq(AnyFile) /\ Elements(<<a, b, c>>) = {a, b, c}
  BY <1>1 DEF Elements
<1>3. Says(<<a, b, c>>, {text}, {p, q, r})
  BY <1>1, <1>2 DEF Says, PathsOf
<1>4. QED
  BY <1>3 DEF a, b, c

(* Two lists one after the other.                                          *)
LEMMA SaysBoth ==
  ASSUME NEW texts, NEW s, NEW t, NEW p, NEW q, Says(s, texts, p), Says(t, texts, q)
  PROVE  Says(s \o t, texts, p \cup q)
BY JoinedFiles DEF Says

(* No file at all.                                                         *)
LEMMA SaysNothing == Says(<< >>, {}, {})
BY DEF Says, PathsOf, Elements

(* The files of an option, or none.                                        *)
LEMMA SaysOptional ==
  ASSUME NEW c, NEW part, NEW s, NEW texts, NEW paths, Says(s, texts, paths)
  PROVE  \E written \in SUBSET paths : Says(Optional(c, part, s), texts, written)
<1>1. CASE part \in c.options
  BY <1>1 DEF Optional
<1>2. CASE part \notin c.options
  <2>1. Optional(c, part, s) = << >>
    BY <1>2 DEF Optional
  <2>2. Says(<< >>, texts, {})
    BY SaysNothing DEF Says
  <2>3. QED
    BY <2>1, <2>2
<1>3. QED
  BY <1>1, <1>2

-----------------------------------------------------------------------------
(* The packages of the application, and how they are written.              *)
LayerNames == {"domain", "application", "ports", "infrastructure"}
LayerFiles(layer) == {InitOf(layer), ModulesOf(layer)}
AllLayers ==
  LayerFiles("domain") \cup LayerFiles("application")
    \cup LayerFiles("ports") \cup LayerFiles("infrastructure")
Layered == Package(Layers[1]) \o Package(Layers[2]) \o Package(Layers[3]) \o Package(Layers[4])

(* The four packages,                                                      *)
LEMMA LayeredFits == Says(Layered, {"dev"}, AllLayers)
<1>1. ASSUME NEW layer \in LayerNames PROVE Says(Package(layer), {"dev"}, LayerFiles(layer))
  <2>1. InitOf(layer) \in AnyPath /\ ModulesOf(layer) \in AnyPath /\ "dev" \in Text
    BY DEF InitOf, ModulesOf, At, AnyPath, LayerNames, Text
  <2>2. Says(<<File(InitOf(layer), "dev"), File(ModulesOf(layer), "dev")>>, {"dev"},
             {InitOf(layer), ModulesOf(layer)})
    BY <2>1, SaysTwo
  <2>3. QED
    BY <2>2 DEF Package, LayerFiles
<1>2. /\ Layers[1] = "domain" /\ Layers[2] = "application"
      /\ Layers[3] = "ports" /\ Layers[4] = "infrastructure"
  BY DEF Layers
<1>3. /\ Says(Package(Layers[1]), {"dev"}, LayerFiles("domain"))
      /\ Says(Package(Layers[2]), {"dev"}, LayerFiles("application"))
      /\ Says(Package(Layers[3]), {"dev"}, LayerFiles("ports"))
      /\ Says(Package(Layers[4]), {"dev"}, LayerFiles("infrastructure"))
  BY <1>1, <1>2 DEF LayerNames
<1>4. Says(Package(Layers[1]) \o Package(Layers[2]), {"dev"},
           LayerFiles("domain") \cup LayerFiles("application"))
  BY <1>3, SaysBoth
<1>5. Says(Package(Layers[1]) \o Package(Layers[2]) \o Package(Layers[3]), {"dev"},
           LayerFiles("domain") \cup LayerFiles("application") \cup LayerFiles("ports"))
  BY <1>3, <1>4, SaysBoth
<1>6. Says(Package(Layers[1]) \o Package(Layers[2]) \o Package(Layers[3]) \o Package(Layers[4]),
           {"dev"}, AllLayers)
  BY <1>3, <1>5, SaysBoth DEF AllLayers
<1>7. QED
  BY <1>6 DEF Layered

(* ... and then what starts them.                                          *)
LEMMA ApplicationFits ==
  /\ ApplicationFiles = Layered \o <<File(Main, "dev"), File(Requirements, "dev")>>
  /\ Says(ApplicationFiles, {"dev"}, AllLayers \cup {Main, Requirements})
<1>1. Main \in AnyPath /\ Requirements \in AnyPath /\ "dev" \in Text
  BY DEF Main, Requirements, At, AnyPath, Text
<1>2. Says(<<File(Main, "dev"), File(Requirements, "dev")>>, {"dev"}, {Main, Requirements})
  BY <1>1, SaysTwo
<1>3. ApplicationFiles = Layered \o <<File(Main, "dev"), File(Requirements, "dev")>>
  BY DEF ApplicationFiles, Layered
<1>4. QED
  BY <1>2, <1>3, LayeredFits, SaysBoth

-----------------------------------------------------------------------------
(* The other files of the two tools.                                       *)
DevTestPaths ==
  {InitOf("tests"), At("tests", "conftest.py")}
    \cup {At("tests", "unit"), At("tests", "integration")}
DevDockerPaths == {Image, At(".", ".dockerignore")}
DevManifestPaths ==
  {At("k8s", "deployment.yaml"), At("k8s", "service.yaml"), At("k8s", "configmap.yaml")}
Readme == At(".", "README.md")
CommonPaths == {At(".", "pyproject.toml"), At(".", ".gitignore"), Readme}
QuickTestPath == At("tests", "test_service.py")
QuickManifestPath == At("k8s", "deployment.yaml")
PipelinePath == At(".github/workflows", "ci.yml")
QuickTexts == {"quick", "patterns"} \cup Templates

(* They are among the paths and the texts there are.                       *)
LEMMA NamesFit ==
  /\ DevTestPaths \cup DevDockerPaths \cup DevManifestPaths \cup CommonPaths \subseteq AnyPath
  /\ {QuickTestPath, QuickManifestPath, PipelinePath, ServiceMain, Image, Readme} \subseteq AnyPath
  /\ {"dev"} \cup QuickTexts \subseteq Text
<1>1. DevTestPaths \cup DevDockerPaths \cup DevManifestPaths \cup CommonPaths \subseteq AnyPath
  BY DEF DevTestPaths, DevDockerPaths, DevManifestPaths, CommonPaths, Readme, Image, InitOf,
         At, AnyPath
<1>2. {QuickTestPath, QuickManifestPath, PipelinePath, ServiceMain, Image, Readme} \subseteq AnyPath
  BY DEF QuickTestPath, QuickManifestPath, PipelinePath, ServiceMain, Readme, Image, At, AnyPath
<1>3. {"dev"} \cup QuickTexts \subseteq Text
  BY DEF QuickTexts, Text
<1>4. QED
  BY <1>1, <1>2, <1>3

(* What each of their lists says and where.                                *)
LEMMA DevPieces ==
  /\ Says(DevTests, {"dev"}, DevTestPaths)
  /\ Says(DevDocker, {"dev"}, DevDockerPaths)
  /\ Says(DevManifests, {"dev"}, DevManifestPaths)
<1>1. Says(DevTests, {"dev"}, DevTestPaths)
  <2>1. /\ InitOf("tests") \in AnyPath /\ At("tests", "conftest.py") \in AnyPath
        /\ At("tests", "unit") \in AnyPath /\ At("tests", "integration") \in AnyPath
        /\ "dev" \in Text
    BY NamesFit DEF DevTestPaths
  <2>2. Says(<<File(InitOf("tests"), "dev"), File(At("tests", "conftest.py"), "dev")>>, {"dev"},
             {InitOf("tests"), At("tests", "conftest.py")})
    BY <2>1, SaysTwo
  <2>3. Says(<<File(At("tests", "unit"), "dev"), File(At("tests", "integration"), "dev")>>,
             {"dev"}, {At("tests", "unit"), At("tests", "integration")})
    BY <2>1, SaysTwo
  <2>4. QED
    BY <2>2, <2>3, SaysBoth DEF DevTests, DevTestPaths
<1>2. Says(DevDocker, {"dev"}, DevDockerPaths)
  <2>1. Image \in AnyPath /\ At(".", ".dockerignore") \in AnyPath /\ "dev" \in Text
    BY NamesFit DEF DevDockerPaths
  <2>2. QED
    BY <2>1, SaysTwo DEF DevDocker, DevDockerPaths
<1>3. Says(DevManifests, {"dev"}, DevManifestPaths)
  <2>1. /\ At("k8s", "deployment.yaml") \in AnyPath /\ At("k8s", "service.yaml") \in AnyPath
        /\ At("k8s", "configmap.yaml") \in AnyPath /\ "dev" \in Text
    BY NamesFit DEF DevManifestPaths
  <2>2. QED
    BY <2>1, SaysThree DEF DevManifests, DevManifestPaths
<1>4. QED
  BY <1>1, <1>2, <1>3

(* A list that says one of few texts says one of more.                     *)
LEMMA SaysMore ==
  ASSUME NEW s, NEW texts, NEW more, NEW paths, Says(s, texts, paths), texts \subseteq more
  PROVE  Says(s, more, paths)
BY DEF Says

(* The same for the quickstart's.                                          *)
LEMMA QuickPieces ==
  /\ Says(CommonFiles, QuickTexts, CommonPaths)
  /\ Says(QuickTests, QuickTexts, {QuickTestPath})
  /\ Says(QuickDocker, QuickTexts, {Image})
  /\ Says(QuickManifests, QuickTexts, {QuickManifestPath})
  /\ Says(QuickPipeline, QuickTexts, {PipelinePath})
<1>1. "quick" \in Text /\ {"quick"} \subseteq QuickTexts
  BY NamesFit DEF QuickTexts
<1>2. Says(CommonFiles, {"quick"}, CommonPaths)
  <2>1. /\ At(".", "pyproject.toml") \in AnyPath /\ At(".", ".gitignore") \in AnyPath
        /\ At(".", "README.md") \in AnyPath
    BY NamesFit DEF CommonPaths, Readme
  <2>2. QED
    BY <1>1, <2>1, SaysThree DEF CommonFiles, CommonPaths, Readme
<1>3. Says(QuickTests, {"quick"}, {QuickTestPath})
  BY <1>1, NamesFit, SaysOne DEF QuickTests, QuickTestPath
<1>4. Says(QuickDocker, {"quick"}, {Image})
  BY <1>1, NamesFit, SaysOne DEF QuickDocker
<1>5. Says(QuickManifests, {"quick"}, {QuickManifestPath})
  BY <1>1, NamesFit, SaysOne DEF QuickManifests, QuickManifestPath
<1>6. Says(QuickPipeline, {"quick"}, {PipelinePath})
  BY <1>1, NamesFit, SaysOne DEF QuickPipeline, PipelinePath
<1>7. QED
  BY <1>1, <1>2, <1>3, <1>4, <1>5, <1>6, SaysMore

(* The service of each template is one program, with a README or not.      *)
LEMMA ServicePieces ==
  /\ Says(FullFeaturedService, QuickTexts, {ServiceMain, Readme})
  /\ \A c \in Config : \E paths \in SUBSET {Readme} :
       Says(ServiceFiles(c), QuickTexts, {ServiceMain} \cup paths)
<1>1. ASSUME NEW text \in Templates \cup {"patterns"}, NEW p \in {ServiceMain, Readme}
      PROVE  Says(<<File(p, text)>>, QuickTexts, {p})
  <2>1. p \in AnyPath /\ text \in Text /\ {text} \subseteq QuickTexts
    BY NamesFit DEF QuickTexts
  <2>2. QED
    BY <2>1, SaysOne, SaysMore
<1>2. /\ Says(BasicService, QuickTexts, {ServiceMain})
      /\ Says(SingleActiveService, QuickTexts, {ServiceMain})
      /\ Says(EventDrivenService, QuickTexts, {ServiceMain})
      /\ Says(ExternalClient, QuickTexts, {ServiceMain})
  BY <1>1 DEF BasicService, SingleActiveService, EventDrivenService, ExternalClient, Templates
<1>3. Says(<<File(At(".", "README.md"), "patterns")>>, QuickTexts, {Readme})
  BY <1>1 DEF Readme
<1>4. Says(FullFeaturedService, QuickTexts, {ServiceMain, Readme})
  <2>1. Says(FullFeaturedService, QuickTexts, {ServiceMain} \cup {Readme})
    BY <1>2, <1>3, SaysBoth DEF FullFeaturedService
  <2>2. QED
    BY <2>1
<1>5. ASSUME NEW c \in Config
      PROVE  \E paths \in SUBSET {Readme} : Says(ServiceFiles(c), QuickTexts, {ServiceMain} \cup paths)
  <2>1. c.template \in Templates
    BY DEF Config
  <2>2. CASE c.template = "full_featured"
    BY <1>4, <2>2 DEF ServiceFiles
  <2>3. CASE c.template # "full_featured"
    <3>1. Says(ServiceFiles(c), QuickTexts, {ServiceMain})
      BY <1>2, <2>1, <2>3 DEF ServiceFiles, Templates
    <3>2. {ServiceMain} \cup {} = {ServiceMain}
      OBVIOUS
    <3>3. QED
      BY <3>1, <3>2
  <2>4. QED
    BY <2>2, <2>3
<1>6. QED
  BY <1>4, <1>5

-----------------------------------------------------------------------------
(* All paths, by list.                                                     *)
ApplicationPaths == AllLayers \cup {Main, Requirements}

(* All of them together are the paths of the module.                       *)
LEMMA PathsAre ==
  Paths = ApplicationPaths \cup DevTestPaths \cup DevDockerPaths \cup DevManifestPaths
            \cup {ServiceMain, Readme} \cup CommonPaths \cup {QuickTestPath}
            \cup {Image} \cup {QuickManifestPath} \cup {PipelinePath}
<1> DEFINE all == ApplicationFiles \o DevTests \o DevDocker \o DevManifests
                    \o FullFeaturedService \o CommonFiles \o QuickTests
                    \o QuickDocker \o QuickManifests \o QuickPipeline
<1>1. {"dev"} \subseteq Text /\ QuickTexts \subseteq Text
  BY NamesFit
<1>2. /\ Says(ApplicationFiles, Text, ApplicationPaths)
      /\ Says(DevTests, Text, DevTestPaths) /\ Says(DevDocker, Text, DevDockerPaths)
      /\ Says(DevManifests, Text, DevManifestPaths)
  BY <1>1, ApplicationFits, DevPieces, SaysMore DEF ApplicationPaths
<1>3. /\ Says(FullFeaturedService, Text, {ServiceMain, Readme})
      /\ Says(CommonFiles, Text, CommonPaths) /\ Says(QuickTests, Text, {QuickTestPath})
      /\ Says(QuickDocker, Text, {Image}) /\ Says(QuickManifests, Text, {QuickManifestPath})
      /\ Says(QuickPipeline, Text, {PipelinePath})
  BY <1>1, ServicePieces, QuickPieces, SaysMore
<1>4. Says(ApplicationFiles \o DevTests \o DevDocker \o DevManifests, Text,
           ApplicationPaths \cup DevTestPaths \cup DevDockerPaths \cup DevManifestPaths)
  <2>1. Says(ApplicationFiles \o DevTests, Text, ApplicationPaths \cup DevTestPaths)
    BY <1>2, SaysBoth
  <2>2. Says(ApplicationFiles \o DevTests \o DevDocker, Text,
             ApplicationPaths \cup DevTestPaths \cup DevDockerPaths)
    BY <1>2, <2>1, SaysBoth
  <2>3. QED
    BY <1>2, <2>2, SaysBoth
<1>5. Says(ApplicationFiles \o DevTests \o DevDocker \o DevManifests
             \o FullFeaturedService \o CommonFiles \o QuickTests, Text,
           ApplicationPaths \cup DevTestPaths \cup DevDockerPaths \cup DevManifestPaths
             \cup {ServiceMain, Readme} \cup CommonPaths \cup {QuickTestPath})
  <2>1. Says(ApplicationFiles \o DevTests \o DevDocker \o DevManifests
               \o FullFeaturedService, Text,
             ApplicationPaths \cup DevTestPaths \cup DevDockerPaths \cup DevManifestPaths
               \cup {ServiceMain, Readme})
    BY <1>3, <1>4, SaysBoth
  <2>2. Says(ApplicationFiles \o DevTests \o DevDocker \o DevManifests
               \o FullFeaturedService \o CommonFiles, Text,
             ApplicationPaths \cup DevTestPaths \cup DevDockerPaths \cup DevManifestPaths
               \cup {ServiceMain, Readme} \cup CommonPaths)
    BY <1>3, <2>1, SaysBoth
  <2>3. QED
    BY <1>3, <2>2, SaysBoth
<1>6. Says(all, Text,
           ApplicationPaths \cup DevTestPaths \cup DevDockerPaths \cup DevManifestPaths
             \cup {ServiceMain, Readme} \cup CommonPaths \cup {QuickTestPath}
             \cup {Image} \cup {QuickManifestPath} \cup {PipelinePath})
  <2>1. Says(ApplicationFiles \o DevTests \o DevDocker \o DevManifests
               \o FullFeaturedService \o CommonFiles \o QuickTests \o QuickDocker, Text,
             ApplicationPaths \cup DevTestPaths \cup DevDockerPaths \cup DevManifestPaths
               \cup {ServiceMain, Readme} \cup CommonPaths \cup {QuickTestPath} \cup {Image})
    BY <1>3, <1>5, SaysBoth
  <2>2. Says(ApplicationFiles \o DevTests \o DevDocker \o DevManifests
               \o FullFeaturedService \o CommonFiles \o QuickTests \o QuickDocker
               \o QuickManifests, Text,
             ApplicationPaths \cup DevTestPaths \cup DevDockerPaths \cup DevManifestPaths
               \cup {ServiceMain, Readme} \cup CommonPaths \cup {QuickTestPath} \cup {Image}
               \cup {QuickManifestPath})
    BY <1>3, <2>1, SaysBoth
  <2>3. QED
    BY <1>3, <2>2, SaysBoth
<1>7. Paths = PathsOf(all)
  BY DEF Paths, PathsOf, Elements
<1> HIDE DEF all
<1>8. QED
  BY <1>6, <1>7 DEF Says

(* Where the paths differ that the properties are about.                   *)
LEMMA PathsDiffer ==
  /\ Main \notin AllLayers
  /\ Image \notin ApplicationPaths /\ Image # ServiceMain /\ Image # Readme
  /\ Main \notin {ServiceMain, Readme, QuickTestPath, Image, QuickManifestPath, PipelinePath}
  /\ Main \notin CommonPaths
<1>1. Main \notin AllLayers
  BY DEF Main, AllLayers, LayerFiles, InitOf, ModulesOf, At
<1>2. Image \notin ApplicationPaths /\ Image # ServiceMain /\ Image # Readme
  BY DEF Image, ApplicationPaths, AllLayers, LayerFiles, InitOf, ModulesOf, At, Main,
         Requirements, ServiceMain, Readme
<1>3. Main \notin {ServiceMain, Readme, QuickTestPath, Image, QuickManifestPath, PipelinePath}
  BY DEF Main, ServiceMain, Readme, QuickTestPath, Image, QuickManifestPath, PipelinePath, At
<1>4. Main \notin CommonPaths
  BY DEF Main, CommonPaths, Readme, At
<1>5. QED
  BY <1>1, <1>2, <1>3, <1>4

(* A generation of aegis-sdk-dev: its texts, its paths, and their order.   *)
LEMMA DevWritesFit ==
  ASSUME NEW c
  PROVE  /\ \E paths \in SUBSET Paths : ApplicationPaths \subseteq paths
                                       /\ Says(DevWrites(c), {"dev"}, paths)
         /\ \A m \in AllLayers : Before(DevWrites(c), m, Main)
         /\ Before(DevWrites(c), Main, Image) /\ Before(DevWrites(c), Requirements, Image)
<1> DEFINE t == Optional(c, "tests", DevTests)
           d == Optional(c, "docker", DevDocker)
           k == Optional(c, "k8s", DevManifests)
           last == <<File(Main, "dev"), File(Requirements, "dev")>>
<1>1. PICK pt \in SUBSET DevTestPaths : Says(t, {"dev"}, pt)
  BY DevPieces, SaysOptional
<1>2. PICK pd \in SUBSET DevDockerPaths : Says(d, {"dev"}, pd)
  BY DevPieces, SaysOptional
<1>3. PICK pk \in SUBSET DevManifestPaths : Says(k, {"dev"}, pk)
  BY DevPieces, SaysOptional
<1>4. DevWrites(c) = ApplicationFiles \o t \o d \o k
  BY DEF DevWrites
<1>5. ApplicationFiles = Layered \o last /\ Says(ApplicationFiles, {"dev"}, ApplicationPaths)
  BY ApplicationFits DEF ApplicationPaths
<1>6. last \in Seq(AnyFile)
  <2>1. Main \in AnyPath /\ Requirements \in AnyPath /\ "dev" \in Text
    BY DEF Main, Requirements, At, AnyPath, Text
  <2>2. QED
    BY <2>1, SaysTwo DEF Says
<1> HIDE DEF t, d, k, last
<1>7. Says(ApplicationFiles \o t, {"dev"}, ApplicationPaths \cup pt)
  BY <1>1, <1>5, SaysBoth
<1>8. Says(ApplicationFiles \o t \o d, {"dev"}, ApplicationPaths \cup pt \cup pd)
  BY <1>2, <1>7, SaysBoth
<1>9. Says(ApplicationFiles \o t \o d \o k, {"dev"}, ApplicationPaths \cup pt \cup pd \cup pk)
  BY <1>3, <1>8, SaysBoth
<1>10. ASSUME NEW p, NEW q, Before(ApplicationFiles, p, q) PROVE Before(DevWrites(c), p, q)
  <2>1. Before(ApplicationFiles \o t, p, q)
    BY <1>1, <1>5, <1>10, BeforeStays DEF Says
  <2>2. Before(ApplicationFiles \o t \o d, p, q)
    BY <1>2, <1>7, <2>1, BeforeStays DEF Says
  <2>3. Before(ApplicationFiles \o t \o d \o k, p, q)
    BY <1>3, <1>8, <2>2, BeforeStays DEF Says
  <2>4. QED
    BY <1>4, <2>3
<1>11. ASSUME NEW m \in AllLayers PROVE Before(ApplicationFiles, m, Main)
  <2>1. Before(Layered, m, Main)
    BY LayeredFits, PathsDiffer, BeforeBegins DEF Says
  <2>2. QED
    BY <1>5, <1>6, <2>1, LayeredFits, BeforeStays DEF Says
<1>12. Before(ApplicationFiles, Main, Image) /\ Before(ApplicationFiles, Requirements, Image)
  BY <1>5, PathsDiffer, BeforeBegins DEF Says, ApplicationPaths
<1>13. ApplicationPaths \cup pt \cup pd \cup pk \in SUBSET Paths
  BY PathsAre
<1>14. QED
  BY <1>4, <1>9, <1>10, <1>11, <1>12, <1>13

(* One of the quickstart's.                                                *)
LEMMA QuickWritesFit ==
  ASSUME NEW c \in Config
  PROVE  /\ \E paths \in SUBSET Paths : Main \notin paths /\ Says(QuickWrites(c), QuickTexts, paths)
         /\ Before(QuickWrites(c), ServiceMain, Image)
<1> DEFINE s == ServiceFiles(c)
           t == Optional(c, "tests", QuickTests)
           d == Optional(c, "docker", QuickDocker)
           k == Optional(c, "k8s", QuickManifests)
           i == Optional(c, "ci", QuickPipeline)
<1>1. PICK ps \in SUBSET {Readme} : Says(s, QuickTexts, {ServiceMain} \cup ps)
  BY ServicePieces
<1>2. PICK pt \in SUBSET {QuickTestPath} : Says(t, QuickTexts, pt)
  BY QuickPieces, SaysOptional
<1>3. PICK pd \in SUBSET {Image} : Says(d, QuickTexts, pd)
  BY QuickPieces, SaysOptional
<1>4. PICK pk \in SUBSET {QuickManifestPath} : Says(k, QuickTexts, pk)
  BY QuickPieces, SaysOptional
<1>5. PICK pi \in SUBSET {PipelinePath} : Says(i, QuickTexts, pi)
  BY QuickPieces, SaysOptional
<1>6. QuickWrites(c) = s \o CommonFiles \o t \o d \o k \o i
  BY DEF QuickWrites
<1>7. Says(CommonFiles, QuickTexts, CommonPaths)
  BY QuickPieces
<1> HIDE DEF s, t, d, k, i
<1>8. Says(s \o CommonFiles, QuickTexts, {ServiceMain} \cup ps \cup CommonPaths)
  BY <1>1, <1>7, SaysBoth
<1>9. Says(s \o CommonFiles \o t, QuickTexts, {ServiceMain} \cup ps \cup CommonPaths \cup pt)
  BY <1>2, <1>8, SaysBoth
<1>10. Says(s \o CommonFiles \o t \o d, QuickTexts,
            {ServiceMain} \cup ps \cup CommonPaths \cup pt \cup pd)
  BY <1>3, <1>9, SaysBoth
<1>11. Says(s \o CommonFiles \o t \o d \o k, QuickTexts,
            {ServiceMain} \cup ps \cup CommonPaths \cup pt \cup pd \cup pk)
  BY <1>4, <1>10, SaysBoth
<1>12. Says(s \o CommonFiles \o t \o d \o k \o i, QuickTexts,
            {ServiceMain} \cup ps \cup CommonPaths \cup pt \cup pd \cup pk \cup pi)
  BY <1>5, <1>11, SaysBoth
<1>13. Before(QuickWrites(c), ServiceMain, Image)
  <2>1. Before(s, ServiceMain, Image)
    BY <1>1, PathsDiffer, BeforeBegins DEF Says
  <2>2. Before(s \o CommonFiles, ServiceMain, Image)
    BY <1>1, <1>7, <2>1, BeforeStays DEF Says
  <2>3. Before(s \o CommonFiles \o t, ServiceMain, Image)
    BY <1>2, <1>8, <2>2, BeforeStays DEF Says
  <2>4. Before(s \o CommonFiles \o t \o d, ServiceMain, Image)
    BY <1>3, <1>9, <2>3, BeforeStays DEF Says
  <2>5. Before(s \o CommonFiles \o t \o d \o k, ServiceMain, Image)
    BY <1>4, <1>10, <2>4, BeforeStays DEF Says
  <2>6. QED
    BY <1>5, <1>6, <1>11, <2>5, BeforeStays DEF Says
<1>14. /\ {ServiceMain} \cup ps \cup CommonPaths \cup pt \cup pd \cup pk \cup pi \in SUBSET Paths
       /\ Main \notin {ServiceMain} \cup ps \cup CommonPaths \cup pt \cup pd \cup pk \cup pi
  BY PathsAre, PathsDiffer
<1>15. QED
  BY <1>6, <1>12, <1>13, <1>14

(* Before its i-th file a generation has written p.                        *)
Comes(w, i, p) == \E j \in DOMAIN w : j < i /\ w[j].path = p

(* The files of either tool, one by one.                                   *)
LEMMA WritesFit ==
  ASSUME NEW c \in Wanted
  PROVE  /\ Writes(c) \in Seq(AnyFile)
         /\ \A i \in DOMAIN Writes(c) :
              LET f == Writes(c)[i]
              IN  /\ f.path \in Paths /\ f.text \in Text \ {"none", "directory", "cut"}
                  /\ f.path = Main => \A m \in AllLayers : Comes(Writes(c), i, m)
                  /\ f.path = Image /\ f.text = "dev" =>
                       Comes(Writes(c), i, Main) /\ Comes(Writes(c), i, Requirements)
                  /\ f.path = Image /\ f.text = "quick" => Comes(Writes(c), i, ServiceMain)
         /\ c.tool = "dev" => ApplicationPaths \subseteq PathsOf(Writes(c))
<1>1. c \in Config /\ c.tool \in {"dev", "quick"}
  BY ScaffoldAssumption DEF Config
<1>2. /\ {"dev"} \subseteq Text \ {"none", "directory", "cut"}
      /\ QuickTexts \subseteq Text \ {"none", "directory", "cut"}
      /\ "dev" \notin QuickTexts
  BY DEF Text, QuickTexts, Templates
<1>3. CASE c.tool = "dev"
  <2> DEFINE w == DevWrites(c)
  <2>1. PICK paths \in SUBSET Paths : ApplicationPaths \subseteq paths /\ Says(w, {"dev"}, paths)
    BY DevWritesFit
  <2>2. /\ \A m \in AllLayers : Before(w, m, Main)
        /\ Before(w, Main, Image) /\ Before(w, Requirements, Image)
    BY DevWritesFit
  <2>3. Writes(c) = w
    BY <1>3 DEF Writes
  <2> HIDE DEF w
  <2>4. ASSUME NEW i \in DOMAIN w
        PROVE  /\ w[i].path \in Paths /\ w[i].text = "dev"
               /\ w[i].path = Main => \A m \in AllLayers : Comes(w, i, m)
               /\ w[i].path = Image => Comes(w, i, Main) /\ Comes(w, i, Requirements)
    <3>1. w[i] \in Elements(w)
      BY DEF Elements
    <3>2. w[i].path \in Paths /\ w[i].text = "dev"
      BY <2>1, <3>1 DEF Says, PathsOf
    <3>3. w[i].path = Main => \A m \in AllLayers : Comes(w, i, m)
      BY <2>2 DEF Before, Follows, Comes
    <3>4. w[i].path = Image => Comes(w, i, Main) /\ Comes(w, i, Requirements)
      BY <2>2 DEF Before, Follows, Comes
    <3>5. QED
      BY <3>2, <3>3, <3>4
  <2>5. w \in Seq(AnyFile) /\ ApplicationPaths \subseteq PathsOf(w)
    BY <2>1 DEF Says
  <2>6. QED
    BY <1>2, <2>3, <2>4, <2>5
<1>4. CASE c.tool = "quick"
  <2> DEFINE w == QuickWrites(c)
  <2>1. PICK paths \in SUBSET Paths : Main \notin paths /\ Says(w, QuickTexts, paths)
    BY <1>1, QuickWritesFit
  <2>2. Before(w, ServiceMain, Image)
    BY <1>1, QuickWritesFit
  <2>3. Writes(c) = w
    BY <1>4 DEF Writes
  <2> HIDE DEF w
  <2>4. ASSUME NEW i \in DOMAIN w
        PROVE  /\ w[i].path \in Paths /\ w[i].path # Main /\ w[i].text \in QuickTexts
               /\ w[i].path = Image => Comes(w, i, ServiceMain)
    <3>1. w[i] \in Elements(w)
      BY DEF Elements
    <3>2. w[i].path \in Paths /\ w[i].path # Main /\ w[i].text \in QuickTexts
      BY <2>1, <3>1 DEF Says, PathsOf
    <3>3. w[i].path = Image => Comes(w, i, ServiceMain)
      BY <2>2 DEF Before, Follows, Comes
    <3>4. QED
      BY <3>2, <3>3
  <2>5. w \in Seq(AnyFile)
    BY <2>1 DEF Says
  <2>6. QED
    BY <1>2, <1>4, <2>3, <2>4, <2>5
<1>5. QED
  BY <1>1, <1>3, <1>4

-----------------------------------------------------------------------------
(* What a generation has written so far is on the disk, as it wrote it     *)
(* last, and what it has yet to write is the rest of its files.            *)
Done == Len(Writes(ordered)) - Len(writes)
(* The j-th is what stands where the i-th was written, once n are.         *)
Stands(held, w, i, j, n) ==
  /\ w[j].path = w[i].path /\ held[w[i].path] = w[j].text
  /\ \A k \in j + 1 .. n : w[k].path # w[i].path
Progress ==
  generation \in {"running", "success"} =>
    /\ ordered \in Wanted
    /\ writes \in Seq(AnyFile) /\ Len(writes) <= Len(Writes(ordered))
    /\ \A i \in 1 .. Len(writes) : writes[i] = Writes(ordered)[Done + i]
    /\ generation = "success" => writes = << >>
    /\ \A i \in 1 .. Done : \E j \in i .. Done : Stands(disk, Writes(ordered), i, j, Done)

(* A program that starts is there only with its application's modules.     *)
MainIsLast == IsFile(Main) => \A layer \in LayerSet : IsFile(ModulesOf(layer))

DiskInv == ScaffoldTypeOK /\ Progress /\ MainIsLast /\ ImageHasItsFiles

(* The paths the properties name are paths.                                *)
LEMMA LayersAre ==
  /\ LayerSet = LayerNames
  /\ \A layer \in LayerSet : InitOf(layer) \in AllLayers /\ ModulesOf(layer) \in AllLayers
  /\ AllLayers \cup {Main, Requirements, Image, ServiceMain} \subseteq Paths
<1>1. LayerSet = LayerNames
  BY DEF LayerSet, Layers, LayerNames
<1>2. \A layer \in LayerSet : InitOf(layer) \in AllLayers /\ ModulesOf(layer) \in AllLayers
  BY <1>1 DEF LayerNames, AllLayers, LayerFiles
<1>3. AllLayers \cup {Main, Requirements, Image, ServiceMain} \subseteq Paths
  BY PathsAre DEF ApplicationPaths
<1>4. QED
  BY <1>1, <1>2, <1>3

(* The file that is written next: what it says, and what is there already. *)
LEMMA NextFile ==
  ASSUME DiskInv, generation = "running", writes # << >>
  PROVE  LET f == Head(writes)
         IN  /\ Done \in Nat /\ Done + 1 \in DOMAIN Writes(ordered) /\ f = Writes(ordered)[Done + 1]
             /\ f.path \in Paths /\ f.text \in Text \ {"none", "directory", "cut"}
             /\ f.path = Main => \A m \in AllLayers : IsFile(m)
             /\ f.path = Image /\ f.text = "dev" => IsFile(Main) /\ IsFile(Requirements)
             /\ f.path = Image /\ f.text = "quick" => IsFile(ServiceMain)
<1> DEFINE w == Writes(ordered)
<1>1. /\ ordered \in Wanted /\ writes \in Seq(AnyFile) /\ Len(writes) <= Len(w)
      /\ \A i \in 1 .. Len(writes) : writes[i] = w[Done + i]
      /\ \A i \in 1 .. Done : \E j \in i .. Done : Stands(disk, w, i, j, Done)
  BY DEF DiskInv, Progress
<1>2. w \in Seq(AnyFile)
  BY <1>1, WritesFit
<1>3. \A i \in DOMAIN w : w[i].text \in Text \ {"none", "directory", "cut"}
  BY <1>1, WritesFit
<1>4. LET f == w[Done + 1]
      IN Done + 1 \in DOMAIN w =>
           /\ f.path \in Paths /\ f.text \in Text \ {"none", "directory", "cut"}
           /\ f.path = Main => \A m \in AllLayers : Comes(w, Done + 1, m)
           /\ f.path = Image /\ f.text = "dev" =>
                Comes(w, Done + 1, Main) /\ Comes(w, Done + 1, Requirements)
           /\ f.path = Image /\ f.text = "quick" => Comes(w, Done + 1, ServiceMain)
  BY <1>1, WritesFit
<1>5. /\ Done = Len(w) - Len(writes) /\ Len(w) \in Nat /\ Len(writes) \in Nat /\ Len(writes) >= 1
      /\ Head(writes) = writes[1] /\ DOMAIN w = 1 .. Len(w)
  BY <1>1, <1>2 DEF Done
<1> HIDE DEF w
<1>6. Done \in Nat /\ Done + 1 \in DOMAIN w /\ Head(writes) = w[Done + 1]
  BY <1>1, <1>5
<1>7. ASSUME NEW p, Comes(w, Done + 1, p) PROVE IsFile(p)
  <2>1. PICK i \in DOMAIN w : i < Done + 1 /\ w[i].path = p
    BY <1>7 DEF Comes
  <2>2. i \in 1 .. Done
    BY <1>5, <1>6, <2>1
  <2>3. PICK j \in i .. Done : Stands(disk, w, i, j, Done)
    BY <1>1, <2>2
  <2>4. j \in DOMAIN w /\ disk[p] = w[j].text
    BY <1>5, <1>6, <2>1, <2>2, <2>3 DEF Stands
  <2>5. QED
    BY <1>3, <2>4 DEF IsFile
<1>8. QED
  BY <1>4, <1>6, <1>7 DEF w

(* What writing, or failing to write, does to the disk: a file stays one,  *)
(* and what the order of the files was for still holds.                    *)
LEMMA DiskChanges ==
  ASSUME DiskInv, generation = "running", writes # << >>, NEW held \in Text,
         disk' = [disk EXCEPT ![Head(writes).path] = held],
         \/ held = Head(writes).text
         \/ held \in Broken(disk[Head(writes).path])
  PROVE  /\ disk' \in [Paths -> Text]
         /\ MainIsLast' /\ ImageHasItsFiles'
<1> DEFINE f == Head(writes)
<1>1. /\ f.path \in Paths /\ f.text \in Text \ {"none", "directory", "cut"}
      /\ f.path = Main => \A m \in AllLayers : IsFile(m)
      /\ f.path = Image /\ f.text = "dev" => IsFile(Main) /\ IsFile(Requirements)
      /\ f.path = Image /\ f.text = "quick" => IsFile(ServiceMain)
  BY NextFile
<1>2. disk \in [Paths -> Text] /\ MainIsLast /\ ImageHasItsFiles
  BY DEF DiskInv, ScaffoldTypeOK
<1>3. /\ disk' = [disk EXCEPT ![f.path] = held]
      /\ \/ held = f.text \/ held = disk[f.path] \/ held = "cut"
         \/ held = "directory" /\ disk[f.path] = "none"
  BY DEF Broken
<1> HIDE DEF f
<1>4. disk' \in [Paths -> Text]
  BY <1>1, <1>2, <1>3
<1>5. ASSUME NEW p \in Paths, IsFile(p) PROVE IsFile(p)'
  BY <1>1, <1>2, <1>3, <1>5 DEF IsFile
<1>6. MainIsLast'
  <2> SUFFICES ASSUME IsFile(Main)', NEW layer \in LayerSet PROVE IsFile(ModulesOf(layer))'
    BY DEF MainIsLast
  <2>1. ModulesOf(layer) \in AllLayers /\ ModulesOf(layer) \in Paths /\ Main \in Paths
    BY LayersAre
  <2>2. IsFile(ModulesOf(layer))
    <3>1. CASE f.path = Main
      BY <1>1, <2>1, <3>1
    <3>2. CASE f.path # Main
      <4>1. IsFile(Main)
        BY <1>1, <1>2, <1>3, <2>1, <3>2 DEF IsFile
      <4>2. QED
        BY <1>2, <4>1 DEF MainIsLast
    <3>3. QED
      BY <3>1, <3>2
  <2>3. QED
    BY <1>5, <2>1, <2>2
<1>7. ImageHasItsFiles'
  <2>1. {Main, Requirements, ServiceMain, Image} \subseteq Paths
    BY LayersAre DEF ApplicationPaths
  <2>2. disk'[Image] = "dev" => IsFile(Main) /\ IsFile(Requirements)
    BY <1>1, <1>2, <1>3, <2>1 DEF ImageHasItsFiles
  <2>3. disk'[Image] = "quick" => IsFile(ServiceMain)
    BY <1>1, <1>2, <1>3, <2>1 DEF ImageHasItsFiles
  <2>4. /\ IsFile(Main) => IsFile(Main)'
        /\ IsFile(Requirements) => IsFile(Requirements)'
        /\ IsFile(ServiceMain) => IsFile(ServiceMain)'
    BY <1>5, <2>1
  <2>5. QED
    BY <2>2, <2>3, <2>4 DEF ImageHasItsFiles
<1>8. QED
  BY <1>4, <1>6, <1>7

(* A file is written,                                                      *)
LEMMA WriteFileStays ==
  ASSUME DiskInv, WriteFile
  PROVE  DiskInv'
<1> DEFINE w == Writes(ordered)
           f == Head(writes)
<1>1. /\ generation = "running" /\ writes # << >>
      /\ disk' = [disk EXCEPT ![f.path] = f.text] /\ writes' = Tail(writes)
      /\ UNCHANGED <<ordered, generation, generations>>
  BY DEF WriteFile
<1>2. /\ Done \in Nat /\ Done + 1 \in DOMAIN w /\ f = w[Done + 1]
      /\ f.path \in Paths /\ f.text \in Text
  BY <1>1, NextFile
<1>3. /\ ordered \in Wanted /\ writes \in Seq(AnyFile) /\ Len(writes) <= Len(w)
      /\ \A i \in 1 .. Len(writes) : writes[i] = w[Done + i]
      /\ \A i \in 1 .. Done : \E j \in i .. Done : Stands(disk, w, i, j, Done)
      /\ ScaffoldTypeOK
  BY <1>1 DEF DiskInv, Progress
<1>4. w \in Seq(AnyFile)
  BY <1>3, WritesFit
<1>5. /\ writes' \in Seq(AnyFile) /\ Len(writes') = Len(writes) - 1
      /\ \A i \in 1 .. Len(writes') : writes'[i] = writes[i + 1]
      /\ Len(writes) \in Nat /\ Len(writes) >= 1
  BY <1>1, <1>3
<1>6. w' = w
  BY <1>1
<1>7. Done' = Done + 1 /\ Done = Len(w) - Len(writes) /\ DOMAIN w = 1 .. Len(w) /\ Len(w) \in Nat
  BY <1>1, <1>4, <1>5 DEF Done
<1>8. disk' \in [Paths -> Text] /\ MainIsLast' /\ ImageHasItsFiles'
  BY <1>1, <1>2, DiskChanges
<1>9. disk \in [Paths -> Text]
  BY <1>3 DEF ScaffoldTypeOK
<1>10. \A i \in DOMAIN w : w[i].path \in Paths
  BY <1>3, WritesFit
<1> HIDE DEF w, f
<1>11. ASSUME NEW i \in 1 .. Done + 1
       PROVE  \E j \in i .. Done + 1 : Stands(disk', w, i, j, Done + 1)
  <2>1. Stands(disk', w, i, Done + 1, Done + 1) <=>
          /\ w[Done + 1].path = w[i].path /\ disk'[w[i].path] = w[Done + 1].text
          /\ \A k \in Done + 1 + 1 .. Done + 1 : w[k].path # w[i].path
    BY <1>6, <1>7 DEF Stands
  <2>2. Done + 1 + 1 .. Done + 1 = {}
    BY <1>2
  <2>3. CASE w[i].path = w[Done + 1].path
    <3>1. disk'[w[i].path] = w[Done + 1].text
      BY <1>1, <1>2, <1>9, <2>3
    <3>2. Done + 1 \in i .. Done + 1
      BY <1>2
    <3>3. QED
      BY <2>1, <2>2, <2>3, <3>1, <3>2
  <2>4. CASE w[i].path # w[Done + 1].path
    <3>1. i \in 1 .. Done
      BY <1>2, <2>4
    <3>2. PICK j \in i .. Done : Stands(disk, w, i, j, Done)
      BY <1>3, <3>1
    <3>3. w[i].path \in Paths
      BY <1>2, <1>7, <1>10, <3>1
    <3>4. disk'[w[i].path] = disk[w[i].path]
      BY <1>1, <1>2, <1>9, <2>4, <3>3
    <3>5. \A k \in j + 1 .. Done + 1 : k \in j + 1 .. Done \/ k = Done + 1
      BY <1>2
    <3>6. Stands(disk', w, i, j, Done + 1)
      BY <1>6, <1>7, <2>4, <3>2, <3>4, <3>5 DEF Stands
    <3>7. QED
      BY <1>2, <3>2, <3>6
  <2>5. QED
    BY <2>3, <2>4
<1>12. Progress'
  <2>1. \A i \in 1 .. Len(writes') : writes'[i] = w[Done + 1 + i]
    <3>1. ASSUME NEW i \in 1 .. Len(writes') PROVE writes'[i] = w[Done + 1 + i]
      <4>1. i + 1 \in 1 .. Len(writes) /\ Done + (i + 1) = Done + 1 + i
        BY <1>2, <1>5
      <4>2. QED
        BY <1>3, <1>5, <4>1
    <3>2. QED
      BY <3>1
  <2>2. Len(writes') <= Len(w)
    BY <1>3, <1>5, <1>7
  <2>3. QED
    BY <1>1, <1>3, <1>5, <1>6, <1>7, <1>11, <2>1, <2>2 DEF Progress, w
<1>13. ScaffoldTypeOK'
  <2>1. \A i \in DOMAIN writes' : writes'[i].path \in Paths /\ writes'[i].text \in Text
    <3>1. ASSUME NEW i \in DOMAIN writes' PROVE writes'[i].path \in Paths /\ writes'[i].text \in Text
      <4>1. i + 1 \in DOMAIN writes /\ writes'[i] = writes[i + 1]
        BY <1>3, <1>5
      <4>2. QED
        BY <1>3, <4>1 DEF ScaffoldTypeOK
    <3>2. QED
      BY <3>1
  <2>2. QED
    BY <1>1, <1>3, <1>8, <2>1 DEF ScaffoldTypeOK
<1>14. QED
  BY <1>8, <1>12, <1>13 DEF DiskInv

(* ... or is not, or not to its end.                                       *)
LEMMA WriteFailsStays ==
  ASSUME DiskInv, WriteFails
  PROVE  DiskInv'
<1>1. /\ generation = "running" /\ writes # << >> /\ generation' = "failed" /\ writes' = << >>
      /\ UNCHANGED <<ordered, generations>> /\ ScaffoldTypeOK
  BY DEF WriteFails, DiskInv
<1>2. PICK held \in Broken(disk[Head(writes).path]) :
        disk' = [disk EXCEPT ![Head(writes).path] = held]
  BY DEF WriteFails
<1>3. Head(writes).path \in Paths
  BY <1>1, NextFile
<1>4. held \in Text
  <2>1. disk[Head(writes).path] \in Text
    BY <1>1, <1>3 DEF ScaffoldTypeOK
  <2>2. QED
    BY <1>2, <2>1 DEF Broken, Text
<1>5. disk' \in [Paths -> Text] /\ MainIsLast' /\ ImageHasItsFiles'
  BY <1>1, <1>2, <1>4, DiskChanges
<1>6. ScaffoldTypeOK'
  BY <1>1, <1>5 DEF ScaffoldTypeOK
<1>7. Progress'
  BY <1>1 DEF Progress
<1>8. QED
  BY <1>5, <1>6, <1>7 DEF DiskInv

(* A generation begins with everything yet to write,                       *)
LEMMA GenerateStays ==
  ASSUME DiskInv, NEW c \in Wanted, Generate(c)
  PROVE  DiskInv'
<1>1. /\ generation # "running" /\ generations < MaxGenerations
      /\ ordered' = c /\ writes' = Writes(c)
      /\ generation' = "running" /\ generations' = generations + 1
      /\ UNCHANGED disk /\ ScaffoldTypeOK /\ MainIsLast /\ ImageHasItsFiles
  BY DEF Generate, DiskInv
<1>2. /\ Writes(c) \in Seq(AnyFile)
      /\ \A i \in DOMAIN Writes(c) : Writes(c)[i].path \in Paths /\ Writes(c)[i].text \in Text
  BY WritesFit
<1>3. Writes(ordered)' = Writes(c) /\ Done' = 0
  <2>1. Writes(ordered)' = Writes(c)
    BY <1>1
  <2>2. Len(Writes(c)) \in Nat
    BY <1>2
  <2>3. QED
    BY <1>1, <2>1, <2>2 DEF Done
<1>4. Progress'
  <2>1. Len(Writes(c)) \in Nat
    BY <1>2
  <2> DEFINE w == Writes(c)
  <2>2. /\ \A i \in 1 .. Len(w) : w[i] = w[0 + i]
        /\ 1 .. 0 = {}
    BY <2>1
  <2>3. QED
    BY <1>1, <1>2, <1>3, <2>1, <2>2 DEF Progress
<1>5. ScaffoldTypeOK'
  <2>1. generations' \in 0 .. MaxGenerations
    BY <1>1, ScaffoldAssumption DEF ScaffoldTypeOK
  <2>2. QED
    BY <1>1, <1>2, <2>1 DEF ScaffoldTypeOK
<1>6. MainIsLast' /\ ImageHasItsFiles'
  BY <1>1 DEF MainIsLast, ImageHasItsFiles, IsFile
<1>7. QED
  BY <1>4, <1>5, <1>6 DEF DiskInv

(* ... and ends with nothing.                                              *)
LEMMA ReportStays ==
  ASSUME DiskInv, Report
  PROVE  DiskInv'
<1>1. /\ generation = "running" /\ writes = << >> /\ generation' = "success"
      /\ UNCHANGED <<disk, ordered, writes, generations>>
      /\ ScaffoldTypeOK /\ Progress /\ MainIsLast /\ ImageHasItsFiles
  BY DEF Report, DiskInv
<1>2. Progress'
  <2>1. Done' = Done /\ Writes(ordered)' = Writes(ordered)
    BY <1>1 DEF Done
  <2>2. QED
    BY <1>1, <2>1 DEF Progress
<1>3. ScaffoldTypeOK' /\ MainIsLast' /\ ImageHasItsFiles'
  BY <1>1 DEF ScaffoldTypeOK, MainIsLast, ImageHasItsFiles, IsFile
<1>4. QED
  BY <1>2, <1>3 DEF DiskInv

(* An empty directory.                                                     *)
LEMMA DiskBegins ==
  ASSUME ScaffoldInit PROVE DiskInv
<1>1. /\ disk = [p \in Paths |-> "none"] /\ writes = << >> /\ ordered = NoProject
      /\ generation = "none" /\ generations = 0 /\ 0 \in 0 .. MaxGenerations
  BY ScaffoldAssumption DEF ScaffoldInit
<1>2. ScaffoldTypeOK
  BY <1>1 DEF ScaffoldTypeOK, Text
<1>3. MainIsLast /\ ImageHasItsFiles
  BY <1>1, LayersAre DEF MainIsLast, ImageHasItsFiles, IsFile
<1>4. QED
  BY <1>1, <1>2, <1>3 DEF DiskInv, Progress

-----------------------------------------------------------------------------
(* The last time a path is written is what Final means.                    *)
LEMMA FinalIs ==
  ASSUME NEW c, Writes(c) \in Seq(AnyFile), NEW i \in DOMAIN Writes(c),
         NEW j \in i .. Len(Writes(c)), Stands(disk, Writes(c), i, j, Len(Writes(c)))
  PROVE  Final(c, Writes(c)[i].path) = disk[Writes(c)[i].path]
<1> DEFINE w == Writes(c)
           mine == {k \in DOMAIN w : w[k].path = w[i].path}
           last == CHOOSE k \in mine : \A m \in mine : m <= k
<1>1. DOMAIN w = 1 .. Len(w) /\ Len(w) \in Nat
  OBVIOUS
<1>2. Final(c, w[i].path) = w[last].text
  BY DEF Final
<1>3. j \in mine /\ \A k \in j + 1 .. Len(w) : k \notin mine
  BY <1>1 DEF Stands
<1>4. disk[w[i].path] = w[j].text
  BY DEF Stands
<1>5. mine \subseteq 1 .. Len(w)
  BY <1>1
<1> HIDE DEF mine, w, last
<1>6. \A m \in mine : m <= j
  BY <1>1, <1>3, <1>5
<1>7. last \in mine /\ \A m \in mine : m <= last
  BY <1>3, <1>6 DEF last
<1>8. last = j
  BY <1>1, <1>3, <1>5, <1>6, <1>7
<1>9. QED
  BY <1>2, <1>4, <1>8, <1>7 DEF w

(* A generation reported as successful has all its files on the disk.      *)
LEMMA ReportedFits ==
  ASSUME DiskInv, generation = "success"
  PROVE  /\ ReportedIsWritten
         /\ \A i \in DOMAIN Writes(ordered) : IsFile(Writes(ordered)[i].path)
<1> DEFINE w == Writes(ordered)
<1>1. /\ ordered \in Wanted /\ writes = << >>
      /\ \A i \in 1 .. Done : \E j \in i .. Done : Stands(disk, w, i, j, Done)
  BY DEF DiskInv, Progress
<1>2. /\ w \in Seq(AnyFile)
      /\ \A i \in DOMAIN w : w[i].text \notin {"none", "directory"}
  BY <1>1, WritesFit
<1>3. Done = Len(w) /\ DOMAIN w = 1 .. Len(w) /\ Len(w) \in Nat
  BY <1>1, <1>2 DEF Done
<1>4. ASSUME NEW i \in DOMAIN w
      PROVE  disk[w[i].path] = Final(ordered, w[i].path) /\ IsFile(w[i].path)
  <2>1. PICK j \in i .. Len(w) : Stands(disk, w, i, j, Len(w))
    BY <1>1, <1>3
  <2>2. Final(ordered, w[i].path) = disk[w[i].path]
    BY <1>2, <2>1, FinalIs
  <2>3. j \in DOMAIN w /\ disk[w[i].path] = w[j].text
    BY <1>3, <2>1 DEF Stands
  <2>4. QED
    BY <1>2, <2>2, <2>3 DEF IsFile
<1>5. QED
  BY <1>4 DEF ReportedIsWritten

(* ProjectsSound, for all projects and any number of generations.          *)
THEOREM ProjectsAreSound == ScaffoldSpec => []ProjectsSound
<1>1. ASSUME DiskInv, [ScaffoldNext]_scaffoldVars PROVE DiskInv'
  <2>1. CASE UNCHANGED scaffoldVars
    BY <1>1, <2>1 DEF scaffoldVars, DiskInv, ScaffoldTypeOK, Progress, Done, Stands, MainIsLast,
                      ImageHasItsFiles, IsFile
  <2>2. QED
    BY <1>1, <2>1, WriteFileStays, WriteFailsStays, GenerateStays, ReportStays DEF ScaffoldNext
<1>2. ASSUME DiskInv PROVE ProjectsSound
  <2>1. ScaffoldTypeOK /\ MainIsLast /\ ImageHasItsFiles
    BY <1>2 DEF DiskInv
  <2>2. ReportedIsWritten
    BY <1>2, ReportedFits DEF ReportedIsWritten
  <2>3. ASSUME ordered.tool = "dev", generation = "success" PROVE Missing = {}
    <3>1. ordered \in Wanted
      BY <1>2, <2>3 DEF DiskInv, Progress
    <3>2. ApplicationPaths \subseteq PathsOf(Writes(ordered))
      BY <2>3, <3>1, WritesFit
    <3>3. \A p \in ApplicationPaths : IsFile(p)
      BY <1>2, <2>3, <3>2, ReportedFits DEF PathsOf, Elements
    <3>4. \A layer \in LayerSet : IsFile(InitOf(layer)) /\ LayerExists(layer)
      BY <3>3, LayersAre DEF ApplicationPaths, LayerExists, IsFile
    <3>5. IsFile(Main) /\ IsFile(Requirements)
      BY <3>3 DEF ApplicationPaths
    <3>6. QED
      BY <3>4, <3>5 DEF Missing
  <2>4. ASSUME Missing = {} PROVE \A l \in LayerSet : IsFile(ModulesOf(l))
    <3>1. IsFile(Main)
      BY <2>4 DEF Missing
    <3>2. QED
      BY <2>1, <3>1 DEF MainIsLast
  <2>5. QED
    BY <2>1, <2>2, <2>3, <2>4 DEF ProjectsSound, GeneratedIsValid
<1>3. QED
  BY <1>1, <1>2, DiskBegins, PTL DEF ScaffoldSpec
=============================================================================
