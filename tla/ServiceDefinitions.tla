------------------------- MODULE ServiceDefinitions -------------------------
(***************************************************************************)
(* The monitor API's registry of service definitions: requests that        *)
(* create, update, delete and list, each a chain of separate calls to the  *)
(* key-value bucket, and the task that looks for stale definitions.        *)
(*                                                                         *)
(* One definition (one key) with two fields an update can set.  A field    *)
(* holds the request that wrote it.                                        *)
(***************************************************************************)
EXTENDS Naturals, FiniteSets

CONSTANTS
  Ask,           \* the requests, numbered in the order they arrive
  NoDef,         \* the value of a key that is not there
  MaxDefFaults   \* bound: calls to the bucket that fail

ASSUME DefinitionAssumption ==
  /\ Ask \subseteq Nat /\ IsFiniteSet(Ask) /\ MaxDefFaults \in Nat
  /\ NoDef \notin [{"owner", "version"} -> Ask]

Field == {"owner", "version"}
AskKind == {"create", "setOwner", "setVersion", "delete", "list"}
NoRevision == 0
MaxRevision == 2 * Cardinality(Ask) + 2

VARIABLES
  def,       \* the definition in the bucket
  rev,       \* the bucket's last revision
  defRev,    \* the revision of def
  wrote,     \* history: the request that wrote it last
  askKind,   \* what a request is for
  given,     \* the revision it names, or NoRevision
  askAt,     \* the call it makes next
  base,      \* the definition it loaded
  result,    \* the answer: its HTTP status
  witnessed, \* history: was there a definition, at the moments of its life
  hit,       \* history: a call of it failed
  before,    \* history: the requests that had ended when it began
  crossed,   \* history: another wrote since its revision was compared
  task,      \* the cleanup task
  defFaults

askVars == <<askKind, given, askAt, base, result, witnessed, hit, before, crossed>>
keyVars == <<def, rev, defRev, wrote>>
definitionVars == <<keyVars, askVars, task, defFaults>>

Definition == [Field -> Ask]
Answer == {200, 201, 204, 404, 409, 500}

DefinitionTypeOK ==
  /\ def \in Definition \cup {NoDef}
  /\ rev \in 0 .. MaxRevision /\ defRev \in 0 .. rev /\ wrote \in Ask \cup {NoDef}
  /\ askKind \in [Ask -> AskKind] /\ given \in [Ask -> 0 .. MaxRevision]
  /\ askAt \in [Ask -> {"new", "exists", "load", "check", "compare", "put",
                        "delete", "keys", "entry", "done"}]
  /\ base \in [Ask -> Definition \cup {NoDef}]
  /\ \A a \in Ask : (askAt[a] = "done") = (result[a] \in Answer)
  /\ witnessed \in [Ask -> SUBSET BOOLEAN] /\ hit \in [Ask -> BOOLEAN]
  /\ before \in [Ask -> SUBSET Ask] /\ crossed \in [Ask -> BOOLEAN]
  /\ task \in {"off", "waiting", "listing"}
  /\ defFaults \in 0 .. MaxDefFaults

DefinitionInit ==
  /\ def = NoDef /\ rev = 0 /\ defRev = 0 /\ wrote = NoDef
  /\ askKind = [a \in Ask |-> "list"] /\ given = [a \in Ask |-> NoRevision]
  /\ askAt = [a \in Ask |-> "new"] /\ base = [a \in Ask |-> NoDef]
  /\ result = [a \in Ask |-> 0]
  /\ witnessed = [a \in Ask |-> {}] /\ hit = [a \in Ask |-> FALSE]
  /\ before = [a \in Ask |-> {}] /\ crossed = [a \in Ask |-> FALSE]
  /\ task = "waiting" /\ defFaults = 0

There == def # NoDef
Under(a) == askAt[a] \notin {"new", "done"}

-----------------------------------------------------------------------------
(* The bucket *)

(* A write by a, or by the task (a = NoDef): every request under way       *)
(* sees whether a definition is there now.                                 *)
Write(a, d) ==
  /\ def' = d /\ rev' = rev + 1 /\ defRev' = rev' /\ wrote' = a
  /\ crossed' = [b \in Ask |-> crossed[b] \/ (b # a /\ askAt[b] = "put")]
  /\ witnessed' = [b \in Ask |->
       witnessed[b] \cup IF Under(b) THEN {d # NoDef} ELSE {}]

Untouched == UNCHANGED <<keyVars, crossed, witnessed>>

(* A failing call.  get, exists, keys and delete of the store swallow the  *)
(* failure: it reads as no definition, no key, a deletion done.            *)
Trips(a) ==
  /\ defFaults < MaxDefFaults /\ defFaults' = defFaults + 1
  /\ hit' = [hit EXCEPT ![a] = TRUE]
Smooth == UNCHANGED <<defFaults, hit>>

(* What a get, or exists, tells the request: the definition, or nothing.   *)
Reads(a, d) == \/ d = def /\ Smooth
               \/ d = NoDef /\ Trips(a)

Goes(a, place) == askAt' = [askAt EXCEPT ![a] = place] /\ UNCHANGED result
Ends(a, status) ==
  askAt' = [askAt EXCEPT ![a] = "done"] /\ result' = [result EXCEPT ![a] = status]
Asking == UNCHANGED <<askKind, given, before, task>>

-----------------------------------------------------------------------------
(* The requests *)

FirstCall(k) == CASE k \in {"create", "delete"} -> "exists"
                  [] k = "list" -> "keys"
                  [] OTHER -> "load"

(* A request arrives.  An update may name a revision its client has read.  *)
Arrives(a) ==
  /\ askAt[a] = "new" /\ \A b \in Ask : b < a => askAt[b] # "new"
  /\ \E k \in AskKind :
       /\ askKind' = [askKind EXCEPT ![a] = k]
       /\ \E r \in IF k \in {"setOwner", "setVersion"} THEN 0 .. rev
                   ELSE {NoRevision} : given' = [given EXCEPT ![a] = r]
       /\ Goes(a, FirstCall(k))
  /\ before' = [before EXCEPT ![a] = {b \in Ask : askAt[b] = "done"}]
  /\ witnessed' = [witnessed EXCEPT ![a] = {There}]
  /\ UNCHANGED <<keyVars, base, crossed, task>> /\ Smooth

(* put and delete of the adapter look whether the key exists first.        *)
Exists(a) ==
  /\ askAt[a] = "exists"
  /\ \E d \in {def, NoDef} :
       /\ Reads(a, d)
       /\ \/ askKind[a] = "create" /\ IF d = NoDef THEN Goes(a, "put") ELSE Ends(a, 409)
          \/ askKind[a] = "delete" /\ IF d = NoDef THEN Ends(a, 404) ELSE Goes(a, "delete")
  /\ Untouched /\ Asking /\ UNCHANGED base

(* update_service reads what it will change.                               *)
Load(a) ==
  /\ askAt[a] = "load"
  /\ \E d \in {def, NoDef} :
       /\ Reads(a, d)
       /\ IF d = NoDef THEN Ends(a, 404) /\ UNCHANGED base
          ELSE Goes(a, "check") /\ base' = [base EXCEPT ![a] = d]
  /\ Untouched /\ Asking

(* The adapter's update reads once more, only to see that it is there.     *)
Check(a) ==
  /\ askAt[a] = "check"
  /\ \E d \in {def, NoDef} :
       /\ Reads(a, d)
       /\ CASE d = NoDef -> Ends(a, 404)
            [] given[a] = NoRevision -> Goes(a, "put")
            [] OTHER -> Goes(a, "compare")
  /\ Untouched /\ Asking /\ UNCHANGED base

(* Mutant of Compare: the revision is not looked at.                       *)
CompareNothing(a) ==
  /\ askAt[a] = "compare" /\ There /\ Goes(a, "put")
  /\ crossed' = [crossed EXCEPT ![a] = FALSE]
  /\ UNCHANGED <<keyVars, witnessed, base>> /\ Asking /\ Smooth

(* put of the store compares the revision, and puts with a call of its own.*)
(* A key that is gone is an error here, not a 404.                         *)
Compare(a) ==
  /\ askAt[a] = "compare"
  /\ \/ There /\ defRev = given[a] /\ Goes(a, "put") /\ Smooth
     \/ There /\ defRev # given[a] /\ Ends(a, 409) /\ Smooth
     \/ ~There /\ Ends(a, 500) /\ Smooth
     \/ Ends(a, 500) /\ Trips(a)
  /\ crossed' = [crossed EXCEPT ![a] = FALSE]
  /\ UNCHANGED <<keyVars, witnessed, base>> /\ Asking

(* The definition a request writes: what it loaded under what it sets.     *)
Merged(a) ==
  CASE askKind[a] = "create" -> [f \in Field |-> a]
    [] askKind[a] = "setOwner" -> [base[a] EXCEPT !["owner"] = a]
    [] OTHER -> [base[a] EXCEPT !["version"] = a]

(* The put itself is unconditional: it overwrites what is there.  When it  *)
(* fails it may have been carried out.                                     *)
Put(a) ==
  /\ askAt[a] = "put"
  /\ \/ Write(a, Merged(a)) /\ Smooth /\ Ends(a, IF askKind[a] = "create" THEN 201 ELSE 200)
     \/ Trips(a) /\ Ends(a, 500) /\ (Write(a, Merged(a)) \/ Untouched)
  /\ Asking /\ UNCHANGED base

(* The delete names no revision, and its answer is not looked at.          *)
Delete(a) ==
  /\ askAt[a] = "delete" /\ Ends(a, 204)
  /\ \/ Write(a, NoDef) /\ Smooth
     \/ Trips(a) /\ Untouched
  /\ Asking /\ UNCHANGED base

(* list_services reads the keys, then the entry of each.                   *)
List(a) ==
  /\ askAt[a] \in {"keys", "entry"}
  /\ \E d \in {def, NoDef} :
       /\ Reads(a, d)
       /\ IF askAt[a] = "keys" /\ d # NoDef THEN Goes(a, "entry") /\ UNCHANGED base
          ELSE Ends(a, 200) /\ base' = [base EXCEPT ![a] = d]
  /\ Untouched /\ Asking

AskStep(a) == \/ Arrives(a) \/ Exists(a) \/ Load(a) \/ Check(a) \/ Compare(a)
              \/ Put(a) \/ Delete(a) \/ List(a)

-----------------------------------------------------------------------------
(* The cleanup task *)

(* A definition is swept for the age of its last_heartbeat or for its      *)
(* status, and a ServiceDefinition has neither.                            *)
Sweepable(d) == d # NoDef /\ {"last_heartbeat", "status"} \cap DOMAIN d # {}

NoAsk == UNCHANGED <<askKind, given, askAt, base, result, hit, before, defFaults>>

Interval == task = "waiting" /\ task' = "listing" /\ Untouched /\ NoAsk

(* stop waits for a sweep that is under way.                               *)
StopTask == task = "waiting" /\ task' = "off" /\ Untouched /\ NoAsk

Sweep ==
  /\ task = "listing" /\ task' = "waiting"
  /\ IF Sweepable(def) /\ rev < MaxRevision THEN Write(NoDef, NoDef) ELSE Untouched
  /\ NoAsk

TaskStep == Interval \/ StopTask \/ Sweep

DefinitionNext == TaskStep \/ \E a \in Ask : AskStep(a)

DefinitionSpec == DefinitionInit /\ [][DefinitionNext]_definitionVars

-----------------------------------------------------------------------------
(* Properties *)

(* Without a failing call an answer tells the truth about some moment of   *)
(* the request, though it is put together from several calls: 404 and 204  *)
(* that there was no definition, 201 that there was none before, 409 that  *)
(* there was one.                                                          *)
AnswersAreTrue ==
  \A a \in Ask : askAt[a] = "done" /\ ~hit[a] =>
    /\ result[a] \in {404, 204, 201} => FALSE \in witnessed[a]
    /\ result[a] \in {409, 201} => TRUE \in witnessed[a]

(* A request that named a revision and is about to write loaded exactly    *)
(* the definition it replaces, unless another request wrote after the      *)
(* comparison: the window between the two calls is the only one.           *)
GuardedUpdateIsFresh ==
  \A a \in Ask :
    askAt[a] = "put" /\ given[a] # NoRevision /\ ~crossed[a] => base[a] = def

(* No request undoes what another had finished writing before it began:    *)
(* where one puts back a field it was not to change, the definition it     *)
(* overwrites is that of a request that overlaps it.  A create excepted.   *)
NeverUndone ==
  [][\A f \in Field :
       def # NoDef /\ def' # NoDef /\ def'[f] # def[f] =>
         \E a \in Ask :
           /\ askAt[a] = "put" /\ askAt'[a] = "done"
           /\ \/ askKind[a] = "create"
              \/ f = "owner" /\ askKind[a] = "setOwner"
              \/ f = "version" /\ askKind[a] = "setVersion"
              \/ wrote \notin before[a]]_definitionVars

(* A definition goes by a request to delete it and in no other way: the    *)
(* periodic cleanup never takes one.                                       *)
OnlyDeleteDeletes ==
  [][def # NoDef /\ def' = NoDef =>
       \E a \in Ask : askAt[a] = "delete" /\ askAt'[a] = "done"]_definitionVars

(* The types, and requests that overlap: their answers are true, what they *)
(* write is current, and nothing is undone or deleted but by one of them.  *)
DefinitionsSound ==
  [](DefinitionTypeOK /\ AnswersAreTrue /\ GuardedUpdateIsFresh)
    /\ NeverUndone /\ OnlyDeleteDeletes
=============================================================================
