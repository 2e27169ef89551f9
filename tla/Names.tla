------------------------------- MODULE Names --------------------------------
(***************************************************************************)
(* The names of services, instances, groups and messages, what the         *)
(* validators accept of them, and the keys and subjects composed of them:  *)
(* several components share one bucket and one subject space, and know     *)
(* each other's entries by their names alone.                              *)
(*                                                                         *)
(* A name is a sequence of characters: "x" is a small letter, "X" the      *)
(* capital; "rpc", "callback" and the like stand for these words.         *)
(***************************************************************************)
EXTENDS Naturals, Sequences, FiniteSets, SequencesExt

CONSTANTS
  Name,       \* the names in use
  Reserved,   \* the name that is a token of the command subjects (progress)
  MaxRecords, \* bound: records in the registry at a time
  MaxEntries  \* bound: groups, states or subscriptions at a time

Underscore == "underscore"
Period == "period"
Callback == <<"callback">>
Cancel == <<"cancel">>
ASSUME NamesAssumption ==
  /\ Name \subseteq Seq(STRING) \ {<<>>}
  /\ Reserved \in Name \ {Callback, Cancel} /\ \A k \in DOMAIN Reserved : Reserved[k] # Period
  /\ MaxRecords \in Nat /\ MaxEntries \in Nat

Alnum(c) == c \notin {Underscore, Period}
Has(s, c) == \E k \in DOMAIN s : s[k] = c
HasSeparator(s) == \E k \in DOMAIN s : k > 1 /\ s[k - 1] = Underscore /\ s[k] = Underscore
Lower(s) == [k \in DOMAIN s |-> IF s[k] = "X" THEN "x" ELSE s[k]]

VARIABLES
  bucket,      \* the registry: what is stored under which key
  registered,  \* history: the pairs registered and not deregistered since
  leaders,     \* leader keys in use, with the group of each
  states,      \* keys of saved elections, with the aggregate of each
  subscribed   \* what somebody subscribed to

nameVars == <<bucket, registered, leaders, states, subscribed>>

(* is_valid_service_name and the validators of ServiceInfo and             *)
(* ServiceInstance: no dots, and the first character a letter.             *)
ServiceAccepted(s) == Alnum(s[1]) /\ ~Has(s, Period)
InstanceAccepted(i) == Alnum(i[1]) /\ ~Has(i, Period)
(* The value object ServiceName, which also lowers.                        *)
NameAccepted(s) == Alnum(s[1]) /\ Alnum(s[Len(s)]) /\ ~Has(s, Period)
GroupAccepted(g) == Alnum(g[1])

Dot == <<Period>>
Separator == <<Underscore, Underscore>>

(* Mutant of MakeKey: a single underscore.                                 *)
MakeKeySingle(s, i) == s \o <<Underscore>> \o i
MakeKey(s, i) == s \o Separator \o i
LeaderKey(s, g) == Lower(s) \o Dot \o g
StateKey(s, i, g) == Lower(s) \o Dot \o i \o Dot \o g

NamesTypeOK ==
  /\ registered \subseteq Name \X Name
  /\ DOMAIN bucket = {MakeKey(p[1], p[2]) : p \in registered}
  /\ \A k \in DOMAIN bucket : bucket[k] \in Name \X Name

NamesInit ==
  /\ bucket = <<>> /\ registered = {} /\ leaders = {} /\ states = {}
  /\ subscribed = {}

(* The three kinds of keys and the subjects do not meet: a behaviour fills *)
(* one of them.                                                            *)
Room(entries) ==
  /\ Cardinality(entries) < (IF entries = registered THEN MaxRecords ELSE MaxEntries)
  /\ registered \cup leaders \cup states \cup subscribed = entries

(* Two pairs may have one key; the later record then replaces the earlier. *)
Register(s, i) ==
  /\ ServiceAccepted(s) /\ InstanceAccepted(i) /\ Room(registered)
  /\ LET k == MakeKey(s, i)
     IN bucket' = [x \in DOMAIN bucket \cup {k} |-> IF x = k THEN <<s, i>> ELSE bucket[x]]
  /\ registered' = {p \in registered : MakeKey(p[1], p[2]) # MakeKey(s, i)} \cup {<<s, i>>}
  /\ UNCHANGED <<leaders, states, subscribed>>

Deregister(p) ==
  /\ bucket' = [x \in DOMAIN bucket \ {MakeKey(p[1], p[2])} |-> bucket[x]]
  /\ registered' = registered \ {p}
  /\ UNCHANGED <<leaders, states, subscribed>>

(* The election of a group, and the saved state of an instance in it.      *)
Contest(s, g) ==
  /\ NameAccepted(s) /\ GroupAccepted(g) /\ Room(leaders)
  /\ leaders' = leaders \cup {[key |-> LeaderKey(s, g), group |-> <<Lower(s), g>>]}
  /\ UNCHANGED <<bucket, registered, states, subscribed>>

SaveState(s, i, g) ==
  /\ NameAccepted(s) /\ InstanceAccepted(i) /\ GroupAccepted(g) /\ Room(states)
  /\ states' = states \cup {[key |-> StateKey(s, i, g), of |-> <<Lower(s), i, g>>]}
  /\ UNCHANGED <<bucket, registered, leaders, subscribed>>

-----------------------------------------------------------------------------
(* key.split("__") cuts from the left: a run of underscores in pairs, from *)
(* its first one.                                                          *)
Run(s, j, k) == (j = 1 \/ s[j - 1] # Underscore) /\ \A i \in j .. k : s[i] = Underscore
Cuts(s) == {k \in 1 .. Len(s) - 1 : s[k + 1] = Underscore /\ \E j \in 1 .. k : Run(s, j, k) /\ (k - j) % 2 = 0}
FirstPart(s) == IF Cuts(s) = {} THEN s ELSE SubSeq(s, 1, Min(Cuts(s)) - 1)
LastPart(s) == IF Cuts(s) = {} THEN s ELSE SubSeq(s, Max(Cuts(s)) + 2, Len(s))

(* get_instance: whatever is stored under the key.                         *)
GetInstance(s, i) ==
  IF MakeKey(s, i) \in DOMAIN bucket THEN {bucket[MakeKey(s, i)]} ELSE {}

ListInstances(s) ==
  UNION {GetInstance(s, LastPart(k)) :
           k \in {k \in DOMAIN bucket : IsPrefix(s \o Separator, k)}}

(* list_all_services files a record under the first part of its key.       *)
ListAllServices(s) == {bucket[k] : k \in {k \in DOMAIN bucket : FirstPart(k) = s}}

-----------------------------------------------------------------------------
(* SubjectPatterns: the subject of a message of a kind about two names, or *)
(* about the identifier of a command.                                      *)
AboutCommand == {"progress", "callback", "cancel"}
Kind == {"rpc", "events", "commands", "service"} \cup AboutCommand
Wanted == [kind : Kind, of : Name, what : Name]
FirstToken(w) == <<IF w.kind \in AboutCommand THEN "commands" ELSE w.kind>>
SecondToken(w) ==
  CASE w.kind = "progress" -> Reserved
    [] w.kind = "callback" -> Callback
    [] w.kind = "cancel" -> Cancel
    [] OTHER -> w.of
Subject(w) == FirstToken(w) \o Dot \o (SecondToken(w) \o Dot \o w.what)

(* Nothing is asked of the names but that they are not empty: domains,     *)
(* event types, methods, commands and identifiers may have full stops.     *)
(* The target of a call is cut at its first.                               *)
WantedAccepted(w) ==
  /\ w.kind = "rpc" => ~Has(w.of, Period)
  /\ w.kind \in AboutCommand => w.of = w.what

Subscribe(w) ==
  /\ WantedAccepted(w) /\ Room(subscribed)
  /\ subscribed' = subscribed \cup {w}
  /\ UNCHANGED <<bucket, registered, leaders, states>>

NamesNext ==
  \/ \E s, i \in Name : Register(s, i)
  \/ \E p \in registered : Deregister(p)
  \/ \E s, g \in Name : Contest(s, g)
  \/ \E s, i, g \in Name : SaveState(s, i, g)
  \/ \E w \in Wanted : Subscribe(w)

NamesSpec == NamesInit /\ [][NamesNext]_nameVars
-----------------------------------------------------------------------------
Plain(s) == ~HasSeparator(s) /\ Alnum(s[Len(s)])
Of(s) == {p \in registered : p[1] = s}

(* A service with a plain name whose instances have plain names is listed  *)
(* exactly, however ambiguous the names other services chose, unless one   *)
(* of these ends with an underscore: the instances of x_ are listed with   *)
(* those of x, since x___y is cut after the x.                             *)
PlainListed ==
  (\A p \in registered : Alnum(Last(p[1])))
    => \A s \in Name :
         Plain(s) /\ (\A p \in Of(s) : ~HasSeparator(p[2])) => ListInstances(s) = Of(s)

(* Where every name is plain the two listings, which take the keys apart   *)
(* in different ways, agree.                                               *)
ListingsAgree ==
  (\A p \in registered : Plain(p[1]) /\ ~HasSeparator(p[2]))
    => \A s \in Name : ListAllServices(s) = ListInstances(s)

(* Two groups never contest one leader key, and two aggregates are never   *)
(* saved under one key, though groups may contain dots.                    *)
GroupKeysApart ==
  /\ \A a, b \in leaders : a.key = b.key => a = b
  /\ \A a, b \in states : a.key = b.key => a = b

(* Subscribers to an exact subject get only what they want: messages of    *)
(* different kinds or about different names have different subjects,       *)
(* unless the domain of an event or the target of a command has a full     *)
(* stop, for that of a.b and c is that of a and b.c, or a service has the  *)
(* name of a token of the command subjects.                                *)
NoCrosstalk ==
  \A v, w \in subscribed :
    Subject(v) = Subject(w) =>
      \/ v = w
      \/ Has(SecondToken(v), Period) \/ Has(SecondToken(w), Period)
      \/ v.kind # w.kind /\ {Reserved, Callback, Cancel} \cap {v.of, w.of} # {}

(* The types, and that everybody finds their own entries and messages.     *)
NamesSound == NamesTypeOK /\ PlainListed /\ ListingsAgree /\ GroupKeysApart /\ NoCrosstalk
=============================================================================
