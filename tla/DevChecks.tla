------------------------------ MODULE DevChecks ------------------------------
(***************************************************************************)
(* The developer tools that check a configuration before a service is      *)
(* started: "dev", ValidationService of aegis-sdk-dev, "cli", its command  *)
(* line's own ConfigValidator, and "sdk", ConfigurationValidator of the    *)
(* SDK.  Beside them BootstrapService, which uses the connection adapter   *)
(* of the first as well: create_all_adapters makes one for all services.   *)
(*                                                                         *)
(* A name is what the patterns tell apart of it; a URL is its scheme.      *)
(***************************************************************************)
EXTENDS Naturals

CONSTANTS
  Given,           \* configurations somebody has: name, url, environment
  MaxConnections,  \* bound
  MaxChanges       \* bound: the server comes and goes

Kind == {"lower", "upper", "digit", "hyphen", "underscore", "dot"}
Name == [size : {"short", "fits", "long"}, first : Kind, last : Kind, others : SUBSET Kind]
Url == {"nats://", "tls://", "ws://", "http://", "auto"}
Environment == {"auto", "local", "docker", "kubernetes", "production", "local-k8s", "other"}

ASSUME DevChecksAssumption ==
  /\ Given \subseteq [name : Name, url : Url, environment : Environment]
  /\ {MaxConnections, MaxChanges} \subseteq Nat

VARIABLES
  reachable,   \* the NATS server answers
  kubernetes,  \* the tools run in a cluster
  config, tool,
  at,          \* where the validation is
  issues, valid,  \* ValidationResult
  reached,     \* history: the server answered the validation
  boot,        \* where the bootstrap is
  client,      \* NATSConnectionAdapter._client
  open,        \* connections that are open
  made,        \* how many have been made
  careless,    \* history: connects overlapped, or one was refused its URL
  changes

verdictVars == <<config, tool, issues, valid, reached>>
worldVars == <<reachable, kubernetes, changes>>
adapterVars == <<client, open, made, careless>>
devVars == <<worldVars, verdictVars, at, boot, adapterVars>>

Tool == {"dev", "cli", "sdk"}
Issue == {"ERROR", "WARNING", "INFO"} \X {"NAME", "URL", "ENVIRONMENT", "NATS", "K8S"}

DevTypeOK ==
  /\ {reachable, kubernetes, valid, reached, careless} \subseteq BOOLEAN
  /\ config \in Given /\ tool \in Tool /\ issues \subseteq Issue
  /\ at \in {"new", "refused", "configured", "connecting", "connected", "checked", "done"}
  /\ boot \in {"no", "connecting", "connected", "yes", "failed", "cleaned"}
  /\ client \in 0 .. MaxConnections /\ open \subseteq 1 .. MaxConnections
  /\ made \in 0 .. MaxConnections /\ changes \in 0 .. MaxChanges

DevInit ==
  /\ reachable \in BOOLEAN /\ kubernetes \in BOOLEAN /\ config \in Given /\ tool \in Tool
  /\ at = "new" /\ issues = {} /\ valid = TRUE /\ reached = FALSE
  /\ boot = "no" /\ client = 0 /\ open = {} /\ made = 0 /\ careless = FALSE /\ changes = 0

-----------------------------------------------------------------------------
(* What each of them accepts.                                              *)
Chars(n) == {n.first, n.last} \cup n.others
Plain == {"lower", "upper", "digit"}

(* ServiceConfiguration of aegis-sdk-dev, whose validators raise.          *)
Constructs(c) ==
  /\ c.name.size # "short" /\ Chars(c.name) \subseteq {"lower", "digit", "hyphen"}
  /\ {c.name.first, c.name.last} \subseteq {"lower", "digit"}
  /\ c.url \in {"nats://", "tls://", "ws://"}
  /\ c.environment \in {"auto", "local", "docker", "kubernetes", "production"}
(* BootstrapConfig adds the pattern of a project's name; both get one name.*)
Bootstraps(c) == Constructs(c) /\ c.name.first = "lower"
(* The SDK's value object ServiceName.                                     *)
ServiceName(n) ==
  /\ n.size # "long" /\ n.first \in {"lower", "upper"} /\ n.last \in Plain
  /\ Chars(n) \subseteq Plain \cup {"hyphen", "underscore"}

If(condition, issue) == IF condition THEN {issue} ELSE {}
NameIssues(n) ==
  If(n.size = "short" \/ ~ Chars(n) \subseteq Plain \cup {"hyphen", "underscore"},
     <<"ERROR", "NAME">>)
DevIssues(c) ==
  NameIssues(c.name)
    \cup If(c.url \notin {"nats://", "tls://", "ws://"}, <<"ERROR", "URL">>)
    \cup If(c.environment \notin {"auto", "local", "kubernetes", "production"},
            <<"WARNING", "ENVIRONMENT">>)
CliIssues(c) == If(c.name.size = "short", <<"ERROR", "NAME">>)
SdkIssues(c) ==
  If(c.name.size = "short", <<"WARNING", "NAME">>)
    \cup If(c.url = "auto", <<"INFO", "URL">>)
    \cup If(c.url \in {"ws://", "http://"}, <<"ERROR", "URL">>)
    \cup If(c.environment \notin {"local-k8s", "docker", "production"},
            <<"WARNING", "ENVIRONMENT">>)
(* ConfigurationAdapter's, of a configuration read from a file.            *)
FileErrors(c) ==
  If(c.name.size = "short", <<"ERROR", "NAME">>)
    \cup If(c.url \notin {"nats://", "tls://", "ws://"}, <<"ERROR", "URL">>)
    \cup If(c.environment \notin {"auto", "local", "kubernetes", "production"},
            <<"ERROR", "ENVIRONMENT">>)

(* Mutant of AddIssues: a later issue without ERROR clears the verdict.    *)
AddAndJudgeAnew(new) ==
  /\ issues' = issues \cup new
  /\ valid' = ({i \in new : i[1] = "ERROR"} = {})
AddIssues(new) ==
  /\ issues' = issues \cup new
  /\ valid' = (valid /\ {i \in new : i[1] = "ERROR"} = {})

Configure ==
  /\ at = "new"
  /\ IF tool = "dev" /\ ~Constructs(config)
     THEN at' = "refused" /\ UNCHANGED <<issues, valid>>
     ELSE /\ at' = "configured"
          /\ AddIssues(CASE tool = "dev" -> DevIssues(config)
                         [] tool = "cli" -> CliIssues(config)
                         [] tool = "sdk" -> SdkIssues(config))
  /\ UNCHANGED <<worldVars, config, tool, reached, boot, adapterVars>>

-----------------------------------------------------------------------------
(* NATSConnectionAdapter.  What is wrong with the URL is raised inside the *)
(* try, whose handler forgets the connection there was.                    *)
Connectable == config.url \in {"nats://", "tls://"}
BeginConnect ==
  IF Connectable
  THEN /\ open' = open \ {client} /\ UNCHANGED <<client, made>>
       /\ careless' = (careless \/ at = "connecting" \/ boot = "connecting")
  ELSE client' = 0 /\ careless' = (careless \/ client # 0) /\ UNCHANGED <<open, made>>
Opened ==
  /\ reachable /\ made < MaxConnections
  /\ made' = made + 1 /\ client' = made' /\ open' = open \cup {made'}
  /\ UNCHANGED careless
(* The handler of a timeout leaves the client that was closed.             *)
NotOpened == client' \in {0, client} /\ UNCHANGED <<open, made, careless>>
Disconnect == open' = open \ {client} /\ client' = 0 /\ UNCHANGED <<made, careless>>

NatsError == {<<"ERROR", "NATS">>}

(* The validations of aegis-sdk-dev: connect, disconnect, done.            *)
TryConnect ==
  /\ tool = "dev" /\ at = "configured" /\ BeginConnect
  /\ IF Connectable THEN at' = "connecting" /\ UNCHANGED <<issues, valid>>
                    ELSE at' = "checked" /\ AddIssues(NatsError)
  /\ UNCHANGED <<worldVars, config, tool, reached, boot>>
ConnectEnds ==
  /\ at = "connecting"
  /\ \/ Opened /\ at' = "connected" /\ reached' = TRUE /\ UNCHANGED <<issues, valid>>
     \/ NotOpened /\ at' = "checked" /\ AddIssues(NatsError) /\ UNCHANGED reached
  /\ UNCHANGED <<worldVars, config, tool, boot>>
CloseAgain ==
  /\ at = "connected" /\ at' = "checked" /\ Disconnect
  /\ UNCHANGED <<worldVars, verdictVars, boot>>

(* The other two use a NATSAdapter of their own, which Pools models: here  *)
(* it answers or not.  The SDK's tool calls a close() that NATSAdapter     *)
(* does not have, and reports the AttributeError as a failed connection.   *)
TryPool ==
  /\ tool # "dev" /\ at = "configured" /\ at' = "checked"
  /\ \/ /\ reachable /\ config.url # "http://" /\ (tool = "cli" => config.url # "auto")
        /\ reached' = TRUE /\ AddIssues(IF tool = "sdk" THEN NatsError ELSE {})
     \/ UNCHANGED reached /\ AddIssues(NatsError)
  /\ UNCHANGED <<worldVars, config, tool, boot, adapterVars>>

(* Where it runs is information, except for the SDK's tool, which looks at *)
(* kubectl, the namespace, the service and the port-forward, and at them   *)
(* only if asked to.                                                       *)
ClusterIssues ==
  IF tool # "sdk" THEN {If(~kubernetes, <<"INFO", "K8S">>)}
  ELSE {{}} \cup SUBSET ({"ERROR", "WARNING", "INFO"} \X {"K8S"})
LookAround ==
  /\ at = "checked" /\ at' = "done" /\ \E found \in ClusterIssues : AddIssues(found)
  /\ UNCHANGED <<worldVars, config, tool, reached, boot, adapterVars>>

-----------------------------------------------------------------------------
(* bootstrap_sdk_service: connect, then the bucket, whose creation may     *)
(* fail unseen; without a client the adapter raises.                       *)
BeginBootstrap ==
  /\ boot = "no" /\ BeginConnect
  /\ boot' = IF Connectable THEN "connecting" ELSE "failed"
  /\ UNCHANGED <<worldVars, verdictVars, at>>
BootstrapConnects ==
  /\ boot = "connecting"
  /\ \/ Opened /\ boot' = "connected"
     \/ NotOpened /\ boot' = "failed"
  /\ UNCHANGED <<worldVars, verdictVars, at>>
PrepareBucket ==
  /\ boot = "connected" /\ boot' = IF client = 0 THEN "failed" ELSE "yes"
  /\ UNCHANGED <<worldVars, verdictVars, at, adapterVars>>
(* cleanup_service: only a client that is connected is disconnected.       *)
CleanUp ==
  /\ boot \in {"yes", "failed"} /\ boot' = "cleaned"
  /\ IF client \in open THEN Disconnect ELSE UNCHANGED adapterVars
  /\ UNCHANGED <<worldVars, verdictVars, at>>

ServerChanges ==
  /\ changes < MaxChanges /\ changes' = changes + 1 /\ reachable' = ~reachable
  /\ UNCHANGED <<kubernetes, verdictVars, at, boot, adapterVars>>

DevNext ==
  \/ Configure \/ TryConnect \/ ConnectEnds \/ CloseAgain \/ TryPool \/ LookAround
  \/ BeginBootstrap \/ BootstrapConnects \/ PrepareBucket \/ CleanUp
  \/ ServerChanges

DevSpec == DevInit /\ [][DevNext]_devVars
-----------------------------------------------------------------------------
(* The rules of aegis-sdk-dev agree although they are written four times:  *)
(* what can be constructed has no error, in the validation, in a file and  *)
(* for the command line; only "docker" is known to one and not to others.  *)
RulesAgree ==
  Constructs(config) =>
    LET other == IF config.environment = "docker" THEN {"ENVIRONMENT"} ELSE {}
    IN \A i \in DevIssues(config) \cup FileErrors(config) \cup CliIssues(config) : i[2] \in other

(* A project that may be bootstrapped has a name that the SDK accepts for  *)
(* its service, unless it is longer than 64 characters.                    *)
ProjectsCanRun == Bootstraps(config) /\ config.name.size # "long" => ServiceName(config.name)

(* A configuration is called valid where no error was found, and then the  *)
(* server did answer; and where it answered the tools of aegis-sdk-dev     *)
(* find nothing wrong but the name.                                        *)
VerdictTells ==
  at = "done" =>
    /\ valid <=> {i \in issues : i[1] = "ERROR"} = {}
    /\ valid => reached
    /\ reached /\ tool # "sdk" => {i \in issues : i[1] = "ERROR"} \subseteq {<<"ERROR", "NAME">>}

(* The adapter forgets no connection that is open, whoever uses it, as     *)
(* long as no two connect at once and no URL is refused while one is open. *)
NoneForgotten == ~careless => open \subseteq {client}

(* The types, and the checks: their rules, their verdict, and what they do *)
(* with the connection.                                                    *)
ChecksSound == DevTypeOK /\ RulesAgree /\ ProjectsCanRun /\ VerdictTells /\ NoneForgotten
=============================================================================
