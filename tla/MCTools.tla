------------------------------ MODULE MCTools -------------------------------
(***************************************************************************)
(* The tools beside the SDK for TLC: the monitor's API and its screen, and *)
(* the developer tools.  They share no state, so each behaviour is one of  *)
(* one of them: focus says which.                                          *)
(***************************************************************************)
EXTENDS ServiceDefinitions, InstanceRecords, Dashboard,
        Scaffold, DevChecks

VARIABLE focus

(* One project of each kind.                                               *)
MCWanted ==
  {[tool |-> "dev", template |-> "basic", options |-> {"tests", "docker", "k8s"}],
   [tool |-> "dev", template |-> "event_driven", options |-> {}],
   [tool |-> "quick", template |-> "basic", options |-> Parts],
   [tool |-> "quick", template |-> "full_featured", options |-> {"docker"}],
   [tool |-> "quick", template |-> "external_client", options |-> {}]}

(* A sound configuration with any one thing about it different: the names  *)
(* are my-service, 1service, service-, My_service, ab, a long one and a.b.c.*)
NameOf(size, first, last, others) ==
  [size |-> size, first |-> first, last |-> last, others |-> others]
MCNames ==
  {NameOf("fits", "lower", "lower", {"hyphen"}), NameOf("fits", "digit", "lower", {}),
   NameOf("fits", "lower", "hyphen", {}), NameOf("fits", "upper", "lower", {"underscore"}),
   NameOf("short", "lower", "lower", {}), NameOf("long", "lower", "lower", {}),
   NameOf("fits", "lower", "lower", {"dot"})}
Sound ==
  [name |-> NameOf("fits", "lower", "lower", {"hyphen"}), url |-> "nats://",
   environment |-> "auto"]
MCGiven ==
  {[Sound EXCEPT !.name = n] : n \in MCNames} \cup {[Sound EXCEPT !.url = u] : u \in Url}
    \cup {[Sound EXCEPT !.environment = e] : e \in Environment}

monitorVars == <<definitionVars, recordVars, dashboardVars>>
developerVars == <<scaffoldVars, devVars>>
toolVars == <<monitorVars, developerVars, focus>>

(* What the modules that are not in focus could begin with matters not.    *)
Init ==
  /\ focus \in {"definitions", "records", "dashboard", "scaffold", "checks"}
  /\ DefinitionInit /\ RecordInit /\ DashboardInit
  /\ ScaffoldInit /\ DevInit
  /\ focus # "checks" => reachable /\ kubernetes /\ config = Sound /\ tool = "dev"

MonitorNext ==
  \/ /\ focus = "definitions" /\ DefinitionNext
     /\ UNCHANGED <<recordVars, dashboardVars>>
  \/ /\ focus = "records" /\ RecordNext
     /\ UNCHANGED <<definitionVars, dashboardVars>>
  \/ /\ focus = "dashboard" /\ DashboardNext
     /\ UNCHANGED <<definitionVars, recordVars>>

DeveloperNext ==
  \/ focus = "scaffold" /\ ScaffoldNext /\ UNCHANGED devVars
  \/ focus = "checks" /\ DevNext /\ UNCHANGED scaffoldVars

Next ==
  /\ UNCHANGED focus
  /\ (MonitorNext /\ UNCHANGED developerVars) \/ (DeveloperNext /\ UNCHANGED monitorVars)

Spec == Init /\ [][Next]_toolVars /\ RecordFairness /\ DashboardFairness
=============================================================================
