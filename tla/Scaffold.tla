------------------------------ MODULE Scaffold -------------------------------
(***************************************************************************)
(* The two project generators writing into one directory: ProjectGenerator *)
(* of aegis-sdk-dev ("dev") and the quickstart tool of the SDK ("quick").  *)
(* Both write file after file over whatever an earlier generation, which   *)
(* may have ended half-way, has left.                                      *)
(*                                                                         *)
(* What a file says is the template it was written from.                   *)
(***************************************************************************)
EXTENDS Naturals, Sequences

CONSTANTS
  Wanted,         \* the projects somebody asks for
  MaxGenerations  \* bound

Templates == {"basic", "single_active", "event_driven", "full_featured", "external_client"}
Parts == {"tests", "docker", "k8s", "ci"}
Config == [tool : {"dev", "quick"}, template : Templates, options : SUBSET Parts]

(* aegis-sdk-dev knows no external client and no pipeline.                 *)
ASSUME ScaffoldAssumption ==
  /\ Wanted \subseteq Config /\ MaxGenerations \in Nat
  /\ \A c \in Wanted : c.tool = "dev" => c.template # "external_client" /\ "ci" \notin c.options

VARIABLES
  disk,         \* path -> what it holds
  ordered,      \* the generation that runs, or ran last
  writes,       \* what it still has to write
  generation,   \* how far it came
  generations

scaffoldVars == <<disk, ordered, writes, generation, generations>>

Layers == <<"domain", "application", "ports", "infrastructure">>
LayerSet == {Layers[i] : i \in DOMAIN Layers}

At(dir, name) == <<dir, name>>
File(path, text) == [path |-> path, text |-> text]
Optional(c, part, files) == IF part \in c.options THEN files ELSE << >>

-----------------------------------------------------------------------------
(* aegis-sdk-dev: the template makes no difference to what is generated.   *)
InitOf(layer) == At(layer, "__init__.py")
(* The modules of a layer are written together: models and services, use   *)
(* cases, inbound and outbound ports, adapters and factory.                *)
ModulesOf(layer) == At(layer, "modules")
Package(layer) == <<File(InitOf(layer), "dev"), File(ModulesOf(layer), "dev")>>
Main == At(".", "main.py")
Requirements == At(".", "requirements.txt")
(* Mutant of ApplicationFiles: what starts it first.                       *)
ApplicationMainFirst ==
  <<File(Main, "dev"), File(Requirements, "dev")>>
    \o Package(Layers[1]) \o Package(Layers[2]) \o Package(Layers[3]) \o Package(Layers[4])
ApplicationFiles ==
  Package(Layers[1]) \o Package(Layers[2]) \o Package(Layers[3]) \o Package(Layers[4])
    \o <<File(Main, "dev"), File(Requirements, "dev")>>
Image == At(".", "Dockerfile")
DevTests ==
  <<File(InitOf("tests"), "dev"), File(At("tests", "conftest.py"), "dev")>>
    \o <<File(At("tests", "unit"), "dev"), File(At("tests", "integration"), "dev")>>
DevDocker == <<File(Image, "dev"), File(At(".", ".dockerignore"), "dev")>>
DevManifests == <<File(At("k8s", "deployment.yaml"), "dev"), File(At("k8s", "service.yaml"), "dev"),
                  File(At("k8s", "configmap.yaml"), "dev")>>

DevWrites(c) ==
  ApplicationFiles \o Optional(c, "tests", DevTests) \o Optional(c, "docker", DevDocker)
    \o Optional(c, "k8s", DevManifests)

(* The quickstart's.  full_featured is the basic service with a README of  *)
(* its own, which the common files overwrite.                              *)
ServiceMain == At("src", "main.py")
BasicService == <<File(ServiceMain, "basic")>>
SingleActiveService == <<File(ServiceMain, "single_active")>>
EventDrivenService == <<File(ServiceMain, "event_driven")>>
ExternalClient == <<File(ServiceMain, "external_client")>>
FullFeaturedService == BasicService \o <<File(At(".", "README.md"), "patterns")>>
ServiceFiles(c) ==
  CASE c.template = "basic" -> BasicService
    [] c.template = "single_active" -> SingleActiveService
    [] c.template = "event_driven" -> EventDrivenService
    [] c.template = "full_featured" -> FullFeaturedService
    [] c.template = "external_client" -> ExternalClient
CommonFiles == <<File(At(".", "pyproject.toml"), "quick"), File(At(".", ".gitignore"), "quick"),
                 File(At(".", "README.md"), "quick")>>
QuickTests == <<File(At("tests", "test_service.py"), "quick")>>
QuickDocker == <<File(Image, "quick")>>
QuickManifests == <<File(At("k8s", "deployment.yaml"), "quick")>>
QuickPipeline == <<File(At(".github/workflows", "ci.yml"), "quick")>>

QuickWrites(c) ==
  ServiceFiles(c) \o CommonFiles
    \o Optional(c, "tests", QuickTests) \o Optional(c, "docker", QuickDocker)
    \o Optional(c, "k8s", QuickManifests) \o Optional(c, "ci", QuickPipeline)

Writes(c) == IF c.tool = "dev" THEN DevWrites(c) ELSE QuickWrites(c)

-----------------------------------------------------------------------------
Paths == LET all == ApplicationFiles \o DevTests \o DevDocker \o DevManifests
                      \o FullFeaturedService \o CommonFiles \o QuickTests
                      \o QuickDocker \o QuickManifests \o QuickPipeline
         IN {all[i].path : i \in DOMAIN all}
(* Nothing, the directory it goes into only, a file cut short, or a text.  *)
Text == {"none", "directory", "cut", "dev", "quick", "patterns"} \cup Templates

NoProject == [tool |-> "none", template |-> "basic", options |-> {}]

ScaffoldTypeOK ==
  /\ disk \in [Paths -> Text] /\ ordered \in Wanted \cup {NoProject}
  /\ \A i \in DOMAIN writes : writes[i].path \in Paths /\ writes[i].text \in Text
  /\ generation \in {"none", "running", "success", "failed"}
  /\ generations \in 0 .. MaxGenerations

ScaffoldInit ==
  /\ disk = [p \in Paths |-> "none"] /\ writes = << >>
  /\ ordered = NoProject
  /\ generation = "none" /\ generations = 0

(* Somebody runs one of the tools.                                         *)
Generate(c) ==
  /\ generation # "running" /\ generations < MaxGenerations
  /\ ordered' = c /\ writes' = Writes(c)
  /\ generation' = "running" /\ generations' = generations + 1
  /\ UNCHANGED disk

WriteFile ==
  /\ generation = "running" /\ writes # << >>
  /\ disk' = [disk EXCEPT ![Head(writes).path] = Head(writes).text]
  /\ writes' = Tail(writes)
  /\ UNCHANGED <<ordered, generation, generations>>

(* The directory cannot be made, or the file not be opened, or not be      *)
(* written to its end; or the process is killed.  Nothing is undone.       *)
Broken(held) == {held, "cut"} \cup IF held = "none" THEN {"directory"} ELSE {}
WriteFails ==
  /\ generation = "running" /\ writes # << >>
  /\ \E held \in Broken(disk[Head(writes).path]) :
       disk' = [disk EXCEPT ![Head(writes).path] = held]
  /\ generation' = "failed" /\ writes' = << >>
  /\ UNCHANGED <<ordered, generations>>

Report ==
  /\ generation = "running" /\ writes = << >> /\ generation' = "success"
  /\ UNCHANGED <<disk, ordered, writes, generations>>

ScaffoldNext ==
  \/ \E c \in Wanted : Generate(c)
  \/ WriteFile \/ WriteFails \/ Report

ScaffoldSpec == ScaffoldInit /\ [][ScaffoldNext]_scaffoldVars
-----------------------------------------------------------------------------
IsFile(path) == disk[path] \notin {"none", "directory"}
(* A layer's directory is there as soon as anything was to go into it.     *)
LayerExists(layer) == disk[InitOf(layer)] # "none" \/ IsFile(ModulesOf(layer))

(* validate_project_structure: a package without its directory is reported *)
(* as a missing directory, not as a missing __init__.py.                   *)
Missing ==
  {At(".", layer) : layer \in {l \in LayerSet : ~LayerExists(l)}}
    \cup {f \in {Main, Requirements} : ~IsFile(f)}
    \cup {InitOf(l) : l \in {l \in LayerSet : LayerExists(l) /\ ~IsFile(InitOf(l))}}

(* What a generation makes of a path it writes, to the last time.          *)
Final(c, path) ==
  LET ws == Writes(c)
      mine == {i \in DOMAIN ws : ws[i].path = path}
  IN ws[CHOOSE i \in mine : \A j \in mine : j <= i].text

(* A generation reported as successful wrote every file of its             *)
(* configuration, whatever an earlier one that failed had left.            *)
ReportedIsWritten ==
  generation = "success" =>
    \A i \in DOMAIN Writes(ordered) :
      disk[Writes(ordered)[i].path] = Final(ordered, Writes(ordered)[i].path)

(* The validator and the generator of aegis-sdk-dev agree: a project       *)
(* reported as generated has no issue, also after failures and where the   *)
(* other tool has been before; and one that has none lacks no module of    *)
(* the application, although the validator does not look at them.          *)
GeneratedIsValid ==
  /\ ordered.tool = "dev" /\ generation = "success" => Missing = {}
  /\ Missing = {} => \A l \in LayerSet : IsFile(ModulesOf(l))

(* A Dockerfile is never there without the program it starts, nor that of  *)
(* aegis-sdk-dev without the requirements it copies: however often a       *)
(* generation failed half-way.  The quickstart's copies requirements that  *)
(* the tool never writes.                                                  *)
ImageHasItsFiles ==
  /\ disk[Image] = "dev" => IsFile(Main) /\ IsFile(Requirements)
  /\ disk[Image] = "quick" => IsFile(ServiceMain)

(* The types, and what is on the disk when a generation has ended.         *)
ProjectsSound == ScaffoldTypeOK /\ ReportedIsWritten /\ GeneratedIsValid /\ ImageHasItsFiles
=============================================================================
