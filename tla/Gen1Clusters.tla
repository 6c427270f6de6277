----------------------------- MODULE Gen1Clusters -----------------------------
(***************************************************************************)
(* Cluster specs, and clusters of the first generation: an ArgoCD          *)
(* application of the cluster's name whose parameters are copied from a    *)
(* cluster spec, and a directory in git which holds what the profile makes *)
(* of it.  `karlon cluster deploy` and `update` write git first, then the  *)
(* application.                                                            *)
(*                                                                         *)
(* Modelled of a cluster spec are the chart it selects (API provider,      *)
(* cloud and type together), its size, which stands for all that an update *)
(* leaves alone unless it is given, and its largest size (`--casmax`),     *)
(* which an update sets to the default then.  Regions, subnets and keys    *)
(* are part of the chart's data.                                           *)
(***************************************************************************)
EXTENDS Profiles

CONSTANTS
  Clusters,    \* names of clusters
  Charts,      \* charts a cluster spec may select
  Sizes,       \* numbers of nodes
  DefaultMax   \* what `--casmax` is when it is not given

ASSUME Gen1Assumption ==
  /\ Clusters \subseteq Directories
  /\ Clusters \intersect Names = {}
  /\ DefaultMax \in Sizes

VARIABLE app   \* app[c]: the ArgoCD application of cluster c, or None

vars == <<cliVars, storeVars, app>>

ClusterSpec == [chart : Charts, size : Sizes, max : Sizes]
App == [profile : Names, spec : Names, settings : ClusterSpec, deleting : BOOLEAN]

(* A config map is a cluster spec or a legacy profile.                     *)
IsSpec(x) == x # None /\ "settings" \in DOMAIN x
IsLegacy(x) == x # None /\ "legacy" \in DOMAIN x

(*---------------------------- Cluster specs ------------------------------*)

CreateSpec(u) ==
  /\ \E n \in Names, s \in ClusterSpec : Issue(u, Command("find spec", "create spec", n, s))
  /\ UNCHANGED <<storeVars, app>>

FindSpec(u) ==
  /\ At(u, "find spec")
  /\ IF config[cmd[u].name] # None THEN End(u)
     ELSE Goto(u, [cmd[u] EXCEPT !.pc = "write spec", !.obj = [settings |-> cmd[u].arg]])
  /\ UNCHANGED <<tree, torn, started, storeVars, app>>

UpdateSpec(u) ==
  /\ \E n \in Names, s \in Sizes \union {None}, m \in Sizes :
       Issue(u, Command("get spec", "update spec", n, [size |-> s, max |-> m]))
  /\ UNCHANGED <<storeVars, app>>

Resized(s, arg) == [s EXCEPT !.size = Given(arg.size, @), !.max = arg.max]

GetSpec(u) ==
  LET x == config[cmd[u].name]
  IN /\ At(u, "get spec")
     /\ IF IsSpec(x)
        THEN Goto(u, [cmd[u] EXCEPT !.pc = "write spec",
                                    !.obj = [settings |-> Resized(x.settings, cmd[u].arg)]])
        ELSE End(u)
     /\ UNCHANGED <<tree, torn, started, storeVars, app>>

(* The update carries no version: it needs the config map, but not the one *)
(* that was read.                                                          *)
WriteSpec(u) ==
  LET n == cmd[u].name
  IN /\ At(u, "write spec")
     /\ IF cmd[u].op = "create spec" <=> config[n] = None
        THEN config' = [config EXCEPT ![n] = cmd[u].obj]
        ELSE UNCHANGED config
     /\ End(u)
     /\ UNCHANGED <<tree, torn, started, secret, profile, app>>

DeleteSpec(u) ==
  \E n \in Names :
    /\ CanStart(u) /\ config[n] # None
    /\ started' = started + 1
    /\ config' = [config EXCEPT ![n] = None]
    /\ UNCHANGED <<cmd, tree, torn, secret, profile, app>>

(*------------------------------ Clusters ---------------------------------*)

DeployCluster(u) ==
  /\ \E c \in Clusters, p \in Names, s \in Names :
       Issue(u, Command("find profile", "deploy cluster", c, [profile |-> p, spec |-> s]))
  /\ UNCHANGED <<storeVars, app>>

UpdateCluster(u) ==
  /\ \E c \in Clusters, p \in Names \union {None}, s \in Names \union {None} :
       Issue(u, Command("find app", "update cluster", c, [profile |-> p, spec |-> s]))
  /\ UNCHANGED <<storeVars, app>>

(* A deployment needs the name free.  An update needs the application,     *)
(* whose annotations name the profile and the spec that are not given.     *)
FindApp(u) ==
  LET a == app[cmd[u].name]
      arg == cmd[u].arg
  IN /\ At(u, "find app")
     /\ CASE cmd[u].op = "deploy cluster" /\ a = None -> Goto(u, [cmd[u] EXCEPT !.pc = "settings"])
          [] cmd[u].op = "update cluster" /\ a # None ->
               Goto(u, [cmd[u] EXCEPT !.pc = "find profile", !.obj = a,
                                      !.arg = [profile |-> Given(arg.profile, a.profile),
                                               spec |-> Given(arg.spec, a.spec)]])
          [] OTHER -> End(u)
     /\ UNCHANGED <<tree, torn, started, storeVars, app>>

(* The profile resource, or else the config map if it is a profile.        *)
FoundProfile(n) ==
  IF profile[n] # None THEN profile[n]
  ELSE IF IsLegacy(config[n]) THEN config[n].legacy ELSE None

FindProfile(u) ==
  LET p == FoundProfile(cmd[u].arg.profile)
  IN /\ At(u, "find profile")
     /\ IF p = None THEN End(u)
        ELSE Goto(u, [cmd[u] EXCEPT !.prof = p,
                        !.pc = IF cmd[u].op = "deploy cluster" THEN "find app" ELSE "settings"])
     /\ UNCHANGED <<tree, torn, started, storeVars, app>>

(* An update may not select another chart than the application has.        *)
ReadSettings(u) ==
  LET arg == cmd[u].arg
      x == config[arg.spec]
  IN /\ At(u, "settings")
     /\ IF ~IsSpec(x) \/ (cmd[u].obj # None /\ x.settings.chart # cmd[u].obj.settings.chart)
        THEN End(u)
        ELSE Goto(u, [cmd[u] EXCEPT !.pc = "render", !.arg = None,
                        !.obj = [profile |-> arg.profile, spec |-> arg.spec,
                                 settings |-> x.settings, deleting |-> FALSE]])
     /\ UNCHANGED <<tree, torn, started, storeVars, app>>

(* Nor does the update of an application carry a version.                  *)
SaveApp(u) ==
  LET c == cmd[u].name
      old == app[c]
      deploys == cmd[u].op = "deploy cluster"
  IN /\ At(u, "save") /\ c \in Clusters
     /\ IF deploys <=> old = None
        THEN /\ app' = [app EXCEPT ![c] =
                          [cmd[u].obj EXCEPT !.deleting = ~deploys /\ old.deleting]]
             /\ torn' = Saved(u)
        ELSE /\ torn' = Lost(u)
             /\ UNCHANGED app
     /\ End(u)
     /\ UNCHANGED <<tree, started, storeVars>>

(* The application is marked, and gone once ArgoCD has removed what it     *)
(* made.  The directory stays.                                             *)
DeleteCluster(u) ==
  \E c \in Clusters :
    /\ CanStart(u) /\ app[c] # None
    /\ started' = started + 1
    /\ app' = [app EXCEPT ![c].deleting = TRUE]
    /\ UNCHANGED <<cmd, tree, torn, storeVars>>

AppGone ==
  \E c \in Clusters :
    /\ app[c] # None /\ app[c].deleting
    /\ app' = [app EXCEPT ![c] = None]
    /\ UNCHANGED <<cliVars, storeVars>>

(*--------------------------- The specification ---------------------------*)

SpecCommand(u) ==
  CreateSpec(u) \/ FindSpec(u) \/ UpdateSpec(u) \/ GetSpec(u) \/ WriteSpec(u) \/ DeleteSpec(u)

ClusterCommand(u) ==
  \/ DeployCluster(u) \/ UpdateCluster(u) \/ DeleteCluster(u)
  \/ FindApp(u) \/ FindProfile(u) \/ ReadSettings(u) \/ SaveApp(u)

Init ==
  /\ CliInit
  /\ tree = [d \in Directories |-> None]
  /\ secret = [b \in Bundles |-> None]
  /\ profile = [n \in Names |-> None]
  /\ config = [n \in Names |-> None]
  /\ app = [c \in Clusters |-> None]

Next ==
  \/ \E u \in Users :
       \/ SpecCommand(u) \/ ClusterCommand(u)
       \/ (BundleCommand(u) \/ ProfileCommand(u) \/ Gitting(u)) /\ UNCHANGED app
       \/ Interrupt(u) /\ UNCHANGED <<storeVars, app>>
  \/ AppGone

Spec == Init /\ [][Next]_vars
=============================================================================
