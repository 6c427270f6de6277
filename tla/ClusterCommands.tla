--------------------------- MODULE ClusterCommands ----------------------------
(***************************************************************************)
(* The commands that work on clusters karlon did not make, `karlon cluster *)
(* manage`, `unmanage` and `update`, and `karlon cluster delete`, which    *)
(* undoes these and removes the applications of a gen2 cluster.            *)
(*                                                                         *)
(* An external cluster is one that ArgoCD knows by a secret.  To manage it *)
(* is to create its profile application and to label the secret with the   *)
(* profile; `update` unmanages it first.  No call carries a version.       *)
(***************************************************************************)
EXTENDS Naturals, FiniteSets

CONSTANTS
  Users,         \* those who run commands
  Clusters,      \* names of clusters, external or gen2
  Profiles,      \* names of profiles
  Overridden,    \* gen2 clusters whose template is overridden
  Bare,          \* clusters whose secret has no annotations at all
  ClusterApp,    \* the gen2 application named like the cluster
  KarlonApp,     \* the gen2 application that deploys what belongs to it
  None,          \* no value
  MaxCommands    \* bound: commands ever started

ASSUME ClusterCommandsAssumption ==
  /\ Overridden \subseteq Clusters /\ Bare \subseteq Clusters
  /\ ClusterApp # KarlonApp
  /\ {ClusterApp, KarlonApp, None} \cap Profiles = {}
  /\ MaxCommands \in Nat

VARIABLES
  cmd,        \* cmd[u]: the command that user u is running
  started,    \* number of commands started
  kind,       \* kind[p]: "none", "static" or "dynamic"
  registered, \* clusters that have a secret
  label,      \* label[c]: the profile the secret is labelled with, or None
  app,        \* app[c][k]: "none", "there" or "deleting", for each application
  overlay,    \* clusters with a directory of patches in git
  suspect     \* history: clusters of which a command was cut off half-way,
              \* met another one, or took over an application on its way out

vars == <<cmd, started, kind, registered, label, app, overlay, suspect>>
world == <<kind, registered, label, app, overlay>>

(* A profile application is called after its cluster and its profile.      *)
Apps == {ClusterApp, KarlonApp} \union Profiles

(* prof is the profile to manage the cluster with, found the one its label *)
(* has named, todo what is left to delete.                                 *)
Idle == [pc |-> "idle", op |-> None, name |-> None, prof |-> None, found |-> None, todo |-> {}]

Goto(u, pc) == cmd' = [cmd EXCEPT ![u].pc = pc]
End(u) == cmd' = [cmd EXCEPT ![u] = Idle]
Busy(c) == \E u \in Users : cmd[u].pc # "idle" /\ cmd[u].name = c

Issue(u, pc, op, c, p) ==
  /\ cmd[u].pc = "idle" /\ started < MaxCommands
  /\ started' = started + 1
  /\ cmd' = [cmd EXCEPT ![u] = [Idle EXCEPT !.pc = pc, !.op = op, !.name = c, !.prof = p]]
  /\ suspect' = IF Busy(c) THEN suspect \union {c} ELSE suspect
  /\ UNCHANGED world

Manage(u) == \E c \in Clusters, p \in Profiles : Issue(u, "profile", "manage", c, p)
Unmanage(u) == \E c \in Clusters : Issue(u, "find", "unmanage", c, None)
Update(u) == \E c \in Clusters, p \in Profiles : Issue(u, "find", "update", c, p)
Delete(u) == \E c \in Clusters : Issue(u, "find", "delete", c, None)

(*------------------------------- Managing --------------------------------*)

FindProfile(u) ==
  /\ cmd[u].pc = "profile"
  /\ IF kind[cmd[u].prof] = "dynamic" THEN Goto(u, "list") ELSE End(u)
  /\ UNCHANGED <<started, suspect, world>>

Exists(c) == app[c][ClusterApp] # "none"   \* as a gen2 cluster
External(c) == label[c] # None

ListClusters(u) ==
  LET c == cmd[u].name
  IN /\ cmd[u].pc = "list"
     /\ IF Exists(c) \/ External(c) THEN End(u) ELSE Goto(u, "secret")
     /\ UNCHANGED <<started, suspect, world>>

ReadSecret(u) ==
  LET c == cmd[u].name
  IN /\ cmd[u].pc = "secret"
     /\ IF c \in registered /\ ~External(c) THEN Goto(u, "create") ELSE End(u)
     /\ UNCHANGED <<started, suspect, world>>

(* ArgoCD takes the creation of an application that exists with the same   *)
(* content for done, also of one that is being deleted.                    *)
CreateApp(u) ==
  LET c == cmd[u].name
      p == cmd[u].prof
  IN /\ cmd[u].pc = "create"
     /\ app' = IF app[c][p] = "none" THEN [app EXCEPT ![c][p] = "there"] ELSE app
     /\ suspect' = IF app[c][p] = "deleting" THEN suspect \union {c} ELSE suspect
     /\ Goto(u, "label")
     /\ UNCHANGED <<started, kind, registered, label, overlay>>

\* Mutant: a label that cannot be set leaves the application.
LabelForgets(u) ==
  LET c == cmd[u].name
  IN /\ cmd[u].pc = "label" /\ c \notin Bare
     /\ \/ /\ c \in registered
           /\ label' = [label EXCEPT ![c] = cmd[u].prof]
        \/ UNCHANGED label
     /\ End(u)
     /\ UNCHANGED <<started, kind, registered, app, overlay, suspect>>

(* The patch of the secret may fail, and does if the secret is gone; it    *)
(* may also be done and its answer be lost.  That of a secret without      *)
(* annotations ends the program (Panic).                                   *)
Label(u) ==
  LET c == cmd[u].name
  IN /\ cmd[u].pc = "label" /\ c \notin Bare
     /\ \/ /\ c \in registered
           /\ label' = [label EXCEPT ![c] = cmd[u].prof]
           /\ \/ End(u) /\ UNCHANGED suspect
              \/ Goto(u, "undo") /\ suspect' = suspect \union {c}
        \/ Goto(u, "undo") /\ UNCHANGED <<label, suspect>>
     /\ UNCHANGED <<started, kind, registered, app, overlay>>

Panic(u) ==
  /\ cmd[u].pc = "label" /\ cmd[u].name \in Bare
  /\ suspect' = suspect \union {cmd[u].name}
  /\ End(u)
  /\ UNCHANGED <<started, world>>

Removed(c, k) == [app EXCEPT ![c][k] = IF @ = "none" THEN "none" ELSE "deleting"]

Undo(u) ==
  /\ cmd[u].pc = "undo"
  /\ app' = Removed(cmd[u].name, cmd[u].prof)
  /\ End(u)
  /\ UNCHANGED <<started, kind, registered, label, overlay, suspect>>

(*------------------------ Unmanaging and deleting ------------------------*)

\* Mutant: a gen2 cluster's patches are left for later.
FindHasty(u) ==
  LET c == cmd[u].name
      listed == {k \in Apps : app[c][k] # "none"}
  IN /\ cmd[u].pc = "find"
     /\ CASE External(c) /\ cmd[u].prof # label[c] ->
               cmd' = [cmd EXCEPT ![u].pc = "delete app", ![u].found = label[c]]
          [] ~External(c) /\ Exists(c) /\ cmd[u].op = "delete" ->
               cmd' = [cmd EXCEPT ![u].pc = "remove", ![u].todo = listed]
          [] OTHER -> End(u)
     /\ UNCHANGED <<started, suspect, world>>

(* Of a label the profile is remembered; `update` wants another one.  Of a *)
(* gen2 cluster, `delete` lists all applications that bear its name.       *)
Find(u) ==
  LET c == cmd[u].name
      listed == {k \in Apps : app[c][k] # "none"}
  IN /\ cmd[u].pc = "find"
     /\ CASE External(c) /\ cmd[u].prof # label[c] ->
               cmd' = [cmd EXCEPT ![u].pc = "delete app", ![u].found = label[c]]
          [] ~External(c) /\ Exists(c) /\ cmd[u].op = "delete" ->
               cmd' = [cmd EXCEPT ![u].pc = IF c \in Overridden THEN "overlay" ELSE "remove",
                                  ![u].todo = listed]
          [] OTHER -> End(u)
     /\ UNCHANGED <<started, suspect, world>>

DeleteApp(u) ==
  LET c == cmd[u].name
      p == cmd[u].found
  IN /\ cmd[u].pc = "delete app"
     /\ app' = Removed(c, p)
     /\ IF app[c][p] = "none" THEN End(u) ELSE Goto(u, "unlabel")
     /\ UNCHANGED <<started, kind, registered, label, overlay, suspect>>

(* `update` goes on to manage the cluster, with a profile that it looks    *)
(* for only now.                                                           *)
Unlabel(u) ==
  LET c == cmd[u].name
  IN /\ cmd[u].pc = "unlabel"
     /\ label' = [label EXCEPT ![c] = None]
     /\ IF c \in registered /\ cmd[u].op = "update" THEN Goto(u, "profile") ELSE End(u)
     /\ UNCHANGED <<started, kind, registered, app, overlay, suspect>>

(* The patches are removed with the cluster app, before it.                *)
DropOverlay(u) ==
  LET c == cmd[u].name
  IN /\ cmd[u].pc = "overlay"
     /\ overlay' = overlay \ {c}
     /\ IF c \in overlay THEN Goto(u, "remove") ELSE End(u)
     /\ UNCHANGED <<started, kind, registered, label, app, suspect>>

(* The applications are listed by name, the cluster's own first.           *)
NextOf(todo) ==
  IF ClusterApp \in todo THEN {ClusterApp}
  ELSE IF KarlonApp \in todo THEN {KarlonApp} ELSE todo

\* Mutant: the loop ends after its first application.
RemoveFirst(u) ==
  LET c == cmd[u].name
  IN /\ cmd[u].pc = "remove"
     /\ \E k \in NextOf(cmd[u].todo) : app' = Removed(c, k)
     /\ End(u)
     /\ UNCHANGED <<started, kind, registered, label, overlay, suspect>>

\* Mutant: the loop goes on after its last application.
RemoveOneMore(u) ==
  LET c == cmd[u].name
  IN /\ cmd[u].pc = "remove"
     /\ \E k \in NextOf(cmd[u].todo) :
          /\ app' = Removed(c, k)
          /\ IF app[c][k] = "none" THEN End(u)
             ELSE cmd' = [cmd EXCEPT ![u].todo = @ \ {k}]
     /\ UNCHANGED <<started, kind, registered, label, overlay, suspect>>

Remove(u) ==
  LET c == cmd[u].name
  IN /\ cmd[u].pc = "remove"
     /\ \E k \in NextOf(cmd[u].todo) :
          /\ app' = Removed(c, k)
          /\ IF app[c][k] = "none" \/ cmd[u].todo = {k} THEN End(u)
             ELSE cmd' = [cmd EXCEPT ![u].todo = @ \ {k}]
     /\ UNCHANGED <<started, kind, registered, label, overlay, suspect>>

(*------------------------------ Environment ------------------------------*)

(* A crash, an interrupt or a failed call: half-way where something has    *)
(* been written that the rest of the command was to complete.              *)
HalfWay(u) ==
  \/ cmd[u].pc \in {"label", "undo", "unlabel"}
  \/ cmd[u].pc = "remove" /\ (cmd[u].name \in Overridden \/ ClusterApp \notin cmd[u].todo)

Interrupt(u) ==
  /\ cmd[u].pc # "idle"
  /\ suspect' = IF HalfWay(u) THEN suspect \union {cmd[u].name} ELSE suspect
  /\ End(u)
  /\ UNCHANGED <<started, world>>

AppGone(c, k) ==
  /\ app[c][k] = "deleting"
  /\ app' = [app EXCEPT ![c][k] = "none"]
  /\ UNCHANGED <<cmd, started, kind, registered, label, overlay, suspect>>

(* `argocd cluster rm` and `add`, whoever is at work.                      *)
Unregister(c) ==
  /\ c \in registered
  /\ registered' = registered \ {c}
  /\ label' = [label EXCEPT ![c] = None]
  /\ suspect' = IF External(c) THEN suspect \union {c} ELSE suspect
  /\ UNCHANGED <<cmd, started, kind, app, overlay>>

Register(c) ==
  /\ c \notin registered
  /\ registered' = registered \union {c}
  /\ UNCHANGED <<cmd, started, kind, label, app, overlay, suspect>>

DropProfile(p) ==
  /\ kind[p] # "none"
  /\ kind' = [kind EXCEPT ![p] = "none"]
  /\ UNCHANGED <<cmd, started, registered, label, app, overlay, suspect>>

(*--------------------------- The specification ---------------------------*)

(* At first some clusters are gen2 clusters, the others known to ArgoCD.   *)
Init ==
  /\ cmd = [u \in Users |-> Idle]
  /\ started = 0
  /\ kind \in [Profiles -> {"static", "dynamic"}]
  /\ registered = Clusters
  /\ label = [c \in Clusters |-> None]
  /\ app \in [Clusters -> {[k \in Apps |-> "none"],
                           [k \in Apps |-> IF k \in Profiles THEN "none" ELSE "there"]}]
  /\ \A c \in Overridden : app[c][ClusterApp] = "there"
  /\ overlay = Overridden
  /\ suspect = {}

Step(u) ==
  \/ Manage(u) \/ Unmanage(u) \/ Update(u) \/ Delete(u)
  \/ FindProfile(u) \/ ListClusters(u) \/ ReadSecret(u) \/ CreateApp(u)
  \/ Label(u) \/ Panic(u) \/ Undo(u)
  \/ Find(u) \/ DeleteApp(u) \/ Unlabel(u) \/ DropOverlay(u) \/ Remove(u)
  \/ Interrupt(u)

Next ==
  \/ \E u \in Users : Step(u)
  \/ \E c \in Clusters : Unregister(c) \/ Register(c) \/ \E k \in Apps : AppGone(c, k)
  \/ \E p \in Profiles : DropProfile(p)

Spec == Init /\ [][Next]_vars

(*------------------------------ Properties -------------------------------*)

(* Every variable keeps its type; only a secret that is there is labelled, *)
(* and what is left to delete was listed.                                  *)
TypeOK ==
  /\ \A u \in Users : cmd[u].pc # "idle" => cmd[u].name \in Clusters /\ cmd[u].todo \subseteq Apps
  /\ \A u \in Users : cmd[u].pc = "remove" => cmd[u].todo # {}
  /\ registered \subseteq Clusters /\ overlay \subseteq Overridden
  /\ \A c \in Clusters : label[c] \in IF c \in registered THEN Profiles \union {None} ELSE {None}
  /\ app \in [Clusters -> [Apps -> {"none", "there", "deleting"}]]

(* When the commands on a cluster have run one at a time and none was cut  *)
(* off half-way, its label names the one profile application it has, also  *)
(* when a lookup or the patch of the secret has failed and the application *)
(* was removed again.                                                      *)
LabelMatches ==
  \A c \in Clusters : c \notin suspect /\ ~Busy(c) =>
    \A p \in Profiles : app[c][p] = "there" <=> label[c] = p

(* `karlon cluster delete` finds a gen2 cluster by its cluster app: while  *)
(* the other application is still there, and nobody at work, the cluster   *)
(* app is, too, so that the deletion can be asked for again.               *)
StillFound ==
  \A c \in Clusters : c \notin suspect /\ ~Busy(c) /\ app[c][KarlonApp] = "there" =>
    app[c][ClusterApp] = "there"

(* The patches of an overridden cluster are out of git before its cluster  *)
(* app, which alone says where they are, begins to go.                     *)
OverlayFirst ==
  [][\A c \in Clusters :
       app[c][ClusterApp] = "there" /\ app'[c][ClusterApp] # "there" => c \notin overlay]_vars
=============================================================================
