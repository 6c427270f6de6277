---------------------------- MODULE CommandsProofs ----------------------------
(* The properties of ClusterCommands, for every set of users, clusters and *)
(* profiles and any number of commands.                                    *)
EXTENDS ClusterCommands, TLAPS

Pcs ==
  { "idle", "profile", "list", "secret", "create", "label", "undo", "find",
    "delete app", "unlabel", "overlay", "remove" }
Ops == {"manage", "unmanage", "update", "delete", None}

Command ==
  [ pc : Pcs, op : Ops, name : Clusters \cup {None}, prof : Profiles \cup {None},
    found : Profiles \cup {None}, todo : SUBSET Apps ]

ManageSteps == {"profile", "list", "secret", "create", "label", "undo"}

(* What a command needs for its next call is there. *)
WellFormed(m) ==
  /\ m.pc # "idle" => m.name \in Clusters
  /\ m.pc # "idle" /\ (m.pc \in ManageSteps \/ m.op = "update") => m.prof \in Profiles
  /\ m.pc \in {"delete app", "unlabel"} => m.found \in Profiles
  /\ m.pc \in {"overlay", "remove"} => m.todo # {}

CommandsOK ==
  /\ cmd \in [Users -> Command]
  /\ \A u \in Users : WellFormed(cmd[u])

WorldOK ==
  /\ registered \subseteq Clusters /\ overlay \subseteq Overridden
  /\ label \in [Clusters -> Profiles \cup {None}]
  /\ \A c \in Clusters : label[c] # None => c \in registered
  /\ app \in [Clusters -> [Apps -> {"none", "there", "deleting"}]]

(* Whoever removes applications has seen to the patches first. *)
OverlayDropped ==
  \A u \in Users : cmd[u].pc = "remove" => cmd[u].name \notin overlay

-----------------------------------------------------------------------------
(* Commands that meet no other: what each has found out *)

Matches(c) == \A p \in Profiles : app[c][p] = "there" <=> label[c] = p

Found(c) == app[c][KarlonApp] = "there" => app[c][ClusterApp] = "there"

KnowsLabel(m, c) ==
  /\ m.pc \notin {"label", "undo", "unlabel"} => Matches(c)
  /\ m.pc \in {"create", "label", "undo", "overlay", "remove"} => label[c] = None
  /\ m.pc \in {"label", "undo"} =>
       \A p \in Profiles : app[c][p] = "there" <=> p = m.prof
  /\ m.pc \in {"delete app", "unlabel"} => label[c] = m.found
  /\ m.pc = "unlabel" => \A p \in Profiles : app[c][p] # "there"

KnowsApps(m, c) ==
  /\ m.pc # "remove" \/ ClusterApp \in m.todo => Found(c)
  /\ m.pc \in {"overlay", "remove"} /\ app[c][KarlonApp] = "there"
       => KarlonApp \in m.todo

(* Of a cluster that is not suspect, one command at most is at work on it, *)
(* and what that command goes by is so.                                    *)
Alone ==
  \A c \in Clusters \ suspect :
    /\ \A u, v \in Users :
         /\ cmd[u].pc # "idle" /\ cmd[u].name = c
         /\ cmd[v].pc # "idle" /\ cmd[v].name = c
         => u = v
    /\ ~Busy(c) => Matches(c) /\ Found(c)
    /\ \A u \in Users :
         cmd[u].pc # "idle" /\ cmd[u].name = c
           => KnowsLabel(cmd[u], c) /\ KnowsApps(cmd[u], c)

CommandsInv == CommandsOK /\ WorldOK /\ OverlayDropped /\ Alone

-----------------------------------------------------------------------------
(* Edits of commands and of applications *)

(* The state of a command that has ended. *)
LEMMA IdleCommand == Idle \in Command /\ Idle.pc = "idle" /\ WellFormed(Idle)
  BY DEF Idle, Command, Pcs, Ops, WellFormed, ManageSteps

(* A command that goes on is the same command. *)
LEMMA GotoCommand ==
  ASSUME cmd \in [Users -> Command], NEW u \in Users, NEW p \in Pcs, Goto(u, p)
  PROVE  /\ cmd' \in [Users -> Command]
         /\ \A v \in Users \ {u} : cmd'[v] = cmd[v]
         /\ cmd'[u].pc = p /\ cmd'[u].op = cmd[u].op /\ cmd'[u].name = cmd[u].name
         /\ cmd'[u].prof = cmd[u].prof /\ cmd'[u].found = cmd[u].found
         /\ cmd'[u].todo = cmd[u].todo
  BY DEF Goto, Command

(* One that ends is idle. *)
LEMMA EndCommand ==
  ASSUME cmd \in [Users -> Command], NEW u \in Users, End(u)
  PROVE  /\ cmd' \in [Users -> Command]
         /\ \A v \in Users \ {u} : cmd'[v] = cmd[v]
         /\ cmd'[u] = Idle
  BY IdleCommand DEF End

(* The removal of an application touches no other. *)
LEMMA RemovedApp ==
  ASSUME WorldOK, NEW c \in Clusters, NEW k \in Apps, app' = Removed(c, k)
  PROVE  /\ app' \in [Clusters -> [Apps -> {"none", "there", "deleting"}]]
         /\ \A d \in Clusters \ {c} : app'[d] = app[d]
         /\ \A j \in Apps \ {k} : app'[c][j] = app[c][j]
         /\ app'[c][k] # "there"
  BY DEF WorldOK, Removed

(* Of the kinds of applications, the three are different. *)
LEMMA KindsOfApps ==
  /\ ClusterApp \in Apps /\ KarlonApp \in Apps /\ Profiles \subseteq Apps
  /\ ClusterApp # KarlonApp /\ ClusterApp \notin Profiles /\ KarlonApp \notin Profiles
  /\ None \notin Profiles /\ Overridden \subseteq Clusters
  BY ClusterCommandsAssumption DEF Apps

-----------------------------------------------------------------------------
(* The steps of a command *)

(* What a command at work on an unsuspected cluster goes by. *)
LEMMA Goes ==
  ASSUME CommandsInv, NEW u \in Users, cmd[u].pc # "idle",
         NEW c \in Clusters, c = cmd[u].name, c \notin suspect
  PROVE  KnowsLabel(cmd[u], c) /\ KnowsApps(cmd[u], c)
  BY DEF CommandsInv, Alone

(* It is about its cluster only. *)
LEMMA KnowsFrame ==
  ASSUME NEW d \in Clusters, NEW v \in Users,
         app'[d] = app[d], label'[d] = label[d], cmd'[v] = cmd[v],
         KnowsLabel(cmd[v], d), KnowsApps(cmd[v], d)
  PROVE  KnowsLabel(cmd[v], d)' /\ KnowsApps(cmd[v], d)'
  BY DEF KnowsLabel, KnowsApps, Matches, Found

(* A command's step is about its cluster: it is enough that it leaves that *)
(* one as its next step, or anybody if it ends, expects it.                *)
LEMMA CommandStep ==
  ASSUME CommandsInv, NEW u \in Users, cmd[u].pc # "idle",
         NEW c \in Clusters, c = cmd[u].name,
         \A v \in Users \ {u} : cmd'[v] = cmd[v],
         cmd'[u].pc = "idle" \/ cmd'[u].name = c,
         \A d \in Clusters \ {c} : app'[d] = app[d] /\ label'[d] = label[d],
         suspect \subseteq suspect',
         c \notin suspect' =>
           IF cmd'[u].pc = "idle" THEN Matches(c)' /\ Found(c)'
           ELSE KnowsLabel(cmd[u], c)' /\ KnowsApps(cmd[u], c)'
  PROVE  Alone'
<1> SUFFICES ASSUME NEW d \in Clusters, d \notin suspect'
             PROVE  /\ \A v, w \in Users :
                         /\ cmd'[v].pc # "idle" /\ cmd'[v].name = d
                         /\ cmd'[w].pc # "idle" /\ cmd'[w].name = d
                         => v = w
                    /\ ~Busy(d)' => Matches(d)' /\ Found(d)'
                    /\ \A v \in Users : cmd'[v].pc # "idle" /\ cmd'[v].name = d
                         => KnowsLabel(cmd[v], d)' /\ KnowsApps(cmd[v], d)'
  BY DEF Alone
<1>1. /\ d \notin suspect
      /\ \A v, w \in Users :
           /\ cmd[v].pc # "idle" /\ cmd[v].name = d
           /\ cmd[w].pc # "idle" /\ cmd[w].name = d
           => v = w
      /\ ~Busy(d) => Matches(d) /\ Found(d)
      /\ \A v \in Users : cmd[v].pc # "idle" /\ cmd[v].name = d
           => KnowsLabel(cmd[v], d) /\ KnowsApps(cmd[v], d)
  BY DEF CommandsInv, Alone
<1>2. CASE d = c
  <2>1. \A v \in Users \ {u} : cmd'[v].pc = "idle" \/ cmd'[v].name # d
    BY <1>1, <1>2
  <2>2. cmd'[u].pc # "idle" => Busy(d)'
    BY <1>2 DEF Busy
  <2> QED
    BY <1>2, <2>1, <2>2
<1>3. CASE d # c
  <2>1. app'[d] = app[d] /\ label'[d] = label[d]
    BY <1>3
  <2>2. \A v \in Users : cmd'[v].pc # "idle" /\ cmd'[v].name = d
          => v # u /\ cmd'[v] = cmd[v]
    BY <1>3
  <2>3. Busy(d) => Busy(d)'
    BY <1>3 DEF Busy
  <2>4. (Matches(d) => Matches(d)') /\ (Found(d) => Found(d)')
    BY <2>1 DEF Matches, Found
  <2>5. ASSUME NEW v \in Users, cmd'[v].pc # "idle", cmd'[v].name = d
        PROVE  KnowsLabel(cmd[v], d)' /\ KnowsApps(cmd[v], d)'
    <3>1. KnowsLabel(cmd[v], d) /\ KnowsApps(cmd[v], d) /\ cmd'[v] = cmd[v]
      BY <1>1, <2>2, <2>5
    <3> QED
      BY <2>1, <3>1, KnowsFrame
  <2> QED
    BY <1>1, <2>2, <2>3, <2>4, <2>5
<1> QED
  BY <1>2, <1>3

(* The four commands begin. *)
LEMMA IssueKeeps ==
  ASSUME CommandsInv, NEW u \in Users,
         Manage(u) \/ Unmanage(u) \/ Update(u) \/ Delete(u)
  PROVE  CommandsInv'
<1>1. PICK pc \in {"profile", "find"}, op \in Ops, c \in Clusters, p \in Profiles \cup {None} :
        /\ Issue(u, pc, op, c, p)
        /\ pc = "profile" \/ op = "update" => p \in Profiles
  BY ClusterCommandsAssumption DEF Manage, Unmanage, Update, Delete, Ops
<1> DEFINE m == [Idle EXCEPT !.pc = pc, !.op = op, !.name = c, !.prof = p]
<1>2. /\ m \in Command /\ WellFormed(m) /\ m.pc = pc /\ m.name = c
      /\ cmd' = [cmd EXCEPT ![u] = m]
  <2>1. m \in Command
    BY DEF Idle, Command, Pcs
  <2> QED
    BY <1>1, <2>1 DEF Issue, WellFormed, ManageSteps, Idle
<1> HIDE DEF m
<1>3. /\ CommandsOK' /\ cmd'[u] = m /\ \A v \in Users \ {u} : cmd'[v] = cmd[v]
      /\ cmd[u].pc = "idle" /\ WorldOK /\ OverlayDropped
  BY <1>1, <1>2 DEF CommandsInv, CommandsOK, Issue
<1>4. /\ UNCHANGED world
      /\ suspect' = IF Busy(c) THEN suspect \cup {c} ELSE suspect
  BY <1>1 DEF Issue
<1>5. WorldOK' /\ OverlayDropped'
  BY <1>2, <1>3, <1>4 DEF WorldOK, OverlayDropped, world
<1>6. Alone'
  <2> SUFFICES ASSUME NEW d \in Clusters, d \notin suspect'
               PROVE  /\ \A v, w \in Users :
                           /\ cmd'[v].pc # "idle" /\ cmd'[v].name = d
                           /\ cmd'[w].pc # "idle" /\ cmd'[w].name = d
                           => v = w
                      /\ ~Busy(d)' => Matches(d)' /\ Found(d)'
                      /\ \A v \in Users : cmd'[v].pc # "idle" /\ cmd'[v].name = d
                           => KnowsLabel(cmd[v], d)' /\ KnowsApps(cmd[v], d)'
    BY DEF Alone
  <2>1. /\ d \notin suspect
        /\ \A v, w \in Users :
             /\ cmd[v].pc # "idle" /\ cmd[v].name = d
             /\ cmd[w].pc # "idle" /\ cmd[w].name = d
             => v = w
        /\ ~Busy(d) => Matches(d) /\ Found(d)
        /\ \A v \in Users : cmd[v].pc # "idle" /\ cmd[v].name = d
             => KnowsLabel(cmd[v], d) /\ KnowsApps(cmd[v], d)
        /\ d = c => ~Busy(c)
    BY <1>4 DEF CommandsInv, Alone
  <2>2. app' = app /\ label' = label
    BY <1>4 DEF world
  <2>3. (Matches(d) => Matches(d)') /\ (Found(d) => Found(d)')
    BY <2>2 DEF Matches, Found
  <2>4. ASSUME NEW v \in Users \ {u}, cmd'[v].pc # "idle", cmd'[v].name = d
        PROVE  d # c /\ KnowsLabel(cmd[v], d)' /\ KnowsApps(cmd[v], d)'
    <3>1. d # c /\ KnowsLabel(cmd[v], d) /\ KnowsApps(cmd[v], d) /\ cmd'[v] = cmd[v]
      BY <1>3, <2>1, <2>4 DEF Busy
    <3> QED
      BY <2>2, <2>3, <2>4, <3>1 DEF KnowsLabel, KnowsApps
  <2>5. CASE d = c
    <3>1. Matches(d)' /\ Found(d)'
      BY <2>1, <2>3, <2>5
    <3>2. KnowsLabel(cmd[u], d)' /\ KnowsApps(cmd[u], d)'
      BY <1>1, <1>2, <1>3, <2>5, <3>1 DEF KnowsLabel, KnowsApps
    <3> QED
      BY <2>4, <2>5, <3>1, <3>2
  <2>6. CASE d # c
    <3>1. cmd'[u].name # d
      BY <1>2, <1>3, <2>6
    <3>2. Busy(d) => Busy(d)'
      BY <1>3 DEF Busy
    <3> QED
      BY <1>3, <2>1, <2>3, <2>4, <3>1, <3>2
  <2> QED
    BY <2>5, <2>6
<1> QED
  BY <1>3, <1>5, <1>6 DEF CommandsInv

(* The steps of a command that end it or move it on, in a world in which   *)
(* nothing that it goes by changes.                                        *)
LEMMA LookKeeps ==
  ASSUME CommandsInv, NEW u \in Users, NEW c \in Clusters, c = cmd[u].name,
         UNCHANGED <<suspect, world>>,
         \/ FindProfile(u) \/ ListClusters(u) \/ ReadSecret(u) \/ Find(u)
  PROVE  CommandsInv'
<1>1. /\ CommandsOK /\ WorldOK /\ OverlayDropped /\ cmd[u].pc # "idle"
      /\ cmd[u] \in Command /\ WellFormed(cmd[u])
  BY DEF CommandsInv, CommandsOK, WellFormed, FindProfile, ListClusters, ReadSecret, Find
<1>2. c \notin suspect => KnowsLabel(cmd[u], c) /\ KnowsApps(cmd[u], c)
  BY <1>1, Goes
<1>3. WorldOK' /\ app' = app /\ label' = label /\ suspect' = suspect /\ overlay' = overlay
  BY <1>1 DEF WorldOK, world
<1>4. SUFFICES /\ CommandsOK' /\ OverlayDropped'
               /\ \A v \in Users \ {u} : cmd'[v] = cmd[v]
               /\ cmd'[u].pc = "idle" \/ cmd'[u].name = c
               /\ c \notin suspect =>
                    IF cmd'[u].pc = "idle" THEN Matches(c)' /\ Found(c)'
                    ELSE KnowsLabel(cmd[u], c)' /\ KnowsApps(cmd[u], c)'
  BY <1>1, <1>3, CommandStep DEF CommandsInv
<1>5. CASE End(u) /\ cmd[u].pc \notin {"label", "undo", "unlabel", "remove"}
  <2>1. /\ cmd' \in [Users -> Command]
        /\ \A v \in Users \ {u} : cmd'[v] = cmd[v]
        /\ cmd'[u] = Idle
    BY <1>1, <1>5, EndCommand DEF CommandsOK
  <2>2. c \notin suspect => Matches(c)' /\ Found(c)'
    BY <1>2, <1>3, <1>5 DEF KnowsLabel, KnowsApps, Matches, Found
  <2> QED
    BY <1>1, <1>3, <2>1, <2>2, IdleCommand DEF CommandsOK, OverlayDropped
<1>6. CASE \/ cmd[u].pc = "profile" /\ Goto(u, "list")
           \/ cmd[u].pc = "list" /\ Goto(u, "secret")
           \/ cmd[u].pc = "secret" /\ ~External(c) /\ Goto(u, "create")
  <2>1. PICK p \in {"list", "secret", "create"} :
          /\ Goto(u, p) /\ (p = "create" => ~External(c))
          /\ cmd[u].pc \in {"profile", "list", "secret"}
    BY <1>6
  <2>2. /\ cmd' \in [Users -> Command]
        /\ \A v \in Users \ {u} : cmd'[v] = cmd[v]
        /\ cmd'[u].pc = p /\ cmd'[u].op = cmd[u].op /\ cmd'[u].name = cmd[u].name
        /\ cmd'[u].prof = cmd[u].prof /\ cmd'[u].found = cmd[u].found
        /\ cmd'[u].todo = cmd[u].todo
    BY <1>1, <2>1, GotoCommand DEF CommandsOK, Pcs
  <2>3. CommandsOK' /\ OverlayDropped'
    BY <1>1, <1>3, <2>1, <2>2 DEF CommandsOK, WellFormed, ManageSteps, OverlayDropped
  <2>4. c \notin suspect => KnowsLabel(cmd[u], c)' /\ KnowsApps(cmd[u], c)'
    BY <1>2, <1>3, <2>1, <2>2 DEF KnowsLabel, KnowsApps, Matches, Found, External
  <2> QED
    BY <2>1, <2>2, <2>3, <2>4
<1>7. CASE Find(u) /\ External(c) /\ cmd[u].prof # label[c]
  <2> DEFINE m == [cmd[u] EXCEPT !.pc = "delete app", !.found = label[c]]
  <2>1. cmd' = [cmd EXCEPT ![u] = m]
    BY <1>1, <1>7 DEF Find
  <2>2. /\ m \in Command /\ m.pc = "delete app" /\ m.op = cmd[u].op /\ m.name = c
        /\ m.prof = cmd[u].prof /\ m.found = label[c] /\ m.found \in Profiles
    BY <1>1, <1>7 DEF Command, Pcs, WorldOK, External
  <2> HIDE DEF m
  <2>3. cmd'[u] = m /\ \A v \in Users \ {u} : cmd'[v] = cmd[v]
    BY <1>1, <2>1 DEF CommandsOK
  <2>4. CommandsOK' /\ OverlayDropped'
    BY <1>1, <1>3, <1>7, <2>1, <2>2, <2>3 DEF CommandsOK, WellFormed, ManageSteps,
       OverlayDropped, Find
  <2>5. c \notin suspect => KnowsLabel(cmd[u], c)' /\ KnowsApps(cmd[u], c)'
    BY <1>2, <1>3, <1>7, <2>2, <2>3 DEF KnowsLabel, KnowsApps, Matches, Found, Find
  <2> QED
    BY <2>2, <2>3, <2>4, <2>5
<1>8. CASE Find(u) /\ ~External(c) /\ Exists(c) /\ cmd[u].op = "delete"
  <2> DEFINE listed == {k \in Apps : app[c][k] # "none"}
             m == [cmd[u] EXCEPT !.pc = IF c \in Overridden THEN "overlay" ELSE "remove",
                                 !.todo = listed]
  <2>1. cmd' = [cmd EXCEPT ![u] = m]
    BY <1>1, <1>8 DEF Find
  <2>2. /\ m \in Command /\ m.op = cmd[u].op /\ m.name = c /\ m.prof = cmd[u].prof
        /\ m.pc = IF c \in Overridden THEN "overlay" ELSE "remove"
        /\ m.todo = listed
    BY <1>1 DEF Command, Pcs
  <2>3. ClusterApp \in listed /\ (app[c][KarlonApp] = "there" => KarlonApp \in listed)
    BY <1>8, KindsOfApps DEF Exists
  <2> HIDE DEF m, listed
  <2>4. cmd'[u] = m /\ \A v \in Users \ {u} : cmd'[v] = cmd[v]
    BY <1>1, <2>1 DEF CommandsOK
  <2>5. CommandsOK'
    BY <1>1, <1>8, <2>1, <2>2, <2>3, <2>4 DEF CommandsOK, WellFormed, ManageSteps
  <2>6. OverlayDropped'
    BY <1>1, <1>3, <2>2, <2>4 DEF OverlayDropped, WorldOK
  <2>7. c \notin suspect => KnowsLabel(cmd[u], c)' /\ KnowsApps(cmd[u], c)'
    BY <1>2, <1>3, <1>8, <2>2, <2>3, <2>4 DEF KnowsLabel, KnowsApps, Matches, Found, Find,
       External
  <2> QED
    BY <2>2, <2>4, <2>5, <2>6, <2>7
<1> QED
  BY <1>5, <1>6, <1>7, <1>8 DEF FindProfile, ListClusters, ReadSecret, Find

(* A command that ends leaves its cluster to anybody. *)
LEMMA EndKeeps ==
  ASSUME CommandsInv, WorldOK', NEW u \in Users, cmd[u].pc # "idle", End(u),
         NEW c \in Clusters, c = cmd[u].name,
         \A d \in Clusters \ {c} : app'[d] = app[d] /\ label'[d] = label[d],
         suspect \subseteq suspect', overlay' \subseteq overlay,
         c \notin suspect' => Matches(c)' /\ Found(c)'
  PROVE  CommandsInv'
<1>1. /\ cmd' \in [Users -> Command]
      /\ \A v \in Users \ {u} : cmd'[v] = cmd[v]
      /\ cmd'[u] = Idle
  BY EndCommand DEF CommandsInv, CommandsOK
<1>2. CommandsOK' /\ OverlayDropped'
  BY <1>1, IdleCommand DEF CommandsInv, CommandsOK, OverlayDropped
<1>3. Alone'
  BY <1>1, IdleCommand, CommandStep
<1> QED
  BY <1>2, <1>3 DEF CommandsInv

(* One that goes on leaves it as its next step expects it. *)
LEMMA GotoKeeps ==
  ASSUME CommandsInv, WorldOK', NEW u \in Users, cmd[u].pc # "idle",
         NEW p \in Pcs \ {"idle"}, Goto(u, p),
         NEW c \in Clusters, c = cmd[u].name,
         \A d \in Clusters \ {c} : app'[d] = app[d] /\ label'[d] = label[d],
         suspect \subseteq suspect', overlay' \subseteq overlay,
         p \in ManageSteps => cmd[u].prof \in Profiles,
         p \in {"delete app", "unlabel"} => cmd[u].found \in Profiles,
         p \in {"overlay", "remove"} => cmd[u].todo # {},
         p = "remove" => c \notin overlay',
         c \notin suspect' => KnowsLabel(cmd[u], c)' /\ KnowsApps(cmd[u], c)'
  PROVE  CommandsInv'
<1>1. /\ cmd' \in [Users -> Command]
      /\ \A v \in Users \ {u} : cmd'[v] = cmd[v]
      /\ cmd'[u].pc = p /\ cmd'[u].op = cmd[u].op /\ cmd'[u].name = cmd[u].name
      /\ cmd'[u].prof = cmd[u].prof /\ cmd'[u].found = cmd[u].found
      /\ cmd'[u].todo = cmd[u].todo
  BY GotoCommand DEF CommandsInv, CommandsOK
<1>2. WellFormed(cmd'[u])
  <2>1. WellFormed(cmd[u])
    BY DEF CommandsInv, CommandsOK
  <2> QED
    BY <1>1, <2>1 DEF WellFormed
<1>3. CommandsOK'
  BY <1>1, <1>2 DEF CommandsInv, CommandsOK
<1>4. OverlayDropped'
  BY <1>1 DEF CommandsInv, OverlayDropped
<1>5. Alone'
  BY <1>1, CommandStep
<1> QED
  BY <1>3, <1>4, <1>5 DEF CommandsInv

(* The profile application is made, the secret labelled, or what was made  *)
(* is removed again.                                                       *)
LEMMA ManageKeeps ==
  ASSUME CommandsInv, NEW u \in Users, NEW c \in Clusters, c = cmd[u].name,
         CreateApp(u) \/ Label(u) \/ Panic(u) \/ Undo(u)
  PROVE  CommandsInv'
<1> DEFINE p == cmd[u].prof
<1>1. /\ cmd[u].pc # "idle" /\ p \in Profiles /\ p \in Apps /\ WorldOK
      /\ cmd \in [Users -> Command]
  BY KindsOfApps DEF CommandsInv, CommandsOK, WellFormed, ManageSteps, CreateApp, Label, Panic, Undo
<1>2. c \notin suspect => KnowsLabel(cmd[u], c) /\ KnowsApps(cmd[u], c)
  BY <1>1, Goes
<1>3. CASE CreateApp(u)
  <2>1. /\ app' = IF app[c][p] = "none" THEN [app EXCEPT ![c][p] = "there"] ELSE app
        /\ suspect' = IF app[c][p] = "deleting" THEN suspect \cup {c} ELSE suspect
        /\ Goto(u, "label") /\ label' = label /\ overlay' = overlay
        /\ registered' = registered /\ cmd[u].pc = "create"
    BY <1>3 DEF CreateApp
  <2>2. /\ WorldOK' /\ \A d \in Clusters \ {c} : app'[d] = app[d]
        /\ \A k \in Apps \ {p} : app'[c][k] = app[c][k]
        /\ app'[c][p] = "there" \/ app[c][p] = "deleting"
    BY <1>1, <2>1 DEF WorldOK
  <2>3. /\ cmd'[u].pc = "label" /\ cmd'[u].prof = p
        /\ "label" \in Pcs \ {"idle"}
    BY <1>1, <2>1, GotoCommand DEF Pcs
  <2>4. ASSUME c \notin suspect'
        PROVE  KnowsLabel(cmd[u], c)' /\ KnowsApps(cmd[u], c)'
    <3>1. /\ Matches(c) /\ Found(c) /\ label[c] = None /\ app'[c][p] = "there"
      BY <1>2, <2>1, <2>2, <2>4 DEF KnowsLabel, KnowsApps
    <3>2. Found(c)'
      BY <1>1, <2>2, <3>1, KindsOfApps DEF Found
    <3>3. \A q \in Profiles : app'[c][q] = "there" <=> q = p
      BY <1>1, <2>2, <3>1, KindsOfApps DEF Matches
    <3> QED
      BY <2>1, <2>3, <3>1, <3>2, <3>3 DEF KnowsLabel, KnowsApps
  <2> HIDE DEF p
  <2> QED
    BY <1>1, <2>1, <2>2, <2>3, <2>4, GotoKeeps DEF p
<1>4. CASE Label(u)
  <2>1. /\ app' = app /\ overlay' = overlay /\ registered' = registered
        /\ cmd[u].pc = "label" /\ suspect \subseteq suspect'
    BY <1>4 DEF Label
  <2>2. CASE /\ c \in registered /\ label' = [label EXCEPT ![c] = p]
             /\ \/ End(u) /\ UNCHANGED suspect
                \/ Goto(u, "undo") /\ suspect' = suspect \cup {c}
    <3>1. /\ WorldOK' /\ label'[c] = p
          /\ \A d \in Clusters \ {c} : label'[d] = label[d]
      BY <1>1, <2>1, <2>2 DEF WorldOK
    <3>2. CASE End(u)
      <4>1. c \notin suspect' => Matches(c)' /\ Found(c)'
        BY <1>2, <2>1, <3>1 DEF KnowsLabel, KnowsApps, Matches, Found
      <4> QED
        BY <1>1, <2>1, <3>1, <3>2, <4>1, EndKeeps
    <3>3. CASE Goto(u, "undo") /\ c \in suspect'
      <4>1. "undo" \in Pcs \ {"idle"}
        BY DEF Pcs
      <4> QED
        BY <1>1, <2>1, <3>1, <3>3, <4>1, GotoKeeps
    <3> QED
      BY <2>2, <3>2, <3>3
  <2>3. CASE Goto(u, "undo") /\ UNCHANGED <<label, suspect>>
    <3>1. WorldOK'
      BY <1>1, <2>1, <2>3 DEF WorldOK
    <3>2. cmd'[u].pc = "undo" /\ cmd'[u].prof = p /\ "undo" \in Pcs \ {"idle"}
      BY <1>1, <2>3, GotoCommand DEF Pcs
    <3>3. c \notin suspect' => KnowsLabel(cmd[u], c)' /\ KnowsApps(cmd[u], c)'
      BY <1>2, <2>1, <2>3, <3>2 DEF KnowsLabel, KnowsApps, Found
    <3> QED
      BY <1>1, <2>1, <2>3, <3>1, <3>2, <3>3, GotoKeeps
  <2> QED
    BY <1>4, <2>2, <2>3 DEF Label
<1>5. CASE Panic(u)
  <2>1. WorldOK' /\ app' = app /\ label' = label /\ overlay' = overlay
    BY <1>1, <1>5 DEF Panic, WorldOK, world
  <2>2. c \in suspect' /\ suspect \subseteq suspect' /\ End(u)
    BY <1>5 DEF Panic
  <2> QED
    BY <1>1, <2>1, <2>2, EndKeeps
<1>6. CASE Undo(u)
  <2>1. /\ cmd[u].pc = "undo" /\ app' = Removed(c, p) /\ End(u)
        /\ UNCHANGED <<registered, label, overlay, suspect>>
    BY <1>6 DEF Undo
  <2>2. /\ app' \in [Clusters -> [Apps -> {"none", "there", "deleting"}]]
        /\ \A d \in Clusters \ {c} : app'[d] = app[d]
        /\ \A j \in Apps \ {p} : app'[c][j] = app[c][j]
        /\ app'[c][p] # "there"
    BY <1>1, <2>1, RemovedApp
  <2>3. WorldOK'
    BY <1>1, <2>1, <2>2 DEF WorldOK
  <2>4. c \notin suspect => Matches(c)' /\ Found(c)'
    BY <1>1, <1>2, <2>1, <2>2, KindsOfApps DEF KnowsLabel, KnowsApps, Matches, Found
  <2> QED
    BY <1>1, <2>1, <2>2, <2>3, <2>4, EndKeeps
<1> QED
  BY <1>3, <1>4, <1>5, <1>6

(* The label's application and the label are removed, and so are, in their *)
(* order, the patches and the applications of a gen2 cluster.              *)
LEMMA UnmanageKeeps ==
  ASSUME CommandsInv, NEW u \in Users, NEW c \in Clusters, c = cmd[u].name,
         DeleteApp(u) \/ Unlabel(u) \/ DropOverlay(u)
  PROVE  CommandsInv'
<1> DEFINE p == cmd[u].found
<1>1. /\ cmd[u].pc # "idle" /\ WorldOK /\ cmd \in [Users -> Command]
      /\ WellFormed(cmd[u])
  BY DEF CommandsInv, CommandsOK, DeleteApp, Unlabel, DropOverlay
<1>2. c \notin suspect => KnowsLabel(cmd[u], c) /\ KnowsApps(cmd[u], c)
  BY <1>1, Goes
<1>3. CASE DeleteApp(u)
  <2>1. /\ cmd[u].pc = "delete app" /\ app' = Removed(c, p)
        /\ UNCHANGED <<registered, label, overlay, suspect>>
        /\ p \in Profiles /\ p \in Apps
        /\ IF app[c][p] = "none" THEN End(u) ELSE Goto(u, "unlabel")
    BY <1>1, <1>3, KindsOfApps DEF DeleteApp, WellFormed
  <2>2. /\ app' \in [Clusters -> [Apps -> {"none", "there", "deleting"}]]
        /\ \A d \in Clusters \ {c} : app'[d] = app[d]
        /\ \A j \in Apps \ {p} : app'[c][j] = app[c][j]
        /\ app'[c][p] # "there"
    BY <1>1, <2>1, RemovedApp
  <2>3. WorldOK'
    BY <1>1, <2>1, <2>2 DEF WorldOK
  <2> HIDE DEF p
  <2>4. ASSUME c \notin suspect
        PROVE  /\ label[c] = p /\ app[c][p] = "there" /\ Found(c)'
               /\ \A q \in Profiles : app'[c][q] # "there"
    <3>1. Matches(c) /\ Found(c) /\ label[c] = p
      BY <1>2, <2>1, <2>4 DEF KnowsLabel, KnowsApps, p
    <3>2. Found(c)'
      BY <2>1, <2>2, <3>1, KindsOfApps DEF Found
    <3>3. \A q \in Profiles : app'[c][q] # "there"
      BY <2>2, <3>1, KindsOfApps DEF Matches
    <3> QED
      BY <2>1, <3>1, <3>2, <3>3 DEF Matches
  <2>5. CASE End(u) /\ app[c][p] = "none"
    BY <1>1, <2>1, <2>2, <2>3, <2>4, <2>5, EndKeeps
  <2>6. CASE Goto(u, "unlabel")
    <3>1. /\ cmd'[u].pc = "unlabel" /\ cmd'[u].found = p
          /\ "unlabel" \in Pcs \ {"idle"} /\ "unlabel" \notin ManageSteps
      BY <1>1, <2>6, GotoCommand DEF Pcs, ManageSteps, p
    <3>2. c \notin suspect => KnowsLabel(cmd[u], c)' /\ KnowsApps(cmd[u], c)'
      BY <2>1, <2>4, <3>1 DEF KnowsLabel, KnowsApps
    <3>3. /\ overlay' \subseteq overlay /\ suspect' = suspect /\ cmd[u].found \in Profiles
          /\ \A d \in Clusters \ {c} : app'[d] = app[d] /\ label'[d] = label[d]
      BY <2>1, <2>2 DEF p
    <3> QED
      BY <1>1, <2>3, <2>6, <3>1, <3>2, <3>3, GotoKeeps
  <2> QED
    BY <2>1, <2>5, <2>6
<1>4. CASE Unlabel(u)
  <2>1. /\ cmd[u].pc = "unlabel" /\ label' = [label EXCEPT ![c] = None]
        /\ UNCHANGED <<registered, app, overlay, suspect>>
        /\ End(u) \/ (cmd[u].op = "update" /\ Goto(u, "profile"))
    BY <1>4 DEF Unlabel
  <2>2. /\ WorldOK' /\ label'[c] = None
        /\ \A d \in Clusters \ {c} : label'[d] = label[d]
    BY <1>1, <2>1 DEF WorldOK
  <2>3. c \notin suspect => Matches(c)' /\ Found(c)'
    BY <1>2, <2>1, <2>2, KindsOfApps DEF KnowsLabel, KnowsApps, Matches, Found
  <2>4. CASE End(u)
    BY <1>1, <2>1, <2>2, <2>3, <2>4, EndKeeps
  <2>5. CASE cmd[u].op = "update" /\ Goto(u, "profile")
    <3>1. cmd'[u].pc = "profile" /\ "profile" \in Pcs \ {"idle"} /\ cmd[u].prof \in Profiles
      BY <1>1, <2>5, GotoCommand DEF Pcs, WellFormed
    <3>2. c \notin suspect => KnowsLabel(cmd[u], c)' /\ KnowsApps(cmd[u], c)'
      BY <2>3, <3>1 DEF KnowsLabel, KnowsApps
    <3> QED
      BY <1>1, <2>1, <2>2, <2>5, <3>1, <3>2, GotoKeeps
  <2> QED
    BY <2>1, <2>4, <2>5
<1>5. CASE DropOverlay(u)
  <2>1. /\ cmd[u].pc = "overlay" /\ overlay' = overlay \ {c}
        /\ UNCHANGED <<registered, label, app, suspect>>
        /\ End(u) \/ Goto(u, "remove")
    BY <1>5 DEF DropOverlay
  <2>2. WorldOK'
    BY <1>1, <2>1 DEF WorldOK
  <2>3. CASE End(u)
    <3>1. c \notin suspect => Matches(c)' /\ Found(c)'
      BY <1>2, <2>1 DEF KnowsLabel, KnowsApps, Matches, Found
    <3> QED
      BY <1>1, <2>1, <2>2, <2>3, <3>1, EndKeeps
  <2>4. CASE Goto(u, "remove")
    <3>1. /\ cmd'[u].pc = "remove" /\ cmd'[u].todo = cmd[u].todo
          /\ "remove" \in Pcs \ {"idle"} /\ "remove" \notin ManageSteps
          /\ cmd[u].todo # {}
      BY <1>1, <2>1, <2>4, GotoCommand DEF Pcs, ManageSteps, WellFormed
    <3>2. c \notin suspect => KnowsLabel(cmd[u], c)' /\ KnowsApps(cmd[u], c)'
      BY <1>2, <2>1, <3>1 DEF KnowsLabel, KnowsApps, Matches, Found
    <3> QED
      BY <1>1, <2>1, <2>2, <2>4, <3>1, <3>2, GotoKeeps
  <2> QED
    BY <2>1, <2>3, <2>4
<1> QED
  BY <1>3, <1>4, <1>5

(* The applications that were listed go one by one, the cluster's own      *)
(* first: once it goes, what is left of the cluster is on the list.        *)
LEMMA RemoveKeeps ==
  ASSUME CommandsInv, NEW u \in Users, NEW c \in Clusters, c = cmd[u].name, Remove(u)
  PROVE  CommandsInv'
<1> DEFINE todo == cmd[u].todo
<1>1. /\ cmd[u].pc = "remove" /\ WorldOK /\ cmd \in [Users -> Command]
      /\ WellFormed(cmd[u]) /\ todo \subseteq Apps /\ cmd[u] \in Command
      /\ c \notin overlay
  BY DEF CommandsInv, CommandsOK, OverlayDropped, Remove, Command
<1>2. c \notin suspect => KnowsLabel(cmd[u], c) /\ KnowsApps(cmd[u], c)
  BY <1>1, Goes
<1>3. PICK k \in NextOf(todo) :
        /\ app' = Removed(c, k)
        /\ IF app[c][k] = "none" \/ todo = {k} THEN End(u)
           ELSE cmd' = [cmd EXCEPT ![u].todo = @ \ {k}]
  BY DEF Remove
<1>4. UNCHANGED <<registered, label, overlay, suspect>>
  BY DEF Remove
<1>5. /\ k \in todo /\ k \in Apps
      /\ ClusterApp \in todo => k = ClusterApp
      /\ ClusterApp \notin todo /\ KarlonApp \in todo => k = KarlonApp
  BY <1>1 DEF NextOf
<1> HIDE DEF todo
<1>6. /\ app' \in [Clusters -> [Apps -> {"none", "there", "deleting"}]]
      /\ \A d \in Clusters \ {c} : app'[d] = app[d]
      /\ \A j \in Apps \ {k} : app'[c][j] = app[c][j]
      /\ app'[c][k] # "there"
  BY <1>1, <1>3, <1>5, RemovedApp
<1>7. WorldOK'
  BY <1>1, <1>4, <1>6 DEF WorldOK
<1>8. c \notin suspect => Matches(c)'
  BY <1>1, <1>2, <1>4, <1>6, KindsOfApps DEF KnowsLabel, Matches
<1>9. c \notin suspect =>
        \/ Found(c) /\ k = ClusterApp /\ ClusterApp \in todo
        \/ ClusterApp \notin todo /\ k # ClusterApp
  BY <1>1, <1>2, <1>5 DEF KnowsApps, todo
<1>10. CASE (app[c][k] = "none" \/ todo = {k}) /\ End(u)
  <2>1. c \notin suspect => app'[c][KarlonApp] # "there"
    BY <1>1, <1>2, <1>5, <1>6, <1>9, <1>10, KindsOfApps DEF KnowsApps, Found, todo
  <2>2. c \notin suspect => Found(c)'
    BY <2>1 DEF Found
  <2> QED
    BY <1>1, <1>4, <1>6, <1>7, <1>8, <1>10, <2>2, EndKeeps
<1>11. CASE todo # {k} /\ cmd' = [cmd EXCEPT ![u].todo = @ \ {k}]
  <2> DEFINE m == [cmd[u] EXCEPT !.todo = @ \ {k}]
  <2>1. /\ m \in Command /\ m.pc = "remove" /\ m.op = cmd[u].op /\ m.name = c
        /\ m.prof = cmd[u].prof /\ m.found = cmd[u].found /\ m.todo = todo \ {k}
    BY <1>1 DEF Command, todo
  <2>2. cmd' = [cmd EXCEPT ![u] = m]
    BY <1>1, <1>11
  <2> HIDE DEF m
  <2>3. cmd'[u] = m /\ \A v \in Users \ {u} : cmd'[v] = cmd[v]
    BY <1>1, <2>2
  <2>4. m.todo # {}
    BY <1>5, <1>11, <2>1
  <2>5. WellFormed(m)
    BY <1>1, <2>1, <2>4 DEF WellFormed, ManageSteps
  <2>6. CommandsOK' /\ OverlayDropped'
    BY <1>1, <1>4, <2>1, <2>2, <2>3, <2>5 DEF CommandsInv, CommandsOK, OverlayDropped
  <2>7. c \notin suspect => KnowsLabel(cmd[u], c)'
    BY <1>1, <1>2, <1>4, <1>8, <2>1, <2>3 DEF KnowsLabel
  <2>8. c \notin suspect => KnowsApps(cmd[u], c)'
    <3>1. ClusterApp \notin todo \ {k}
      BY <1>5
    <3>2. c \notin suspect /\ app'[c][KarlonApp] = "there" => KarlonApp \in todo \ {k}
      BY <1>1, <1>2, <1>6, KindsOfApps DEF KnowsApps, todo
    <3> QED
      BY <2>1, <2>3, <3>1, <3>2 DEF KnowsApps
  <2>9. Alone'
    BY <1>1, <1>4, <1>6, <2>1, <2>3, <2>7, <2>8, CommandStep
  <2> QED
    BY <1>7, <2>6, <2>9 DEF CommandsInv
<1> QED
  BY <1>3, <1>10, <1>11

(* A command that is cut off half-way makes its cluster suspect. *)
LEMMA InterruptKeeps ==
  ASSUME CommandsInv, NEW u \in Users, NEW c \in Clusters, c = cmd[u].name, Interrupt(u)
  PROVE  CommandsInv'
<1>1. /\ cmd[u].pc # "idle" /\ WorldOK /\ End(u) /\ suspect \subseteq suspect'
      /\ HalfWay(u) => c \in suspect'
      /\ app' = app /\ label' = label /\ overlay' = overlay /\ registered' = registered
  BY DEF CommandsInv, Interrupt, world
<1>2. WorldOK'
  BY <1>1 DEF WorldOK
<1>3. ASSUME c \notin suspect'
      PROVE  Matches(c)' /\ Found(c)'
  <2>1. KnowsLabel(cmd[u], c) /\ KnowsApps(cmd[u], c)
    BY <1>1, <1>3, Goes
  <2> QED
    BY <1>1, <1>3, <2>1 DEF HalfWay, KnowsLabel, KnowsApps, Matches, Found
<1> QED
  BY <1>1, <1>2, <1>3, EndKeeps

(* Every step of a command. *)
LEMMA StepKeeps ==
  ASSUME CommandsInv, NEW u \in Users, Step(u)
  PROVE  CommandsInv'
<1>1. CASE Manage(u) \/ Unmanage(u) \/ Update(u) \/ Delete(u)
  BY <1>1, IssueKeeps
<1>2. CASE cmd[u].pc # "idle"
  <2>1. PICK c \in Clusters : c = cmd[u].name
    BY <1>2 DEF CommandsInv, CommandsOK, WellFormed
  <2>2. CASE FindProfile(u) \/ ListClusters(u) \/ ReadSecret(u) \/ Find(u)
    <3>1. UNCHANGED <<suspect, world>>
      BY <2>2 DEF FindProfile, ListClusters, ReadSecret, Find
    <3> QED
      BY <2>1, <2>2, <3>1, LookKeeps
  <2> QED
    BY <1>1, <2>1, <2>2, ManageKeeps, UnmanageKeeps, RemoveKeeps, InterruptKeeps DEF Step
<1> QED
  BY <1>1, <1>2 DEF Step, FindProfile, ListClusters, ReadSecret, CreateApp, Label, Panic,
     Undo, Find, DeleteApp, Unlabel, DropOverlay, Remove, Interrupt

-----------------------------------------------------------------------------
(* The environment, and the whole *)

(* Where the labels of clusters that are not suspect stay, and nothing is  *)
(* there or is gone that was not, all commands know what they did.         *)
LEMMA EnvironmentAlone ==
  ASSUME CommandsInv, cmd' = cmd, suspect \subseteq suspect',
         \A c \in Clusters \ suspect' : label'[c] = label[c],
         \A c \in Clusters, k \in Apps : app'[c][k] = "there" <=> app[c][k] = "there"
  PROVE  Alone'
<1> SUFFICES ASSUME NEW c \in Clusters, c \notin suspect'
             PROVE  /\ \A u, v \in Users :
                         /\ cmd'[u].pc # "idle" /\ cmd'[u].name = c
                         /\ cmd'[v].pc # "idle" /\ cmd'[v].name = c
                         => u = v
                    /\ ~Busy(c)' => Matches(c)' /\ Found(c)'
                    /\ \A u \in Users : cmd'[u].pc # "idle" /\ cmd'[u].name = c
                         => KnowsLabel(cmd[u], c)' /\ KnowsApps(cmd[u], c)'
  BY DEF Alone
<1>1. /\ c \notin suspect
      /\ \A u, v \in Users :
           /\ cmd[u].pc # "idle" /\ cmd[u].name = c
           /\ cmd[v].pc # "idle" /\ cmd[v].name = c
           => u = v
      /\ ~Busy(c) => Matches(c) /\ Found(c)
      /\ \A u \in Users : cmd[u].pc # "idle" /\ cmd[u].name = c
           => KnowsLabel(cmd[u], c) /\ KnowsApps(cmd[u], c)
  BY DEF CommandsInv, Alone
<1>2. /\ label'[c] = label[c]
      /\ \A k \in Apps : app'[c][k] = "there" <=> app[c][k] = "there"
  OBVIOUS
<1>3. (Matches(c)' <=> Matches(c)) /\ (Found(c)' <=> Found(c)) /\ (Busy(c)' <=> Busy(c))
  BY <1>2, KindsOfApps DEF Matches, Found, Busy
<1>4. ASSUME NEW u \in Users, KnowsLabel(cmd[u], c), KnowsApps(cmd[u], c)
      PROVE  KnowsLabel(cmd[u], c)' /\ KnowsApps(cmd[u], c)'
  BY <1>2, <1>3, <1>4, KindsOfApps DEF KnowsLabel, KnowsApps
<1> QED
  BY <1>1, <1>3, <1>4

(* What ArgoCD, its users and the owners of profiles do. *)
LEMMA EnvironmentKeeps ==
  ASSUME CommandsInv,
         \/ \E c \in Clusters : Unregister(c) \/ Register(c) \/ \E k \in Apps : AppGone(c, k)
         \/ \E p \in Profiles : DropProfile(p)
  PROVE  CommandsInv'
<1>1. WorldOK /\ CommandsOK /\ OverlayDropped
  BY DEF CommandsInv
<1>2. cmd' = cmd /\ overlay' = overlay /\ suspect \subseteq suspect'
  BY DEF Unregister, Register, AppGone, DropProfile
<1>3. CommandsOK' /\ OverlayDropped'
  BY <1>1, <1>2 DEF CommandsOK, OverlayDropped
<1>4. ASSUME NEW c \in Clusters, Unregister(c)
      PROVE  CommandsInv'
  <2>1. /\ registered' = registered \ {c} /\ label' = [label EXCEPT ![c] = None]
        /\ app' = app /\ (label[c] # None => c \in suspect')
    BY <1>4 DEF Unregister, External
  <2>2. WorldOK' /\ \A d \in Clusters \ suspect' : label'[d] = label[d]
    BY <1>1, <1>2, <2>1 DEF WorldOK
  <2> QED
    BY <1>2, <1>3, <2>1, <2>2, EnvironmentAlone DEF CommandsInv
<1>5. ASSUME NEW c \in Clusters, Register(c)
      PROVE  CommandsInv'
  <2>1. WorldOK' /\ label' = label /\ app' = app
    BY <1>1, <1>5 DEF Register, WorldOK
  <2> QED
    BY <1>2, <1>3, <2>1, EnvironmentAlone DEF CommandsInv
<1>6. ASSUME NEW c \in Clusters, NEW k \in Apps, AppGone(c, k)
      PROVE  CommandsInv'
  <2>1. WorldOK' /\ label' = label
    BY <1>1, <1>6 DEF AppGone, WorldOK
  <2>2. \A d \in Clusters, j \in Apps : app'[d][j] = "there" <=> app[d][j] = "there"
    BY <1>1, <1>6 DEF AppGone, WorldOK
  <2> QED
    BY <1>2, <1>3, <2>1, <2>2, EnvironmentAlone DEF CommandsInv
<1>7. ASSUME NEW p \in Profiles, DropProfile(p)
      PROVE  CommandsInv'
  <2>1. WorldOK' /\ label' = label /\ app' = app
    BY <1>1, <1>7 DEF DropProfile, WorldOK
  <2> QED
    BY <1>2, <1>3, <2>1, EnvironmentAlone DEF CommandsInv
<1> QED
  BY <1>4, <1>5, <1>6, <1>7

(* Every step keeps the invariant. *)
LEMMA CommandsNext == CommandsInv /\ [Next]_vars => CommandsInv'
<1> SUFFICES ASSUME CommandsInv, [Next]_vars PROVE CommandsInv'
  OBVIOUS
<1>1. CASE Next
  BY <1>1, StepKeeps, EnvironmentKeeps DEF Next
<1>2. CASE UNCHANGED vars
  <2>1. CommandsOK' /\ WorldOK' /\ OverlayDropped'
    BY <1>2 DEF vars, CommandsInv, CommandsOK, WorldOK, OverlayDropped
  <2>2. Alone'
    BY <1>2, EnvironmentAlone DEF vars
  <2> QED
    BY <2>1, <2>2 DEF CommandsInv
<1> QED
  BY <1>1, <1>2

(* It holds initially. *)
LEMMA CommandsStart == Init => CommandsInv
<1> SUFFICES ASSUME Init PROVE CommandsInv
  OBVIOUS
<1>1. CommandsOK /\ OverlayDropped
  BY IdleCommand DEF Init, CommandsOK, OverlayDropped
<1>2. WorldOK
  BY KindsOfApps DEF Init, WorldOK
<1>3. Alone
  BY IdleCommand, KindsOfApps DEF Init, Alone, Matches, Found
<1> QED
  BY <1>1, <1>2, <1>3 DEF CommandsInv

-----------------------------------------------------------------------------

(* Every variable keeps its type, and so does what is left to delete. *)
THEOREM CommandsTypeCorrect == Spec => []TypeOK
<1>1. CommandsInv => TypeOK
  BY DEF CommandsInv, CommandsOK, WorldOK, WellFormed, Command, TypeOK
<1> QED
  BY <1>1, CommandsStart, CommandsNext, PTL DEF Spec

(* The label of a cluster names the one profile application it has, if the *)
(* commands on it have run one at a time and to an end.                    *)
THEOREM LabelCorrect == Spec => []LabelMatches
<1>1. CommandsInv => LabelMatches
  BY DEF CommandsInv, Alone, Matches, LabelMatches
<1> QED
  BY <1>1, CommandsStart, CommandsNext, PTL DEF Spec

(* The deletion of a gen2 cluster can be asked for again. *)
THEOREM FoundCorrect == Spec => []StillFound
<1>1. CommandsInv => StillFound
  BY DEF CommandsInv, Alone, Found, StillFound
<1> QED
  BY <1>1, CommandsStart, CommandsNext, PTL DEF Spec

(* No cluster app goes before the patches of its cluster have. *)
THEOREM OverlayCorrect == Spec => OverlayFirst
<1>1. ASSUME CommandsInv, [Next]_vars, NEW c \in Clusters,
             app[c][ClusterApp] = "there", app'[c][ClusterApp] # "there"
      PROVE  c \notin overlay
  <2>1. WorldOK /\ CommandsOK /\ OverlayDropped
    BY <1>1 DEF CommandsInv
  <2>2. ASSUME NEW d \in Clusters, NEW k \in Apps, app' = Removed(d, k)
        PROVE  d = c /\ k = ClusterApp
    BY <1>1, <2>1, <2>2, RemovedApp, KindsOfApps
  <2>3. ASSUME NEW u \in Users, Remove(u)
        PROVE  c \notin overlay
    <3>1. cmd[u].name \in Clusters /\ cmd[u].todo \subseteq Apps /\ cmd[u].name \notin overlay
      BY <2>1, <2>3 DEF CommandsOK, WellFormed, OverlayDropped, Remove, Command
    <3>2. PICK k \in Apps : app' = Removed(cmd[u].name, k)
      BY <2>3, <3>1 DEF Remove, NextOf
    <3> QED
      BY <2>2, <3>1, <3>2
  <2>4. ASSUME NEW u \in Users, Undo(u) \/ DeleteApp(u)
        PROVE  FALSE
    <3>1. PICK k \in Profiles : app' = Removed(cmd[u].name, k)
      BY <2>1, <2>4 DEF CommandsOK, WellFormed, ManageSteps, Undo, DeleteApp
    <3>2. cmd[u].name \in Clusters
      BY <2>1, <2>4 DEF CommandsOK, WellFormed, Undo, DeleteApp
    <3> QED
      BY <2>2, <3>1, <3>2, KindsOfApps
  <2>5. ASSUME NEW u \in Users, CreateApp(u)
        PROVE  FALSE
    <3>1. PICK d \in Clusters, k \in Profiles : app' = [app EXCEPT ![d][k] = "there"]
      BY <2>1, <2>5, <1>1 DEF CommandsOK, WellFormed, ManageSteps, CreateApp
    <3> QED
      BY <1>1, <2>1, <3>1, KindsOfApps DEF WorldOK
  <2>6. ASSUME NEW d \in Clusters, NEW k \in Apps, AppGone(d, k)
        PROVE  FALSE
    BY <1>1, <2>1, <2>6 DEF AppGone, WorldOK
  <2>7. app' # app
    BY <1>1
  <2> QED
    BY <1>1, <2>3, <2>4, <2>5, <2>6, <2>7 DEF Next, Step, vars, world, Manage, Unmanage,
       Update, Delete, Issue, FindProfile, ListClusters, ReadSecret, Label, Panic, Find,
       Unlabel, DropOverlay, Interrupt, Unregister, Register, DropProfile
<1>2. CommandsInv /\ [Next]_vars =>
        [\A c \in Clusters :
           app[c][ClusterApp] = "there" /\ app'[c][ClusterApp] # "there"
             => c \notin overlay]_vars
  BY <1>1
<1> QED
  BY <1>2, CommandsStart, CommandsNext, PTL DEF Spec, OverlayFirst
=============================================================================
