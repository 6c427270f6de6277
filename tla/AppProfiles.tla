----------------------------- MODULE AppProfiles -----------------------------
(***************************************************************************)
(* How apps reach the clusters (appprofile/reconcile.go).  Three           *)
(* controllers, of AppProfiles, of ApplicationSets (the apps) and of       *)
(* ArgoCD Applications (of which the cluster apps count), each with its    *)
(* own work queue and worker, answer every event with the same global      *)
(* pass, ReconcileEverything, under one mutex: read everything, copy the   *)
(* profiles annotation of each cluster app to the ArgoCD cluster of that   *)
(* name, report each profile's status, rewrite the list of clusters in     *)
(* each ApplicationSet's generator.                                        *)
(*                                                                         *)
(* ArgoCD is asked for its clusters and applications; ApplicationSets and  *)
(* profiles are read from the informer cache, and a write to one of them   *)
(* is refused when the worker's copy is not current.                       *)
(***************************************************************************)
EXTENDS Naturals, Functions

CONSTANTS
  Clusters,     \* names of clusters, of their ArgoCD clusters and cluster apps
  Profiles,     \* names of AppProfiles
  Apps,         \* names of ApplicationSets of type "application"
  Servers,      \* API endpoints an ArgoCD cluster can have
  MaxTroubles,  \* bound on the users' changes, failures and crashes
  Nothing       \* no item, no worker, no server

ASSUME KeysAssumption ==
  /\ Clusters \cap Profiles = {}
  /\ Clusters \cap Apps = {}
  /\ Profiles \cap Apps = {}
  /\ Nothing \notin Clusters \cup Profiles \cup Apps
ASSUME ServersAssumption == Servers # {} /\ Nothing \notin Servers
ASSUME TroublesAssumption == MaxTroubles \in Nat

Workers == {"appprofile", "applicationset", "application"}
ASSUME WorkersAssumption == Nothing \notin Workers

Keys(w) ==
  CASE w = "appprofile"     -> Profiles
    [] w = "applicationset" -> Apps
    [] w = "application"    -> Clusters

Objects == Profiles \cup Apps
Items   == Objects \cup Clusters

VARIABLES
  argoCluster,  \* ArgoCD: the registered clusters
  clusterApp,   \* ArgoCD: the cluster apps
  profile,      \* API server: the AppProfiles
  appSet,       \* API server: the ApplicationSets
  cached,       \* the informers' copies of profiles and ApplicationSets
  fresh,        \* the objects whose cached copy is current
  queue,        \* the items in the three work queues
  mtx,          \* the worker that holds the mutex, or Nothing
  pc,           \* each worker's next call
  item,         \* the item it took
  plan,         \* the writes it has yet to do
  held,         \* the objects whose copy in its plan is current
  unseen,       \* since a pass last read ArgoCD, have its clusters changed or
                \* was an item dropped because its application is gone?
  troubles      \* the users' changes, failures and crashes so far

argo   == <<argoCluster, clusterApp>>
kube   == <<profile, appSet>>
worker == <<mtx, pc, item, plan, held>>
vars   == <<argoCluster, clusterApp, profile, appSet, cached, fresh, queue,
            mtx, pc, item, plan, held, unseen, troubles>>

-----------------------------------------------------------------------------
(* State *)

(* An annotation is the set of the profile names it lists. *)
Annotations == SUBSET Profiles

(* An absent object keeps the rest of its record as in the constant below. *)
ArgoCluster == [exists : BOOLEAN, ann : Annotations, server : Servers]
ClusterApp  == [exists : BOOLEAN, ann : Annotations]
Profile     == [exists : BOOLEAN, apps : SUBSET Apps, invalid : SUBSET Apps,
                health : {"", "healthy", "degraded"}]

(* The generator's elements map cluster names to servers. *)
Elements == UNION {[C -> Servers] : C \in SUBSET Clusters}
AppSet   == [exists : BOOLEAN, elems : Elements]

Empty     == [x \in {} |-> x]
NoApp     == [exists |-> FALSE, ann |-> {}]
NoProfile == [exists |-> FALSE, apps |-> {}, invalid |-> {}, health |-> ""]
NoAppSet  == [exists |-> FALSE, elems |-> Empty]

(* What a pass has found out -- the ArgoCD clusters, and the clusters that *)
(* use each profile name -- and what it still has to write: annotations of *)
(* ArgoCD clusters, invalid names of profiles, elements of ApplicationSets. *)
Plans ==
  [ clusters : UNION {[C -> ArgoCluster] : C \in SUBSET Clusters},
    users   : [Profiles -> SUBSET Clusters],
    ann     : UNION {[C -> Annotations] : C \in SUBSET Clusters},
    invalid : UNION {[P -> SUBSET Apps] : P \in SUBSET Profiles},
    elems   : UNION {[A -> SUBSET Clusters] : A \in SUBSET Apps} ]

NoPlan ==
  [ clusters |-> Empty, users |-> [p \in Profiles |-> {}],
    ann |-> Empty, invalid |-> Empty, elems |-> Empty ]

Steps == {"idle", "listClusters", "listApps", "listCache", "write"}

TypeOK ==
  /\ argoCluster \in [Clusters -> ArgoCluster]
  /\ clusterApp \in [Clusters -> ClusterApp]
  /\ profile \in [Profiles -> Profile]
  /\ appSet \in [Apps -> AppSet]
  /\ cached \in [profile : [Profiles -> Profile], appSet : [Apps -> AppSet]]
  /\ fresh \subseteq Objects
  /\ queue \subseteq Items
  /\ mtx \in Workers \cup {Nothing}
  /\ pc \in [Workers -> Steps]
  /\ item \in [Workers -> Items \cup {Nothing}]
  /\ plan \in [Workers -> Plans]
  /\ held \in [Workers -> SUBSET Objects]
  /\ unseen \in BOOLEAN
  /\ troubles \in 0 .. MaxTroubles

(* Everything there is, as a process that starts finds it. *)
Existing ==
  {p \in Profiles : profile[p].exists} \cup {a \in Apps : appSet[a].exists}
    \cup {c \in Clusters : clusterApp[c].exists}

(* The controllers start on a world somebody else has built. *)
Init ==
  /\ argoCluster \in [Clusters -> {r \in ArgoCluster : r.exists \/ r.ann = {}}]
  /\ clusterApp \in [Clusters -> {r \in ClusterApp : r.exists \/ r = NoApp}]
  /\ profile \in [Profiles -> {NoProfile} \cup
       {[NoProfile EXCEPT !.exists = TRUE, !.apps = S] : S \in SUBSET Apps}]
  /\ appSet \in [Apps -> {NoAppSet} \cup
       {[exists |-> TRUE, elems |-> [c \in C |-> argoCluster[c].server]] :
          C \in SUBSET Clusters}]
  /\ cached = [profile |-> profile, appSet |-> appSet]
  /\ fresh = Objects
  /\ queue = Existing
  /\ mtx = Nothing
  /\ pc = [w \in Workers |-> "idle"]
  /\ item = [w \in Workers |-> Nothing]
  /\ plan = [w \in Workers |-> NoPlan]
  /\ held = [w \in Workers |-> {}]
  /\ unseen = FALSE
  /\ troubles = 0

Trouble == troubles < MaxTroubles /\ troubles' = troubles + 1

-----------------------------------------------------------------------------
(* Reconcile and ReconcileEverything *)

Goto(w, p) == pc' = [pc EXCEPT ![w] = p]

(* A write to an object of the API server leaves every copy stale. *)
Stale(x) ==
  /\ fresh' = fresh \ {x}
  /\ held' = [w \in Workers |-> held[w] \ {x}]

(* Mutant of Take: a pass does not wait for the mutex. *)
TakeUnlocked(w, x) ==
  /\ pc[w] = "idle"
  /\ x \in queue \cap Keys(w)
  /\ queue' = queue \ {x}
  /\ w = "application" => clusterApp[x].exists
  /\ Goto(w, "listClusters")
  /\ item' = [item EXCEPT ![w] = x]
  /\ UNCHANGED <<argo, kube, cached, fresh, mtx, plan, held, unseen, troubles>>

(* The application controller answers the end of an application with       *)
(* nothing; the two others reconcile everything then too.  A worker that   *)
(* waits for the mutex has learnt nothing else yet, and is modelled as one *)
(* that has not taken its item yet.                                        *)
Take(w, x) ==
  /\ pc[w] = "idle"
  /\ x \in queue \cap Keys(w)
  /\ queue' = queue \ {x}
  /\ \/ /\ w = "application" /\ ~clusterApp[x].exists
        /\ unseen' = TRUE
        /\ UNCHANGED <<mtx, pc, item>>
     \/ /\ w = "application" => clusterApp[x].exists
        /\ mtx = Nothing
        /\ mtx' = w
        /\ Goto(w, "listClusters")
        /\ item' = [item EXCEPT ![w] = x]
        /\ UNCHANGED unseen
  /\ UNCHANGED <<argo, kube, cached, fresh, plan, held, troubles>>

(* Return, with an error (the item is queued again) or without. *)
Return(w, again) ==
  /\ mtx' = IF mtx = w THEN Nothing ELSE mtx
  /\ Goto(w, "idle")
  /\ queue' = IF again THEN queue \cup {item[w]} ELSE queue
  /\ item' = [item EXCEPT ![w] = Nothing]
  /\ plan' = [plan EXCEPT ![w] = NoPlan]

Fail(w) ==
  /\ Trouble
  /\ pc[w] # "idle"
  /\ Return(w, TRUE)
  /\ held' = [held EXCEPT ![w] = {}]
  /\ UNCHANGED <<argo, kube, cached, fresh, unseen>>

ListClusters(w) ==
  /\ pc[w] = "listClusters"
  /\ plan' = [plan EXCEPT ![w].clusters =
                Restrict(argoCluster, {c \in Clusters : argoCluster[c].exists})]
  /\ Goto(w, "listApps")
  /\ unseen' = FALSE
  /\ UNCHANGED <<argo, kube, cached, fresh, queue, mtx, item, held, troubles>>

(* The annotation that counts for an ArgoCD cluster: its cluster app's or, *)
(* if it has none (it may be external), its own.                           *)
Tag(c, own) == IF clusterApp[c].exists THEN clusterApp[c].ann ELSE own

(* Mutant of ListApps: goes through the cluster apps, registered or not. *)
ListAppsUnregistered(w) ==
  /\ pc[w] = "listApps"
  /\ plan' = [plan EXCEPT
       ![w].users = [p \in Profiles |->
         {c \in Clusters : clusterApp[c].exists /\ p \in clusterApp[c].ann}]]
  /\ Goto(w, "listCache")
  /\ UNCHANGED <<argo, kube, cached, fresh, queue, mtx, item, held, unseen, troubles>>

ListApps(w) ==
  LET known  == plan[w].clusters
      tag(c) == Tag(c, known[c].ann)
  IN
  /\ pc[w] = "listApps"
  /\ plan' = [plan EXCEPT
       ![w].users = [p \in Profiles |-> {c \in DOMAIN known : p \in tag(c)}],
       ![w].ann   = [c \in {d \in DOMAIN known : tag(d) # known[d].ann} |-> tag(c)]]
  /\ Goto(w, "listCache")
  /\ UNCHANGED <<argo, kube, cached, fresh, queue, mtx, item, held, unseen, troubles>>

Health(invalid) == IF invalid = {} THEN "healthy" ELSE "degraded"

(* Mutant of ListCache: writes without comparing. *)
ListCacheBlind(w) ==
  LET valid      == {a \in Apps : cached.appSet[a].exists}
      profs      == {p \in Profiles : cached.profile[p].exists}
      targets(a) == UNION {plan[w].users[p] :
                             p \in {q \in profs : a \in cached.profile[q].apps}}
  IN
  /\ pc[w] = "listCache"
  /\ plan' = [plan EXCEPT
       ![w].invalid = [p \in profs |-> cached.profile[p].apps \ valid],
       ![w].elems   = [a \in valid |-> targets(a)]]
  /\ held' = [held EXCEPT ![w] = fresh]
  /\ Goto(w, "write")
  /\ UNCHANGED <<argo, kube, cached, fresh, queue, mtx, item, unseen, troubles>>

(* The two lists read caches of unrelated objects and are one step.  What  *)
(* follows from them is computed here; what already is as it should be is  *)
(* not written.                                                            *)
ListCache(w) ==
  LET valid      == {a \in Apps : cached.appSet[a].exists}
      profs      == {p \in Profiles : cached.profile[p].exists}
      invalid(p) == cached.profile[p].apps \ valid
      dirty(p)   == \/ cached.profile[p].invalid # invalid(p)
                    \/ cached.profile[p].health # Health(invalid(p))
      targets(a) == UNION {plan[w].users[p] :
                             p \in {q \in profs : a \in cached.profile[q].apps}}
  IN
  /\ pc[w] = "listCache"
  /\ plan' = [plan EXCEPT
       ![w].invalid = [p \in {q \in profs : dirty(q)} |-> invalid(p)],
       ![w].elems   = [a \in {b \in valid : targets(b) # DOMAIN cached.appSet[b].elems}
                         |-> targets(a)]]
  /\ held' = [held EXCEPT ![w] = fresh]
  /\ Goto(w, "write")
  /\ UNCHANGED <<argo, kube, cached, fresh, queue, mtx, item, unseen, troubles>>

Without(f, x) == Restrict(f, DOMAIN f \ {x})

(* ArgoCD's update of a cluster knows no resourceVersion. *)
TagCluster(w) ==
  /\ pc[w] = "write"
  /\ \E c \in DOMAIN plan[w].ann :
       IF argoCluster[c].exists
       THEN /\ argoCluster' = [argoCluster EXCEPT ![c].ann = plan[w].ann[c]]
            /\ plan' = [plan EXCEPT ![w].ann = Without(@, c)]
            /\ UNCHANGED <<mtx, pc, item, queue, held>>
       ELSE /\ Return(w, TRUE)
            /\ held' = [held EXCEPT ![w] = {}]
            /\ UNCHANGED argoCluster
  /\ UNCHANGED <<clusterApp, kube, cached, fresh, unseen, troubles>>

(* Mutant of ReportProfile: the status is written whatever the version. *)
ReportProfileUnversioned(w) ==
  /\ pc[w] = "write"
  /\ DOMAIN plan[w].ann = {}
  /\ \E p \in DOMAIN plan[w].invalid :
       /\ profile[p].exists
       /\ profile' = [profile EXCEPT
                        ![p].invalid = plan[w].invalid[p],
                        ![p].health  = Health(plan[w].invalid[p])]
       /\ Stale(p)
       /\ plan' = [plan EXCEPT ![w].invalid = Without(@, p)]
  /\ UNCHANGED <<argo, appSet, cached, queue, mtx, pc, item, unseen, troubles>>

ReportProfile(w) ==
  /\ pc[w] = "write"
  /\ DOMAIN plan[w].ann = {}
  /\ \E p \in DOMAIN plan[w].invalid :
       IF p \in held[w]
       THEN /\ profile' = [profile EXCEPT
                 ![p].invalid = plan[w].invalid[p],
                 ![p].health  = Health(plan[w].invalid[p])]
            /\ Stale(p)
            /\ plan' = [plan EXCEPT ![w].invalid = Without(@, p)]
            /\ UNCHANGED <<mtx, pc, item, queue>>
       ELSE /\ Return(w, TRUE)
            /\ held' = [held EXCEPT ![w] = {}]
            /\ UNCHANGED <<profile, fresh>>
  /\ UNCHANGED <<argo, appSet, cached, unseen, troubles>>

(* A Go map answers a key it does not have with the empty string. *)
ServerOf(known, c) == IF c \in DOMAIN known THEN known[c].server ELSE Nothing

WriteAppSet(w) ==
  /\ pc[w] = "write"
  /\ DOMAIN plan[w].ann = {} /\ DOMAIN plan[w].invalid = {}
  /\ \E a \in DOMAIN plan[w].elems :
       IF a \in held[w]
       THEN /\ appSet' = [appSet EXCEPT ![a].elems =
                  [c \in plan[w].elems[a] |-> ServerOf(plan[w].clusters, c)]]
            /\ Stale(a)
            /\ plan' = [plan EXCEPT ![w].elems = Without(@, a)]
            /\ UNCHANGED <<mtx, pc, item, queue>>
       ELSE /\ Return(w, TRUE)
            /\ held' = [held EXCEPT ![w] = {}]
            /\ UNCHANGED <<appSet, fresh>>
  /\ UNCHANGED <<argo, profile, cached, unseen, troubles>>

Done(w) ==
  /\ pc[w] = "write"
  /\ DOMAIN plan[w].ann = {} /\ DOMAIN plan[w].invalid = {} /\ DOMAIN plan[w].elems = {}
  /\ Return(w, FALSE)
  /\ held' = [held EXCEPT ![w] = {}]
  /\ UNCHANGED <<argo, kube, cached, fresh, unseen, troubles>>

-----------------------------------------------------------------------------
(* The informers, the process and the users *)

(* A watch delivers an object as it now is, and queues it. *)
Deliver(x) ==
  /\ x \notin fresh
  /\ cached' = IF x \in Profiles THEN [cached EXCEPT !.profile[x] = profile[x]]
                                 ELSE [cached EXCEPT !.appSet[x] = appSet[x]]
  /\ fresh' = fresh \cup {x}
  /\ queue' = queue \cup {x}
  /\ UNCHANGED <<argo, kube, worker, unseen, troubles>>

Restart ==
  /\ Trouble
  /\ cached' = [profile |-> profile, appSet |-> appSet]
  /\ fresh' = Objects
  /\ queue' = Existing
  /\ mtx' = Nothing
  /\ pc' = [w \in Workers |-> "idle"]
  /\ item' = [w \in Workers |-> Nothing]
  /\ plan' = [w \in Workers |-> NoPlan]
  /\ held' = [w \in Workers |-> {}]
  /\ UNCHANGED <<argo, kube, unseen>>

User == Trouble /\ UNCHANGED <<cached, mtx, pc, item, plan>>

(* Cluster apps: each change is an event of the application controller. *)
EditClusterApp(c) ==
  /\ User
  /\ \E r \in {NoApp} \cup [exists : {TRUE}, ann : Annotations] :
       /\ r # clusterApp[c]
       /\ clusterApp' = [clusterApp EXCEPT ![c] = r]
  /\ queue' = queue \cup {c}
  /\ UNCHANGED <<argoCluster, kube, fresh, held, unseen>>

(* ArgoCD clusters are registered, unregistered and, if they are external, *)
(* annotated: nothing watches them.                                        *)
EditArgoCluster(c) ==
  /\ User
  /\ \E r \in ArgoCluster :
       /\ r # argoCluster[c]
       /\ ~r.exists => argoCluster[c].exists /\ r.ann = {} /\ r.server = argoCluster[c].server
       /\ argoCluster[c].exists => r.server = argoCluster[c].server
       /\ argoCluster' = [argoCluster EXCEPT ![c] = r]
  /\ unseen' = TRUE
  /\ UNCHANGED <<clusterApp, kube, fresh, queue, held>>

EditProfile(p) ==
  /\ User
  /\ \E S \in SUBSET Apps :
       profile' = [profile EXCEPT ![p] =
         IF profile[p].exists THEN [@ EXCEPT !.apps = S]
                              ELSE [NoProfile EXCEPT !.exists = TRUE, !.apps = S]]
  /\ profile' # profile
  /\ Stale(p)
  /\ UNCHANGED <<argo, appSet, queue, unseen>>

DeleteProfile(p) ==
  /\ User
  /\ profile[p].exists
  /\ profile' = [profile EXCEPT ![p] = NoProfile]
  /\ Stale(p)
  /\ UNCHANGED <<argo, appSet, queue, unseen>>

(* app.Create's ApplicationSet has no elements. *)
ToggleApp(a) ==
  /\ User
  /\ appSet' = [appSet EXCEPT ![a] =
       IF appSet[a].exists THEN NoAppSet ELSE [NoAppSet EXCEPT !.exists = TRUE]]
  /\ Stale(a)
  /\ UNCHANGED <<argo, profile, queue, unseen>>

-----------------------------------------------------------------------------

Pass(w) ==
  \/ ListClusters(w) \/ ListApps(w) \/ ListCache(w)
  \/ TagCluster(w) \/ ReportProfile(w) \/ WriteAppSet(w) \/ Done(w) \/ Fail(w)

Next ==
  \/ \E w \in Workers : Pass(w) \/ \E x \in Keys(w) : Take(w, x)
  \/ \E x \in Objects : Deliver(x)
  \/ \E c \in Clusters : EditClusterApp(c) \/ EditArgoCluster(c)
  \/ \E p \in Profiles : EditProfile(p) \/ DeleteProfile(p)
  \/ \E a \in Apps : ToggleApp(a)
  \/ Restart

Spec == Init /\ [][Next]_vars

(* Workers take items and a Go mutex starves none of them; calls end and   *)
(* watches deliver.                                                        *)
Fairness ==
  /\ \A w \in Workers :
       WF_vars(Pass(w)) /\ SF_vars(\E x \in Keys(w) : Take(w, x))
  /\ WF_vars(\E x \in Objects : Deliver(x))

FairSpec == Spec /\ Fairness

=============================================================================
