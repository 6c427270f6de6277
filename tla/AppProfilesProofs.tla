--------------------------- MODULE AppProfilesProofs ---------------------------
(* No event of app delivery is lost, for every set of clusters, profiles,  *)
(* apps and servers and any number of changes, failures and crashes.       *)
EXTENDS AppProfilesProperties, TLAPS

-----------------------------------------------------------------------------
(* The inductive invariant *)

(* Passes exclude one another: the worker in one holds the mutex, and will *)
(* queue its item again if the pass fails.                                 *)
OnePass ==
  \A w \in Workers :
    /\ pc[w] # "idle" <=> mtx = w
    /\ pc[w] # "idle" => item[w] \in Keys(w)

(* A plan is about the clusters that the pass has found, and empty where   *)
(* nothing has been found yet.                                             *)
PlansOK ==
  \A w \in Workers :
    /\ pc[w] \in {"idle", "listClusters"} => plan[w] = NoPlan
    /\ \A p \in Profiles : plan[w].users[p] \subseteq DOMAIN plan[w].clusters
    /\ \A a \in DOMAIN plan[w].elems : plan[w].elems[a] \subseteq DOMAIN plan[w].clusters

(* A copy in the cache that counts as current is. *)
CopiesOK ==
  /\ \A p \in Profiles \cap fresh : cached.profile[p] = profile[p]
  /\ \A a \in Apps \cap fresh : cached.appSet[a] = appSet[a]

(* What a pass is going to write on a current copy fits the object.        *)
HeldOK ==
  \A w \in Workers :
    /\ \A p \in DOMAIN plan[w].invalid \cap held[w] :
         profile[p].exists /\ plan[w].invalid[p] \subseteq profile[p].apps
    /\ \A a \in DOMAIN plan[w].elems \cap held[w] : appSet[a].exists

(* Nothing is written to an object that is gone. *)
GoneOK ==
  /\ \A p \in Profiles : ~profile[p].exists => profile[p] = NoProfile
  /\ \A a \in Apps : ~appSet[a].exists => appSet[a] = NoAppSet

(* What makes another pass certain, or excuses that there is none. *)
Waking == queue # {} \/ fresh # Objects \/ unseen

Annotated(c) == argoCluster[c].ann = Tag(c, argoCluster[c].ann)
Listed(a)    == appSet[a].exists => DOMAIN appSet[a].elems = Targets(a)
Reported(p)  ==
  profile[p].exists =>
    /\ profile[p].invalid = {a \in profile[p].apps : ~appSet[a].exists}
    /\ profile[p].health = Health(profile[p].invalid)

(* What a pass found is still so ... *)
ClustersKnown(w) == plan[w].clusters = Restrict(argoCluster, Registered)
UsersKnown(w) ==
  plan[w].users = [p \in Profiles |->
                     {c \in Registered : p \in Tag(c, argoCluster[c].ann)}]

(* ... and all that is not as it should be, it is going to write. *)
TagsPlanned(w) ==
  \A c \in Registered :
    /\ c \in DOMAIN plan[w].ann => plan[w].ann[c] = Tag(c, argoCluster[c].ann)
    /\ c \notin DOMAIN plan[w].ann => Annotated(c)
WritesPlanned(w) ==
  /\ \A a \in Apps \ DOMAIN plan[w].elems : Listed(a)
  /\ \A p \in Profiles \ DOMAIN plan[w].invalid : Reported(p)

OnTrack(w) ==
  /\ pc[w] \in {"listApps", "listCache"} => ClustersKnown(w)
  /\ pc[w] = "listCache" => UsersKnown(w)
  /\ pc[w] \in {"listCache", "write"} => TagsPlanned(w)
  /\ pc[w] = "write" => WritesPlanned(w)

(* Another pass will come, or the one that runs leaves nothing to be done, *)
(* or nothing is to be done.                                               *)
NothingLost ==
  \/ Waking
  \/ mtx = Nothing /\ Consistent
  \/ \E w \in Workers : mtx = w /\ OnTrack(w)

DeliveryInv ==
  TypeOK /\ OnePass /\ PlansOK /\ CopiesOK /\ HeldOK /\ GoneOK /\ NothingLost

-----------------------------------------------------------------------------
(* Types *)

(* The functions from some of the keys in K to values in T. *)
Partial(K, T) == UNION {[D -> T] : D \in SUBSET K}

(* A function is one of these by its domain and its values. *)
LEMMA PartialIs ==
  ASSUME NEW K, NEW T, NEW D \in SUBSET K, NEW f \in [D -> T]
  PROVE  f \in Partial(K, T)
  BY DEF Partial

(* Its domain is among the keys, its values are of the type. *)
LEMMA PartialHas ==
  ASSUME NEW K, NEW T, NEW f \in Partial(K, T)
  PROVE  DOMAIN f \subseteq K /\ f \in [DOMAIN f -> T]
  BY DEF Partial

(* What is restricted is still one of these. *)
LEMMA PartialWithout ==
  ASSUME NEW K, NEW T, NEW f \in Partial(K, T), NEW x
  PROVE  /\ Without(f, x) \in Partial(K, T)
         /\ DOMAIN Without(f, x) = DOMAIN f \ {x}
         /\ \A y \in DOMAIN f \ {x} : Without(f, x)[y] = f[y]
<1>1. DOMAIN f \subseteq K /\ f \in [DOMAIN f -> T]
  BY PartialHas
<1>2. Without(f, x) \in [DOMAIN f \ {x} -> T]
  BY <1>1 DEF Without, Restrict
<1> QED
  BY <1>1, <1>2, PartialIs DEF Without, Restrict

(* The types of a plan and of an ApplicationSet in these terms. *)
LEMMA PlanTypes ==
  /\ Plans = [ clusters : Partial(Clusters, ArgoCluster),
               users   : [Profiles -> SUBSET Clusters],
               ann     : Partial(Clusters, Annotations),
               invalid : Partial(Profiles, SUBSET Apps),
               elems   : Partial(Apps, SUBSET Clusters) ]
  /\ Elements = Partial(Clusters, Servers)
  BY DEF Plans, Elements, Partial

(* The empty function, plan, profile and ApplicationSet are typed. *)
LEMMA EmptyTypes ==
  /\ DOMAIN Empty = {}
  /\ NoPlan \in Plans
  /\ NoApp \in ClusterApp /\ NoProfile \in Profile /\ NoAppSet \in AppSet
<1>1. \A K, T : Empty \in Partial(K, T)
  BY DEF Empty, Partial
<1>2. NoAppSet \in AppSet
  BY <1>1, PlanTypes DEF AppSet, NoAppSet
<1>3. NoApp \in ClusterApp /\ NoProfile \in Profile
  BY DEF ClusterApp, Annotations, NoApp, Profile, NoProfile
<1> QED
  BY <1>1, <1>2, <1>3, PlanTypes DEF Empty, NoPlan

(* A worker's plan with one of its fields replaced is a plan, the other    *)
(* fields and the other workers' plans stay.                               *)
LEMMA PlanEdits ==
  ASSUME plan \in [Workers -> Plans], NEW w \in Workers
  PROVE  /\ \A k \in Partial(Clusters, ArgoCluster) :
              [plan EXCEPT ![w].clusters = k] \in [Workers -> Plans]
         /\ \A u \in [Profiles -> SUBSET Clusters], n \in Partial(Clusters, Annotations) :
              [plan EXCEPT ![w].users = u, ![w].ann = n] \in [Workers -> Plans]
         /\ \A i \in Partial(Profiles, SUBSET Apps), e \in Partial(Apps, SUBSET Clusters) :
              [plan EXCEPT ![w].invalid = i, ![w].elems = e] \in [Workers -> Plans]
         /\ \A n \in Partial(Clusters, Annotations) :
              [plan EXCEPT ![w].ann = n] \in [Workers -> Plans]
         /\ \A i \in Partial(Profiles, SUBSET Apps) :
              [plan EXCEPT ![w].invalid = i] \in [Workers -> Plans]
         /\ \A e \in Partial(Apps, SUBSET Clusters) :
              [plan EXCEPT ![w].elems = e] \in [Workers -> Plans]
<1>1. plan[w] \in Plans
  OBVIOUS
<1> QED
  BY <1>1, PlanTypes

(* The end of a pass, with an error or without, keeps the worker's types;  *)
(* an item that is queued again is one.                                    *)
LEMMA ReturnTypes ==
  ASSUME TypeOK, OnePass, NEW w \in Workers, pc[w] # "idle",
         NEW again \in BOOLEAN, Return(w, again)
  PROVE  /\ queue' \subseteq Items /\ mtx' \in Workers \cup {Nothing}
         /\ pc' \in [Workers -> Steps] /\ item' \in [Workers -> Items \cup {Nothing}]
         /\ plan' \in [Workers -> Plans]
<1>1. item[w] \in Items
  BY DEF OnePass, Keys, Workers, Items, Objects
<1> QED
  BY <1>1, EmptyTypes DEF TypeOK, Return, Goto, Steps

(* Stale keeps the types of what it changes. *)
LEMMA StaleTypes ==
  ASSUME TypeOK, NEW x, Stale(x)
  PROVE  fresh' \subseteq Objects /\ held' \in [Workers -> SUBSET Objects]
  BY DEF TypeOK, Stale

(* What a pass reads and decides is a plan. *)
LEMMA ReadingTypes ==
  ASSUME TypeOK, PlansOK, NEW w \in Workers
  PROVE  ListClusters(w) \/ ListApps(w) \/ ListCache(w) => TypeOK'
<1> DEFINE known == plan[w].clusters
<1>1. /\ known \in Partial(Clusters, ArgoCluster) /\ DOMAIN known \subseteq Clusters
      /\ known \in [DOMAIN known -> ArgoCluster]
  <2>1. plan[w] \in Plans
    BY DEF TypeOK
  <2> QED
    BY <2>1, PlanTypes, PartialHas
<1>2. CASE ListClusters(w)
  <2> DEFINE k == Restrict(argoCluster, {c \in Clusters : argoCluster[c].exists})
  <2>1. k \in Partial(Clusters, ArgoCluster)
    <3>1. k \in [{c \in Clusters : argoCluster[c].exists} -> ArgoCluster]
      BY DEF TypeOK, Restrict
    <3> QED
      BY <3>1, PartialIs
  <2>2. plan' = [plan EXCEPT ![w].clusters = k]
    BY <1>2 DEF ListClusters
  <2>3. plan' \in [Workers -> Plans]
    BY <2>1, <2>2, PlanEdits DEF TypeOK
  <2> QED
    BY <1>2, <2>3 DEF TypeOK, ListClusters, Goto, Steps, argo, kube
<1>3. CASE ListApps(w)
  <2> DEFINE tag(c) == Tag(c, known[c].ann)
             u == [p \in Profiles |-> {c \in DOMAIN known : p \in tag(c)}]
             n == [c \in {d \in DOMAIN known : tag(d) # known[d].ann} |-> tag(c)]
  <2>1. \A c \in DOMAIN known : tag(c) \in Annotations
    BY <1>1 DEF Tag, TypeOK, ClusterApp, ArgoCluster
  <2>2. u \in [Profiles -> SUBSET Clusters]
    BY <1>1
  <2>3. n \in Partial(Clusters, Annotations)
    <3>1. n \in [{d \in DOMAIN known : tag(d) # known[d].ann} -> Annotations]
      BY <2>1
    <3> QED
      BY <1>1, <3>1, PartialIs
  <2>4. plan' = [plan EXCEPT ![w].users = u, ![w].ann = n]
    BY <1>3 DEF ListApps
  <2>5. plan' \in [Workers -> Plans]
    BY <2>2, <2>3, <2>4, PlanEdits DEF TypeOK
  <2> QED
    BY <1>3, <2>5 DEF TypeOK, ListApps, Goto, Steps, argo, kube
<1>4. CASE ListCache(w)
  <2> DEFINE valid      == {a \in Apps : cached.appSet[a].exists}
             profs      == {p \in Profiles : cached.profile[p].exists}
             invalid(p) == cached.profile[p].apps \ valid
             dirty(p)   == \/ cached.profile[p].invalid # invalid(p)
                           \/ cached.profile[p].health # Health(invalid(p))
             targets(a) == UNION {plan[w].users[p] :
                                    p \in {q \in profs : a \in cached.profile[q].apps}}
             i == [p \in {q \in profs : dirty(q)} |-> invalid(p)]
             e == [a \in {b \in valid : targets(b) # DOMAIN cached.appSet[b].elems}
                     |-> targets(a)]
  <2>1. \A p \in Profiles : invalid(p) \in SUBSET Apps
    BY DEF TypeOK, Profile
  <2>2. \A a : targets(a) \in SUBSET Clusters
    BY <1>1 DEF PlansOK
  <2>3. i \in Partial(Profiles, SUBSET Apps)
    <3>1. i \in [{q \in profs : dirty(q)} -> SUBSET Apps]
      BY <2>1
    <3> QED
      BY <3>1, PartialIs
  <2>4. e \in Partial(Apps, SUBSET Clusters)
    <3>1. e \in [{b \in valid : targets(b) # DOMAIN cached.appSet[b].elems} -> SUBSET Clusters]
      BY <2>2
    <3> QED
      BY <3>1, PartialIs
  <2>5. plan' = [plan EXCEPT ![w].invalid = i, ![w].elems = e]
    BY <1>4 DEF ListCache
  <2>6. plan' \in [Workers -> Plans]
    BY <2>3, <2>4, <2>5, PlanEdits DEF TypeOK
  <2> QED
    BY <1>4, <2>6 DEF TypeOK, ListCache, Goto, Steps, argo, kube
<1> QED
  BY <1>2, <1>3, <1>4

(* So is what is left of it after a write, and what is written is typed.   *)
LEMMA WritingTypes ==
  ASSUME TypeOK, OnePass, PlansOK, NEW w \in Workers
  PROVE  TagCluster(w) \/ ReportProfile(w) \/ WriteAppSet(w) => TypeOK'
<1>1. /\ plan[w].ann \in Partial(Clusters, Annotations)
      /\ plan[w].invalid \in Partial(Profiles, SUBSET Apps)
      /\ plan[w].elems \in Partial(Apps, SUBSET Clusters)
      /\ plan[w].clusters \in Partial(Clusters, ArgoCluster)
  <2>1. plan[w] \in Plans
    BY DEF TypeOK
  <2> QED
    BY <2>1, PlanTypes
<1>2. held \in [Workers -> SUBSET Objects]
        => [held EXCEPT ![w] = {}] \in [Workers -> SUBSET Objects]
  OBVIOUS
<1>3. ASSUME pc[w] # "idle", Return(w, TRUE), held' = [held EXCEPT ![w] = {}],
             UNCHANGED <<argo, kube, cached, fresh, unseen, troubles>>
      PROVE  TypeOK'
  <2>1. TRUE \in BOOLEAN
    OBVIOUS
  <2>2. /\ queue' \subseteq Items /\ mtx' \in Workers \cup {Nothing}
        /\ pc' \in [Workers -> Steps] /\ item' \in [Workers -> Items \cup {Nothing}]
        /\ plan' \in [Workers -> Plans]
    BY <1>3, <2>1, ReturnTypes
  <2> QED
    BY <1>2, <1>3, <2>2 DEF TypeOK, argo, kube
<1>4. CASE TagCluster(w)
  <2>1. PICK c \in DOMAIN plan[w].ann :
          IF argoCluster[c].exists
          THEN /\ argoCluster' = [argoCluster EXCEPT ![c].ann = plan[w].ann[c]]
               /\ plan' = [plan EXCEPT ![w].ann = Without(@, c)]
               /\ UNCHANGED <<mtx, pc, item, queue, held>>
          ELSE /\ Return(w, TRUE)
               /\ held' = [held EXCEPT ![w] = {}]
               /\ UNCHANGED argoCluster
    BY <1>4 DEF TagCluster
  <2>2. CASE ~argoCluster[c].exists
    BY <1>3, <1>4, <2>1, <2>2 DEF TagCluster, argo, kube
  <2>3. CASE argoCluster[c].exists
    <3>1. c \in Clusters /\ plan[w].ann[c] \in Annotations
      BY <1>1, PartialHas
    <3>2. argoCluster' \in [Clusters -> ArgoCluster]
      BY <2>1, <2>3, <3>1 DEF TypeOK, ArgoCluster
    <3>3. Without(plan[w].ann, c) \in Partial(Clusters, Annotations)
      BY <1>1, PartialWithout
    <3>4. plan' = [plan EXCEPT ![w].ann = Without(plan[w].ann, c)]
      BY <2>1, <2>3
    <3>5. plan' \in [Workers -> Plans]
      BY <3>3, <3>4, PlanEdits DEF TypeOK
    <3> QED
      BY <1>4, <2>1, <2>3, <3>2, <3>5 DEF TypeOK, TagCluster, kube
  <2> QED
    BY <2>2, <2>3
<1>5. CASE ReportProfile(w)
  <2>1. PICK p \in DOMAIN plan[w].invalid :
          IF p \in held[w]
          THEN /\ profile' = [profile EXCEPT
                    ![p].invalid = plan[w].invalid[p],
                    ![p].health  = Health(plan[w].invalid[p])]
               /\ Stale(p)
               /\ plan' = [plan EXCEPT ![w].invalid = Without(@, p)]
               /\ UNCHANGED <<mtx, pc, item, queue>>
          ELSE /\ Return(w, TRUE)
               /\ held' = [held EXCEPT ![w] = {}]
               /\ UNCHANGED <<profile, fresh>>
    BY <1>5 DEF ReportProfile
  <2>2. CASE p \notin held[w]
    BY <1>3, <1>5, <2>1, <2>2 DEF ReportProfile, argo, kube
  <2>3. CASE p \in held[w]
    <3>1. p \in Profiles /\ plan[w].invalid[p] \in SUBSET Apps
      BY <1>1, PartialHas
    <3>2. profile' \in [Profiles -> Profile]
      <4> DEFINE i == plan[w].invalid[p]
                 h == Health(i)
                 r == [profile[p] EXCEPT !.invalid = i, !.health = h]
      <4>1. i \in SUBSET Apps /\ h \in {"", "healthy", "degraded"}
        BY <3>1 DEF Health
      <4>2. profile[p] \in Profile
        BY <3>1 DEF TypeOK
      <4> HIDE DEF i, h
      <4>3. r \in Profile
        BY <4>1, <4>2 DEF Profile
      <4>4. profile' = [profile EXCEPT ![p] = r]
        BY <2>1, <2>3 DEF i, h
      <4> QED
        BY <3>1, <4>3, <4>4 DEF TypeOK
    <3>3. Without(plan[w].invalid, p) \in Partial(Profiles, SUBSET Apps)
      BY <1>1, PartialWithout
    <3>4. plan' = [plan EXCEPT ![w].invalid = Without(plan[w].invalid, p)]
      BY <2>1, <2>3
    <3>5. plan' \in [Workers -> Plans]
      BY <3>3, <3>4, PlanEdits DEF TypeOK
    <3>6. fresh' \subseteq Objects /\ held' \in [Workers -> SUBSET Objects]
      BY <2>1, <2>3, StaleTypes
    <3> QED
      BY <1>5, <2>1, <2>3, <3>2, <3>5, <3>6 DEF TypeOK, ReportProfile, argo
  <2> QED
    BY <2>2, <2>3
<1>6. CASE WriteAppSet(w)
  <2>1. PICK a \in DOMAIN plan[w].elems :
          IF a \in held[w]
          THEN /\ appSet' = [appSet EXCEPT ![a].elems =
                     [c \in plan[w].elems[a] |-> ServerOf(plan[w].clusters, c)]]
               /\ Stale(a)
               /\ plan' = [plan EXCEPT ![w].elems = Without(@, a)]
               /\ UNCHANGED <<mtx, pc, item, queue>>
          ELSE /\ Return(w, TRUE)
               /\ held' = [held EXCEPT ![w] = {}]
               /\ UNCHANGED <<appSet, fresh>>
    BY <1>6 DEF WriteAppSet
  <2>2. CASE a \notin held[w]
    BY <1>3, <1>6, <2>1, <2>2 DEF WriteAppSet, argo, kube
  <2>3. CASE a \in held[w]
    <3> DEFINE e == [c \in plan[w].elems[a] |-> ServerOf(plan[w].clusters, c)]
    <3>1. /\ a \in Apps /\ plan[w].elems[a] \subseteq Clusters
          /\ plan[w].elems[a] \subseteq DOMAIN plan[w].clusters
          /\ plan[w].clusters \in [DOMAIN plan[w].clusters -> ArgoCluster]
      BY <1>1, PartialHas DEF PlansOK
    <3>2. e \in [plan[w].elems[a] -> Servers]
      BY <3>1 DEF ServerOf, ArgoCluster
    <3>3. e \in Elements
      BY <3>1, <3>2, PartialIs, PlanTypes
    <3> HIDE DEF e
    <3>4. appSet' = [appSet EXCEPT ![a].elems = e]
      BY <2>1, <2>3 DEF e
    <3>5. appSet' \in [Apps -> AppSet]
      BY <3>1, <3>3, <3>4 DEF TypeOK, AppSet
    <3>6. Without(plan[w].elems, a) \in Partial(Apps, SUBSET Clusters)
      BY <1>1, PartialWithout
    <3>7. plan' = [plan EXCEPT ![w].elems = Without(plan[w].elems, a)]
      BY <2>1, <2>3
    <3>8. plan' \in [Workers -> Plans]
      BY <3>6, <3>7, PlanEdits DEF TypeOK
    <3>9. fresh' \subseteq Objects /\ held' \in [Workers -> SUBSET Objects]
      BY <2>1, <2>3, StaleTypes
    <3> QED
      BY <1>6, <2>1, <2>3, <3>5, <3>8, <3>9 DEF TypeOK, WriteAppSet, argo
  <2> QED
    BY <2>2, <2>3
<1> QED
  BY <1>4, <1>5, <1>6

(* What the users and the process do keeps the types. *)
LEMMA OutsideTypes ==
  ASSUME TypeOK
  PROVE  /\ \A x \in Objects : Deliver(x) => TypeOK'
         /\ \A c \in Clusters : EditClusterApp(c) \/ EditArgoCluster(c) => TypeOK'
         /\ \A p \in Profiles : EditProfile(p) \/ DeleteProfile(p) => TypeOK'
         /\ \A a \in Apps : ToggleApp(a) => TypeOK'
         /\ Restart => TypeOK'
<1>1. Trouble => troubles' \in 0 .. MaxTroubles
  BY TroublesAssumption DEF Trouble, TypeOK
<1>2. ASSUME NEW x \in Objects, Deliver(x)
      PROVE  TypeOK'
  <2>1. fresh' \subseteq Objects /\ queue' \subseteq Items
    BY <1>2 DEF TypeOK, Deliver, Objects, Items
  <2>2. cached' \in [profile : [Profiles -> Profile], appSet : [Apps -> AppSet]]
    <3>1. CASE x \in Profiles
      BY <1>2, <3>1 DEF TypeOK, Deliver
    <3>2. CASE x \in Apps
      BY <1>2, <3>2, KeysAssumption DEF TypeOK, Deliver
    <3> QED
      BY <3>1, <3>2 DEF Objects
  <2> QED
    BY <1>2, <2>1, <2>2 DEF TypeOK, Deliver, argo, kube, worker
<1>3. ASSUME NEW c \in Clusters, EditClusterApp(c)
      PROVE  TypeOK'
  <2>1. \A r \in {NoApp} \cup [exists : {TRUE}, ann : Annotations] : r \in ClusterApp
    BY EmptyTypes DEF ClusterApp
  <2>2. clusterApp' \in [Clusters -> ClusterApp]
    BY <1>3, <2>1 DEF TypeOK, EditClusterApp
  <2>3. queue' \subseteq Items
    BY <1>3 DEF TypeOK, EditClusterApp, Items
  <2> QED
    BY <1>1, <1>3, <2>2, <2>3 DEF TypeOK, EditClusterApp, User, kube
<1>4. ASSUME NEW c \in Clusters, EditArgoCluster(c)
      PROVE  TypeOK'
  <2>1. argoCluster' \in [Clusters -> ArgoCluster]
    BY <1>4 DEF TypeOK, EditArgoCluster
  <2> QED
    BY <1>1, <1>4, <2>1 DEF TypeOK, EditArgoCluster, User, kube
<1>5. ASSUME NEW p \in Profiles, EditProfile(p)
      PROVE  TypeOK'
  <2>1. ASSUME NEW S \in SUBSET Apps
        PROVE  /\ [profile[p] EXCEPT !.apps = S] \in Profile
               /\ [NoProfile EXCEPT !.exists = TRUE, !.apps = S] \in Profile
    BY EmptyTypes DEF TypeOK, Profile
  <2>2. profile' \in [Profiles -> Profile]
    BY <1>5, <2>1 DEF TypeOK, EditProfile
  <2>3. fresh' \subseteq Objects /\ held' \in [Workers -> SUBSET Objects]
    BY <1>5, StaleTypes DEF EditProfile
  <2> QED
    BY <1>1, <1>5, <2>2, <2>3 DEF TypeOK, EditProfile, User, argo
<1>6. ASSUME NEW p \in Profiles, DeleteProfile(p)
      PROVE  TypeOK'
  <2>1. fresh' \subseteq Objects /\ held' \in [Workers -> SUBSET Objects]
    BY <1>6, StaleTypes DEF DeleteProfile
  <2> QED
    BY <1>1, <1>6, <2>1, EmptyTypes DEF TypeOK, DeleteProfile, User, argo
<1>7. ASSUME NEW a \in Apps, ToggleApp(a)
      PROVE  TypeOK'
  <2>1. [NoAppSet EXCEPT !.exists = TRUE] \in AppSet
    BY EmptyTypes DEF AppSet
  <2>2. appSet' \in [Apps -> AppSet]
    BY <1>7, <2>1, EmptyTypes DEF TypeOK, ToggleApp
  <2>3. fresh' \subseteq Objects /\ held' \in [Workers -> SUBSET Objects]
    BY <1>7, StaleTypes DEF ToggleApp
  <2> QED
    BY <1>1, <1>7, <2>2, <2>3 DEF TypeOK, ToggleApp, User, argo
<1>8. ASSUME Restart
      PROVE  TypeOK'
  <2>1. queue' \subseteq Items
    BY <1>8 DEF Restart, Existing, Items, Objects
  <2>2. /\ cached' \in [profile : [Profiles -> Profile], appSet : [Apps -> AppSet]]
        /\ plan' \in [Workers -> Plans] /\ held' \in [Workers -> SUBSET Objects]
    BY <1>8, EmptyTypes DEF Restart, TypeOK
  <2> QED
    BY <1>1, <1>8, <2>1, <2>2 DEF TypeOK, Restart, Steps, argo, kube
<1> QED
  BY <1>2, <1>3, <1>4, <1>5, <1>6, <1>7, <1>8

(* Every step keeps the types. *)
LEMMA TypeStep == TypeOK /\ OnePass /\ PlansOK /\ [Next]_vars => TypeOK'
<1> SUFFICES ASSUME TypeOK, OnePass, PlansOK, [Next]_vars
             PROVE  TypeOK'
  OBVIOUS
<1>1. ASSUME NEW w \in Workers, NEW x \in Keys(w), Take(w, x)
      PROVE  TypeOK'
  <2>1. x \in Items
    BY <1>1 DEF Take, TypeOK
  <2> QED
    BY <1>1, <2>1 DEF TypeOK, Take, Goto, Steps, argo, kube
<1>2. ASSUME NEW w \in Workers, Done(w) \/ Fail(w)
      PROVE  TypeOK'
  <2>1. pc[w] # "idle" /\ \E again \in BOOLEAN : Return(w, again)
    BY <1>2 DEF Done, Fail
  <2>2. /\ queue' \subseteq Items /\ mtx' \in Workers \cup {Nothing}
        /\ pc' \in [Workers -> Steps] /\ item' \in [Workers -> Items \cup {Nothing}]
        /\ plan' \in [Workers -> Plans]
    BY <2>1, ReturnTypes
  <2>3. troubles' \in 0 .. MaxTroubles
    <3>1. UNCHANGED troubles \/ Trouble
      BY <1>2 DEF Done, Fail
    <3> QED
      BY <3>1, TroublesAssumption DEF TypeOK, Trouble
  <2>4. held' \in [Workers -> SUBSET Objects]
    <3>1. held' = [held EXCEPT ![w] = {}]
      BY <1>2 DEF Done, Fail
    <3> QED
      BY <3>1 DEF TypeOK
  <2>5. UNCHANGED <<argo, kube, cached, fresh, unseen>>
    BY <1>2 DEF Done, Fail
  <2> QED
    BY <2>2, <2>3, <2>4, <2>5 DEF TypeOK, argo, kube
<1>3. ASSUME NEW w \in Workers, Pass(w)
      PROVE  TypeOK'
  BY <1>2, <1>3, ReadingTypes, WritingTypes DEF Pass
<1>4. CASE UNCHANGED vars
  BY <1>4 DEF TypeOK, vars
<1> QED
  BY <1>1, <1>3, <1>4, OutsideTypes DEF Next

(* All starts in its type. *)
LEMMA TypeInit == Init => TypeOK
<1> SUFFICES ASSUME Init
             PROVE  TypeOK
  OBVIOUS
<1>1. /\ argoCluster \in [Clusters -> ArgoCluster]
      /\ clusterApp \in [Clusters -> ClusterApp]
  BY EmptyTypes DEF Init
<1>2. profile \in [Profiles -> Profile]
  <2>1. \A S \in SUBSET Apps : [NoProfile EXCEPT !.exists = TRUE, !.apps = S] \in Profile
    BY EmptyTypes DEF Profile
  <2> DEFINE R == {NoProfile} \cup
                    {[NoProfile EXCEPT !.exists = TRUE, !.apps = S] : S \in SUBSET Apps}
  <2>2. R \subseteq Profile
    BY <2>1, EmptyTypes
  <2>3. profile \in [Profiles -> R]
    BY DEF Init
  <2> QED
    BY <2>2, <2>3
<1>3. appSet \in [Apps -> AppSet]
  <2>1. ASSUME NEW C \in SUBSET Clusters
        PROVE  [exists |-> TRUE, elems |-> [c \in C |-> argoCluster[c].server]] \in AppSet
    <3>1. [c \in C |-> argoCluster[c].server] \in [C -> Servers]
      BY <1>1 DEF ArgoCluster
    <3>2. [c \in C |-> argoCluster[c].server] \in Elements
      BY <3>1, PartialIs, PlanTypes
    <3> QED
      BY <3>2 DEF AppSet
  <2> DEFINE R == {NoAppSet} \cup
                    {[exists |-> TRUE, elems |-> [c \in C |-> argoCluster[c].server]] :
                       C \in SUBSET Clusters}
  <2>2. R \subseteq AppSet
    BY <2>1, EmptyTypes
  <2>3. appSet \in [Apps -> R]
    BY DEF Init
  <2> QED
    BY <2>2, <2>3
<1>4. /\ queue \subseteq Items /\ fresh \subseteq Objects
      /\ cached \in [profile : [Profiles -> Profile], appSet : [Apps -> AppSet]]
  BY <1>2, <1>3 DEF Init, Existing, Items, Objects
<1>5. /\ plan \in [Workers -> Plans] /\ held \in [Workers -> SUBSET Objects]
      /\ item \in [Workers -> Items \cup {Nothing}] /\ pc \in [Workers -> Steps]
  BY EmptyTypes DEF Init, Steps
<1>6. troubles \in 0 .. MaxTroubles /\ mtx \in Workers \cup {Nothing} /\ unseen \in BOOLEAN
  <2>1. 0 \in 0 .. MaxTroubles
    BY TroublesAssumption
  <2> QED
    BY <2>1 DEF Init
<1> QED
  BY <1>1, <1>2, <1>3, <1>4, <1>5, <1>6 DEF TypeOK

-----------------------------------------------------------------------------
(* What the calls of a pass do to its plan *)

(* The field of a worker's plan that is replaced changes, and no other. *)
LEMMA PlanFields ==
  ASSUME plan \in [Workers -> Plans], NEW w \in Workers
  PROVE  /\ \A k : plan' = [plan EXCEPT ![w].clusters = k] =>
              /\ plan'[w].clusters = k /\ plan'[w].users = plan[w].users
              /\ plan'[w].ann = plan[w].ann /\ plan'[w].invalid = plan[w].invalid
              /\ plan'[w].elems = plan[w].elems
         /\ \A u, n : plan' = [plan EXCEPT ![w].users = u, ![w].ann = n] =>
              /\ plan'[w].users = u /\ plan'[w].ann = n
              /\ plan'[w].clusters = plan[w].clusters
              /\ plan'[w].invalid = plan[w].invalid /\ plan'[w].elems = plan[w].elems
         /\ \A i, e : plan' = [plan EXCEPT ![w].invalid = i, ![w].elems = e] =>
              /\ plan'[w].invalid = i /\ plan'[w].elems = e
              /\ plan'[w].clusters = plan[w].clusters
              /\ plan'[w].users = plan[w].users /\ plan'[w].ann = plan[w].ann
         /\ \A n : plan' = [plan EXCEPT ![w].ann = n] =>
              /\ plan'[w].ann = n /\ plan'[w].clusters = plan[w].clusters
              /\ plan'[w].users = plan[w].users
              /\ plan'[w].invalid = plan[w].invalid /\ plan'[w].elems = plan[w].elems
         /\ \A i : plan' = [plan EXCEPT ![w].invalid = i] =>
              /\ plan'[w].invalid = i /\ plan'[w].clusters = plan[w].clusters
              /\ plan'[w].users = plan[w].users
              /\ plan'[w].ann = plan[w].ann /\ plan'[w].elems = plan[w].elems
         /\ \A e : plan' = [plan EXCEPT ![w].elems = e] =>
              /\ plan'[w].elems = e /\ plan'[w].clusters = plan[w].clusters
              /\ plan'[w].users = plan[w].users
              /\ plan'[w].ann = plan[w].ann /\ plan'[w].invalid = plan[w].invalid
<1>1. plan[w] \in Plans
  OBVIOUS
<1> QED
  BY <1>1 DEF Plans

(* The calls touch the plan of their own worker only. *)
LEMMA OwnPlan ==
  ASSUME TypeOK, NEW w \in Workers, Pass(w)
  PROVE  \A v \in Workers \ {w} : plan'[v] = plan[v]
<1>1. \A z : [plan EXCEPT ![w] = z] = [v \in Workers |-> IF v = w THEN z ELSE plan[v]]
  BY DEF TypeOK
<1>2. \E z : plan' = [plan EXCEPT ![w] = z]
  BY DEF Pass, ListClusters, ListApps, ListCache, TagCluster, ReportProfile, WriteAppSet,
         Done, Fail, Return
<1> QED
  BY <1>1, <1>2

(* What a pass finds in ArgoCD ... *)
LEMMA ListClustersPlan ==
  ASSUME TypeOK, NEW w \in Workers, ListClusters(w)
  PROVE  /\ plan'[w].clusters = Restrict(argoCluster, Registered)
         /\ plan'[w].users = plan[w].users /\ plan'[w].ann = plan[w].ann
         /\ plan'[w].invalid = plan[w].invalid /\ plan'[w].elems = plan[w].elems
  BY PlanFields DEF TypeOK, ListClusters, Registered

(* ... about its clusters ... *)
LEMMA ListAppsPlan ==
  ASSUME TypeOK, NEW w \in Workers, ListApps(w),
         NEW known, known = plan[w].clusters
  PROVE  /\ plan'[w].users =
              [p \in Profiles |-> {c \in DOMAIN known : p \in Tag(c, known[c].ann)}]
         /\ plan'[w].ann =
              [c \in {d \in DOMAIN known : Tag(d, known[d].ann) # known[d].ann} |->
                 Tag(c, known[c].ann)]
         /\ plan'[w].clusters = plan[w].clusters
         /\ plan'[w].invalid = plan[w].invalid /\ plan'[w].elems = plan[w].elems
<1> DEFINE u == [p \in Profiles |-> {c \in DOMAIN known : p \in Tag(c, known[c].ann)}]
           n == [c \in {d \in DOMAIN known : Tag(d, known[d].ann) # known[d].ann} |->
                   Tag(c, known[c].ann)]
<1>1. plan' = [plan EXCEPT ![w].users = u, ![w].ann = n]
  BY DEF ListApps
<1> HIDE DEF u, n
<1>2. /\ plan'[w].users = u /\ plan'[w].ann = n
      /\ plan'[w].clusters = plan[w].clusters
      /\ plan'[w].invalid = plan[w].invalid /\ plan'[w].elems = plan[w].elems
  BY <1>1, PlanFields DEF TypeOK
<1> QED
  BY <1>2 DEF u, n

(* The existing profiles and ApplicationSets, in the cache or for real, *)
Profs(ps)     == {p \in DOMAIN ps : ps[p].exists}
Valid(as)     == {a \in DOMAIN as : as[a].exists}
(* the invalid names a profile has, whether its status is wrong, and the   *)
(* clusters an app is for, as far as the pass can tell.                    *)
InvalidOf(p, ps, as) == ps[p].apps \ Valid(as)
Dirty(p, ps, as) ==
  \/ ps[p].invalid # InvalidOf(p, ps, as)
  \/ ps[p].health # Health(InvalidOf(p, ps, as))
TargetsOf(a, ps, users) ==
  UNION {users[p] : p \in {q \in Profs(ps) : a \in ps[q].apps}}

(* ... and in the cache. *)
LEMMA ListCachePlan ==
  ASSUME TypeOK, NEW w \in Workers, ListCache(w),
         NEW ps, ps = cached.profile, NEW as, as = cached.appSet
  PROVE  /\ DOMAIN plan'[w].invalid = {p \in Profs(ps) : Dirty(p, ps, as)}
         /\ \A p \in DOMAIN plan'[w].invalid : plan'[w].invalid[p] = InvalidOf(p, ps, as)
         /\ DOMAIN plan'[w].elems =
              {a \in Valid(as) : TargetsOf(a, ps, plan[w].users) # DOMAIN as[a].elems}
         /\ \A a \in DOMAIN plan'[w].elems :
              plan'[w].elems[a] = TargetsOf(a, ps, plan[w].users)
         /\ plan'[w].clusters = plan[w].clusters
         /\ plan'[w].users = plan[w].users /\ plan'[w].ann = plan[w].ann
<1> DEFINE i == [p \in {q \in Profs(ps) : Dirty(q, ps, as)} |-> InvalidOf(p, ps, as)]
           e == [a \in {b \in Valid(as) : TargetsOf(b, ps, plan[w].users) # DOMAIN as[b].elems}
                   |-> TargetsOf(a, ps, plan[w].users)]
<1>1. DOMAIN ps = Profiles /\ DOMAIN as = Apps
  BY DEF TypeOK
<1>2. plan' = [plan EXCEPT ![w].invalid = i, ![w].elems = e]
  BY <1>1 DEF ListCache, Profs, Valid, InvalidOf, Dirty, TargetsOf
<1>3. /\ DOMAIN i = {p \in Profs(ps) : Dirty(p, ps, as)}
      /\ \A p \in DOMAIN i : i[p] = InvalidOf(p, ps, as)
      /\ DOMAIN e = {a \in Valid(as) : TargetsOf(a, ps, plan[w].users) # DOMAIN as[a].elems}
      /\ \A a \in DOMAIN e : e[a] = TargetsOf(a, ps, plan[w].users)
  OBVIOUS
<1> HIDE DEF i, e
<1>4. /\ plan'[w].invalid = i /\ plan'[w].elems = e
      /\ plan'[w].clusters = plan[w].clusters
      /\ plan'[w].users = plan[w].users /\ plan'[w].ann = plan[w].ann
  BY <1>2, PlanFields DEF TypeOK
<1> QED
  BY <1>3, <1>4

(* A pass that gives up: its item is queued again. *)
GivesUp(w) ==
  /\ Return(w, TRUE)
  /\ held' = [held EXCEPT ![w] = {}]
  /\ UNCHANGED <<argo, kube, cached, fresh, unseen>>

(* The three writes succeed on one object each, or the pass gives up. *)
LEMMA TagClusterEffect ==
  ASSUME TypeOK, NEW w \in Workers, TagCluster(w)
  PROVE  \/ GivesUp(w)
         \/ \E c \in DOMAIN plan[w].ann :
              /\ c \in Clusters /\ argoCluster[c].exists
              /\ argoCluster' = [argoCluster EXCEPT ![c].ann = plan[w].ann[c]]
              /\ plan'[w].ann = Without(plan[w].ann, c)
              /\ plan'[w].clusters = plan[w].clusters /\ plan'[w].users = plan[w].users
              /\ plan'[w].invalid = plan[w].invalid /\ plan'[w].elems = plan[w].elems
              /\ UNCHANGED <<clusterApp, kube, cached, fresh, queue, mtx, pc, item, held, unseen>>
<1>1. PICK c \in DOMAIN plan[w].ann :
        IF argoCluster[c].exists
        THEN /\ argoCluster' = [argoCluster EXCEPT ![c].ann = plan[w].ann[c]]
             /\ plan' = [plan EXCEPT ![w].ann = Without(@, c)]
             /\ UNCHANGED <<mtx, pc, item, queue, held>>
        ELSE /\ Return(w, TRUE)
             /\ held' = [held EXCEPT ![w] = {}]
             /\ UNCHANGED argoCluster
  BY DEF TagCluster
<1>2. UNCHANGED <<clusterApp, kube, cached, fresh, unseen>>
  BY DEF TagCluster
<1>3. CASE ~argoCluster[c].exists
  BY <1>1, <1>2, <1>3 DEF GivesUp, argo
<1>4. CASE argoCluster[c].exists
  <2>1. c \in Clusters
    <3>1. plan[w].ann \in Partial(Clusters, Annotations)
      BY PlanTypes DEF TypeOK
    <3> QED
      BY <3>1, PartialHas
  <2>2. plan' = [plan EXCEPT ![w].ann = Without(plan[w].ann, c)]
    BY <1>1, <1>4
  <2> QED
    BY <1>1, <1>2, <1>4, <2>1, <2>2, PlanFields DEF TypeOK
<1> QED
  BY <1>3, <1>4

(* The same for a profile's status ... *)
LEMMA ReportProfileEffect ==
  ASSUME TypeOK, NEW w \in Workers, ReportProfile(w)
  PROVE  \/ GivesUp(w)
         \/ \E p \in DOMAIN plan[w].invalid \cap held[w] :
              /\ p \in Profiles
              /\ profile' = [profile EXCEPT ![p].invalid = plan[w].invalid[p],
                                            ![p].health = Health(plan[w].invalid[p])]
              /\ Stale(p)
              /\ plan'[w].invalid = Without(plan[w].invalid, p)
              /\ plan'[w].clusters = plan[w].clusters /\ plan'[w].users = plan[w].users
              /\ plan'[w].ann = plan[w].ann /\ plan'[w].elems = plan[w].elems
              /\ UNCHANGED <<argo, appSet, cached, queue, mtx, pc, item, unseen>>
<1>1. PICK p \in DOMAIN plan[w].invalid :
        IF p \in held[w]
        THEN /\ profile' = [profile EXCEPT
                  ![p].invalid = plan[w].invalid[p],
                  ![p].health  = Health(plan[w].invalid[p])]
             /\ Stale(p)
             /\ plan' = [plan EXCEPT ![w].invalid = Without(@, p)]
             /\ UNCHANGED <<mtx, pc, item, queue>>
        ELSE /\ Return(w, TRUE)
             /\ held' = [held EXCEPT ![w] = {}]
             /\ UNCHANGED <<profile, fresh>>
  BY DEF ReportProfile
<1>2. UNCHANGED <<argo, appSet, cached, unseen>>
  BY DEF ReportProfile
<1>3. CASE p \notin held[w]
  BY <1>1, <1>2, <1>3 DEF GivesUp, kube
<1>4. CASE p \in held[w]
  <2>1. p \in Profiles
    <3>1. plan[w].invalid \in Partial(Profiles, SUBSET Apps)
      BY PlanTypes DEF TypeOK
    <3> QED
      BY <3>1, PartialHas
  <2>2. plan' = [plan EXCEPT ![w].invalid = Without(plan[w].invalid, p)]
    BY <1>1, <1>4
  <2>3. /\ plan'[w].invalid = Without(plan[w].invalid, p)
        /\ plan'[w].clusters = plan[w].clusters /\ plan'[w].users = plan[w].users
        /\ plan'[w].ann = plan[w].ann /\ plan'[w].elems = plan[w].elems
    BY <2>2, PlanFields DEF TypeOK
  <2> QED
    BY <1>1, <1>2, <1>4, <2>1, <2>3
<1> QED
  BY <1>3, <1>4

(* ... and for an ApplicationSet's elements. *)
LEMMA WriteAppSetEffect ==
  ASSUME TypeOK, NEW w \in Workers, WriteAppSet(w)
  PROVE  \/ GivesUp(w)
         \/ \E a \in DOMAIN plan[w].elems \cap held[w] :
              /\ a \in Apps
              /\ \E e : appSet' = [appSet EXCEPT ![a].elems = e]
              /\ Stale(a)
              /\ plan'[w].elems = Without(plan[w].elems, a)
              /\ plan'[w].clusters = plan[w].clusters /\ plan'[w].users = plan[w].users
              /\ plan'[w].ann = plan[w].ann /\ plan'[w].invalid = plan[w].invalid
              /\ UNCHANGED <<argo, profile, cached, queue, mtx, pc, item, unseen>>
<1>1. PICK a \in DOMAIN plan[w].elems :
        IF a \in held[w]
        THEN /\ appSet' = [appSet EXCEPT ![a].elems =
                   [c \in plan[w].elems[a] |-> ServerOf(plan[w].clusters, c)]]
             /\ Stale(a)
             /\ plan' = [plan EXCEPT ![w].elems = Without(@, a)]
             /\ UNCHANGED <<mtx, pc, item, queue>>
        ELSE /\ Return(w, TRUE)
             /\ held' = [held EXCEPT ![w] = {}]
             /\ UNCHANGED <<appSet, fresh>>
  BY DEF WriteAppSet
<1>2. UNCHANGED <<argo, profile, cached, unseen>>
  BY DEF WriteAppSet
<1>3. CASE a \notin held[w]
  BY <1>1, <1>2, <1>3 DEF GivesUp, kube
<1>4. CASE a \in held[w]
  <2>1. a \in Apps
    <3>1. plan[w].elems \in Partial(Apps, SUBSET Clusters)
      BY PlanTypes DEF TypeOK
    <3> QED
      BY <3>1, PartialHas
  <2>2. plan' = [plan EXCEPT ![w].elems = Without(plan[w].elems, a)]
    BY <1>1, <1>4
  <2>3. /\ plan'[w].elems = Without(plan[w].elems, a)
        /\ plan'[w].clusters = plan[w].clusters /\ plan'[w].users = plan[w].users
        /\ plan'[w].ann = plan[w].ann /\ plan'[w].invalid = plan[w].invalid
    BY <2>2, PlanFields DEF TypeOK
  <2> DEFINE e == [c \in plan[w].elems[a] |-> ServerOf(plan[w].clusters, c)]
  <2>4. appSet' = [appSet EXCEPT ![a].elems = e]
    BY <1>1, <1>4
  <2> HIDE DEF e
  <2> QED
    BY <1>1, <1>2, <1>4, <2>1, <2>3, <2>4
<1> QED
  BY <1>3, <1>4

(* What Fail and Done come to. *)
LEMMA EndEffect ==
  ASSUME NEW w \in Workers, Done(w) \/ Fail(w)
  PROVE  /\ pc[w] # "idle"
         /\ \E again \in BOOLEAN : Return(w, again)
         /\ held' = [held EXCEPT ![w] = {}]
         /\ UNCHANGED <<argo, kube, cached, fresh, unseen>>
  BY DEF Done, Fail

-----------------------------------------------------------------------------
(* Passes, plans and copies *)

(* A worker in a pass is busy. *)
LEMMA Busy ==
  ASSUME NEW w \in Workers, Pass(w)
  PROVE  pc[w] # "idle"
  BY DEF Pass, ListClusters, ListApps, ListCache, TagCluster, ReportProfile, WriteAppSet,
         Done, Fail

(* A pass goes on, or ends and leaves the mutex. *)
LEMMA PassMoves ==
  ASSUME TypeOK, NEW w \in Workers, Pass(w)
  PROVE  \/ \E again \in BOOLEAN : Return(w, again) /\ held' = [held EXCEPT ![w] = {}]
         \/ /\ UNCHANGED <<mtx, item, queue>>
            /\ \E p \in Steps \ {"idle"} : pc' = [pc EXCEPT ![w] = p]
<1>1. ASSUME ListClusters(w) \/ ListApps(w) \/ ListCache(w)
      PROVE  /\ UNCHANGED <<mtx, item, queue>>
             /\ \E p \in Steps \ {"idle"} : pc' = [pc EXCEPT ![w] = p]
  BY <1>1 DEF ListClusters, ListApps, ListCache, Goto, Steps
<1>2. ASSUME UNCHANGED pc
      PROVE  \E p \in Steps \ {"idle"} : pc' = [pc EXCEPT ![w] = p]
  BY <1>2, Busy DEF TypeOK
<1>3. ASSUME TagCluster(w) \/ ReportProfile(w) \/ WriteAppSet(w)
      PROVE  GivesUp(w) \/ UNCHANGED <<mtx, pc, item, queue>>
  BY <1>3, TagClusterEffect, ReportProfileEffect, WriteAppSetEffect
<1> QED
  BY <1>1, <1>2, <1>3, EndEffect DEF Pass, GivesUp

(* Passes go on excluding one another. *)
LEMMA PassStep == TypeOK /\ OnePass /\ [Next]_vars => OnePass'
<1> SUFFICES ASSUME TypeOK, OnePass, [Next]_vars
             PROVE  OnePass'
  OBVIOUS
<1>1. ASSUME NEW w \in Workers, Pass(w)
      PROVE  OnePass'
  <2>1. mtx = w /\ pc[w] # "idle" /\ \A v \in Workers \ {w} : pc[v] = "idle"
    BY <1>1, Busy DEF OnePass
  <2>2. ASSUME NEW again \in BOOLEAN, Return(w, again)
        PROVE  OnePass'
    BY <2>1, <2>2, WorkersAssumption DEF OnePass, TypeOK, Return, Goto, Keys
  <2>3. ASSUME UNCHANGED <<mtx, item, queue>>,
               NEW p \in Steps \ {"idle"}, pc' = [pc EXCEPT ![w] = p]
        PROVE  OnePass'
    BY <2>1, <2>3 DEF OnePass, TypeOK, Keys
  <2> QED
    BY <1>1, <2>2, <2>3, PassMoves
<1>2. ASSUME NEW w \in Workers, NEW x \in Keys(w), Take(w, x)
      PROVE  OnePass'
  <2>1. CASE UNCHANGED <<mtx, pc, item>>
    BY <2>1 DEF OnePass, Keys
  <2>2. CASE mtx = Nothing /\ mtx' = w /\ Goto(w, "listClusters")
             /\ item' = [item EXCEPT ![w] = x]
    BY <2>2, WorkersAssumption DEF OnePass, TypeOK, Goto, Keys
  <2> QED
    BY <1>2, <2>1, <2>2 DEF Take
<1>3. CASE Restart
  BY <1>3, WorkersAssumption DEF OnePass, Restart
<1>4. CASE UNCHANGED <<mtx, pc, item>>
  BY <1>4 DEF OnePass, Keys
<1>5. UNCHANGED <<mtx, pc, item>> \/ Restart
      \/ \E w \in Workers : Pass(w) \/ \E x \in Keys(w) : Take(w, x)
  BY DEF Next, Deliver, EditClusterApp, EditArgoCluster, EditProfile, DeleteProfile,
         ToggleApp, User, worker, vars
<1> QED
  BY <1>1, <1>2, <1>3, <1>4, <1>5

(* Steps of others leave the plans alone, or forget them. *)
LEMMA OthersPlans ==
  ASSUME [Next]_vars
  PROVE  \/ \E w \in Workers : Pass(w)
         \/ plan' = plan /\ (pc' = pc \/ \E w \in Workers : \E x \in Keys(w) : Take(w, x))
         \/ Restart
  BY DEF Next, Take, Deliver, EditClusterApp, EditArgoCluster, EditProfile, DeleteProfile,
         ToggleApp, User, worker, vars

(* What is in order about one plan. *)
PlanOK(step, q) ==
  /\ step \in {"idle", "listClusters"} => q = NoPlan
  /\ \A p \in Profiles : q.users[p] \subseteq DOMAIN q.clusters
  /\ \A a \in DOMAIN q.elems : q.elems[a] \subseteq DOMAIN q.clusters

(* An empty plan is in order. *)
LEMMA NoPlanOK == \A step : PlanOK(step, NoPlan)
  BY DEF PlanOK, NoPlan, Empty

(* Plans stay in order. *)
LEMMA PlansStep == TypeOK /\ OnePass /\ PlansOK /\ [Next]_vars => PlansOK'
<1> SUFFICES ASSUME TypeOK, OnePass, PlansOK, [Next]_vars
             PROVE  PlansOK'
  OBVIOUS
<1>1. \A w \in Workers : PlanOK(pc[w], plan[w])
  BY DEF PlansOK, PlanOK
<1>2. SUFFICES \A w \in Workers : PlanOK(pc'[w], plan'[w])
  BY DEF PlansOK, PlanOK
<1>3. ASSUME NEW w \in Workers, Pass(w)
      PROVE  \A v \in Workers : PlanOK(pc'[v], plan'[v])
  <2>1. \A v \in Workers \ {w} : plan'[v] = plan[v] /\ pc'[v] = pc[v]
    <3>1. \E p : pc' = [pc EXCEPT ![w] = p]
      BY <1>3, PassMoves DEF Return, Goto
    <3> QED
      BY <1>3, <3>1, OwnPlan DEF TypeOK
  <2>2. SUFFICES PlanOK(pc'[w], plan'[w])
    BY <1>1, <2>1
  <2>3. ASSUME NEW again, Return(w, again)
        PROVE  PlanOK(pc'[w], plan'[w])
    <3>1. plan'[w] = NoPlan
      BY <2>3 DEF TypeOK, Return
    <3> QED
      BY <3>1, NoPlanOK
  <2>4. CASE ListClusters(w)
    <3>1. pc[w] = "listClusters" /\ pc'[w] = "listApps"
      BY <2>4 DEF TypeOK, ListClusters, Goto
    <3>2. plan[w] = NoPlan
      BY <1>1, <3>1 DEF PlanOK
    <3>3. plan'[w].users = NoPlan.users /\ plan'[w].elems = NoPlan.elems
      BY <2>4, <3>2, ListClustersPlan
    <3> QED
      BY <3>1, <3>3 DEF PlanOK, NoPlan, Empty
  <2>5. CASE ListApps(w)
    <3>1. pc[w] = "listApps" /\ pc'[w] = "listCache"
      BY <2>5 DEF TypeOK, ListApps, Goto
    <3>2. /\ \A p \in Profiles : plan'[w].users[p] \subseteq DOMAIN plan[w].clusters
          /\ plan'[w].clusters = plan[w].clusters /\ plan'[w].elems = plan[w].elems
      <4> DEFINE known == plan[w].clusters
      <4>1. /\ plan'[w].users =
                 [p \in Profiles |-> {c \in DOMAIN known : p \in Tag(c, known[c].ann)}]
            /\ plan'[w].clusters = plan[w].clusters /\ plan'[w].elems = plan[w].elems
        BY <2>5, ListAppsPlan
      <4> QED
        BY <4>1
    <3> QED
      BY <1>1, <3>1, <3>2 DEF PlanOK
  <2>6. CASE ListCache(w)
    <3>1. pc[w] = "listCache" /\ pc'[w] = "write"
      BY <2>6 DEF TypeOK, ListCache, Goto
    <3>2. \A q \in Profs(cached.profile) : q \in Profiles
      BY DEF TypeOK, Profs
    <3>3. \A a : TargetsOf(a, cached.profile, plan[w].users) \subseteq DOMAIN plan[w].clusters
      BY <1>1, <3>2 DEF TargetsOf, PlanOK
    <3> QED
      BY <1>1, <2>6, <3>1, <3>3, ListCachePlan DEF PlanOK
  <2>7. ASSUME pc[w] = "write", pc'[w] = pc[w],
               plan'[w].clusters = plan[w].clusters, plan'[w].users = plan[w].users,
               \/ plan'[w].elems = plan[w].elems
               \/ \E a : plan'[w].elems = Without(plan[w].elems, a)
        PROVE  PlanOK(pc'[w], plan'[w])
    BY <1>1, <2>7 DEF PlanOK, Without, Restrict
  <2>8. CASE TagCluster(w)
    BY <2>3, <2>7, <2>8, TagClusterEffect DEF TagCluster, GivesUp
  <2>9. CASE ReportProfile(w)
    BY <2>3, <2>7, <2>9, ReportProfileEffect DEF ReportProfile, GivesUp
  <2>10. CASE WriteAppSet(w)
    BY <2>3, <2>7, <2>10, WriteAppSetEffect DEF WriteAppSet, GivesUp
  <2> QED
    BY <1>3, <2>3, <2>4, <2>5, <2>6, <2>8, <2>9, <2>10, EndEffect DEF Pass
<1>4. ASSUME NEW w \in Workers, NEW x \in Keys(w), Take(w, x)
      PROVE  \A v \in Workers : PlanOK(pc'[v], plan'[v])
  <2>1. pc[w] = "idle" /\ plan' = plan
    BY <1>4 DEF Take
  <2>2. plan[w] = NoPlan
    BY <1>1, <2>1 DEF PlanOK
  <2>3. \A v \in Workers \ {w} : pc'[v] = pc[v]
    BY <1>4 DEF Take, Goto, TypeOK
  <2> QED
    BY <1>1, <2>1, <2>2, <2>3, NoPlanOK
<1>5. CASE Restart
  BY <1>5, NoPlanOK DEF Restart
<1>6. CASE plan' = plan /\ pc' = pc
  BY <1>1, <1>6
<1> QED
  BY <1>3, <1>4, <1>5, <1>6, OthersPlans

(* A change of profiles or ApplicationSets leaves its object's copy stale, *)
(* in the cache and in the plans.                                          *)
LEMMA Changes ==
  ASSUME TypeOK, [Next]_vars
  PROVE  \/ UNCHANGED <<profile, appSet>>
         \/ /\ UNCHANGED <<cached, appSet>>
            /\ \E p \in Profiles :
                 /\ Stale(p)
                 /\ \A q \in Profiles \ {p} : profile'[q] = profile[q]
         \/ /\ UNCHANGED <<cached, profile>>
            /\ \E a \in Apps :
                 /\ Stale(a)
                 /\ \A b \in Apps \ {a} : appSet'[b] = appSet[b]
<1>1. ASSUME NEW w \in Workers, Pass(w)
      PROVE  UNCHANGED kube \/ ReportProfile(w) \/ WriteAppSet(w)
  BY <1>1 DEF Pass, ListClusters, ListApps, ListCache, TagCluster, Done, Fail
<1>2. ASSUME NEW w \in Workers, ReportProfile(w)
      PROVE  \/ UNCHANGED kube
             \/ /\ UNCHANGED <<cached, appSet>>
                /\ \E p \in Profiles :
                     /\ Stale(p)
                     /\ \A q \in Profiles \ {p} : profile'[q] = profile[q]
  <2>1. CASE GivesUp(w)
    BY <2>1 DEF GivesUp
  <2>2. CASE ~GivesUp(w)
    BY <1>2, <2>2, ReportProfileEffect DEF TypeOK
  <2> QED
    BY <2>1, <2>2
<1>3. ASSUME NEW w \in Workers, WriteAppSet(w)
      PROVE  \/ UNCHANGED kube
             \/ /\ UNCHANGED <<cached, profile>>
                /\ \E a \in Apps :
                     /\ Stale(a)
                     /\ \A b \in Apps \ {a} : appSet'[b] = appSet[b]
  <2>1. CASE GivesUp(w)
    BY <2>1 DEF GivesUp
  <2>2. CASE ~GivesUp(w)
    BY <1>3, <2>2, WriteAppSetEffect DEF TypeOK
  <2> QED
    BY <2>1, <2>2
<1>4. ASSUME NEW p \in Profiles, EditProfile(p) \/ DeleteProfile(p)
      PROVE  /\ UNCHANGED <<cached, appSet>> /\ Stale(p)
             /\ \A q \in Profiles \ {p} : profile'[q] = profile[q]
  BY <1>4 DEF EditProfile, DeleteProfile, User, TypeOK
<1>5. ASSUME NEW a \in Apps, ToggleApp(a)
      PROVE  /\ UNCHANGED <<cached, profile>> /\ Stale(a)
             /\ \A b \in Apps \ {a} : appSet'[b] = appSet[b]
  BY <1>5 DEF ToggleApp, User, TypeOK
<1>6. \/ UNCHANGED kube
      \/ \E w \in Workers : Pass(w)
      \/ \E p \in Profiles : EditProfile(p) \/ DeleteProfile(p)
      \/ \E a \in Apps : ToggleApp(a)
  BY DEF Next, Take, Deliver, EditClusterApp, EditArgoCluster, Restart, vars, kube
<1> QED
  BY <1>1, <1>2, <1>3, <1>4, <1>5, <1>6 DEF kube

(* What the cache counts as current stays so. *)
LEMMA CopiesStep == TypeOK /\ CopiesOK /\ [Next]_vars => CopiesOK'
<1> SUFFICES ASSUME TypeOK, CopiesOK, [Next]_vars
             PROVE  CopiesOK'
  OBVIOUS
<1>1. CASE UNCHANGED <<cached, appSet>> /\
           \E p \in Profiles : Stale(p) /\ \A q \in Profiles \ {p} : profile'[q] = profile[q]
  BY <1>1 DEF CopiesOK, Stale
<1>2. CASE UNCHANGED <<cached, profile>> /\
           \E a \in Apps : Stale(a) /\ \A b \in Apps \ {a} : appSet'[b] = appSet[b]
  BY <1>2 DEF CopiesOK, Stale
<1>3. CASE UNCHANGED <<profile, appSet>>
  <2>1. ASSUME NEW x \in Objects, Deliver(x)
        PROVE  CopiesOK'
    <3>1. CASE x \in Profiles
      BY <1>3, <2>1, <3>1, KeysAssumption DEF CopiesOK, Deliver, TypeOK
    <3>2. CASE x \in Apps
      BY <1>3, <2>1, <3>2, KeysAssumption DEF CopiesOK, Deliver, TypeOK
    <3> QED
      BY <3>1, <3>2 DEF Objects
  <2>2. CASE Restart
    BY <1>3, <2>2 DEF CopiesOK, Restart
  <2>3. CASE cached' = cached /\ fresh' \subseteq fresh
    BY <1>3, <2>3 DEF CopiesOK
  <2>4. \/ cached' = cached /\ fresh' \subseteq fresh
        \/ Restart \/ \E x \in Objects : Deliver(x)
        \/ \E w \in Workers : ReportProfile(w) \/ WriteAppSet(w)
    BY DEF Next, Pass, Take, ListClusters, ListApps, ListCache, TagCluster, Done, Fail,
           EditClusterApp, EditArgoCluster, EditProfile, DeleteProfile, ToggleApp, Stale,
           User, vars
  <2>5. ASSUME NEW w \in Workers, ReportProfile(w) \/ WriteAppSet(w)
        PROVE  cached' = cached /\ fresh' \subseteq fresh
    BY <2>5, ReportProfileEffect, WriteAppSetEffect DEF GivesUp, Stale
  <2> QED
    BY <2>1, <2>2, <2>3, <2>4, <2>5
<1> QED
  BY <1>1, <1>2, <1>3, Changes

(* The writes that are left in plan s were all in plan q. *)
Fewer(s, q) ==
  /\ DOMAIN s.invalid \subseteq DOMAIN q.invalid
  /\ \A p \in DOMAIN s.invalid : s.invalid[p] = q.invalid[p]
  /\ DOMAIN s.elems \subseteq DOMAIN q.elems

(* Only the reading of the cache adds such writes to a plan, and holds. *)
LEMMA FewerWrites ==
  ASSUME TypeOK, [Next]_vars, \A w \in Workers : ~ListCache(w), NEW v \in Workers
  PROVE  Fewer(plan'[v], plan[v]) /\ held'[v] \subseteq held[v]
<1>1. ASSUME NEW w \in Workers, Pass(w)
      PROVE  Fewer(plan'[w], plan[w]) /\ \A u \in Workers : held'[u] \subseteq held[u]
  <2>1. ASSUME NEW again, Return(w, again), held' = [held EXCEPT ![w] = {}]
        PROVE  Fewer(plan'[w], plan[w]) /\ \A u \in Workers : held'[u] \subseteq held[u]
    <3>1. plan'[w] = NoPlan
      BY <2>1 DEF TypeOK, Return
    <3>2. \A u \in Workers : held'[u] \subseteq held[u]
      BY <2>1 DEF TypeOK
    <3> QED
      BY <3>1, <3>2 DEF Fewer, NoPlan, Empty
  <2>2. CASE ListClusters(w)
    BY <2>2, ListClustersPlan DEF ListClusters, Fewer
  <2>3. CASE ListApps(w)
    <3> DEFINE known == plan[w].clusters
    <3>1. plan'[w].invalid = plan[w].invalid /\ plan'[w].elems = plan[w].elems
      BY <2>3, ListAppsPlan
    <3> QED
      BY <2>3, <3>1 DEF ListApps, Fewer
  <2>4. CASE TagCluster(w)
    BY <2>1, <2>4, TagClusterEffect DEF GivesUp, Fewer
  <2>5. CASE ReportProfile(w)
    <3>2. CASE GivesUp(w)
      BY <2>1, <3>2 DEF GivesUp
    <3>3. CASE ~GivesUp(w)
      <4>1. PICK p : /\ Stale(p) /\ plan'[w].elems = plan[w].elems
                     /\ plan'[w].invalid = Without(plan[w].invalid, p)
        BY <2>5, <3>3, ReportProfileEffect
      <4>2. /\ DOMAIN plan'[w].invalid \subseteq DOMAIN plan[w].invalid
            /\ \A q \in DOMAIN plan'[w].invalid : plan'[w].invalid[q] = plan[w].invalid[q]
        BY <4>1 DEF Without, Restrict
      <4>3. \A u \in Workers : held'[u] \subseteq held[u]
        BY <4>1 DEF Stale
      <4> QED
        BY <4>1, <4>2, <4>3 DEF Fewer
    <3> QED
      BY <3>2, <3>3
  <2>6. CASE WriteAppSet(w)
    <3>2. CASE GivesUp(w)
      BY <2>1, <3>2 DEF GivesUp
    <3>3. CASE ~GivesUp(w)
      <4>1. PICK a : /\ Stale(a) /\ plan'[w].invalid = plan[w].invalid
                     /\ plan'[w].elems = Without(plan[w].elems, a)
        BY <2>6, <3>3, WriteAppSetEffect
      <4>2. DOMAIN plan'[w].elems \subseteq DOMAIN plan[w].elems
        BY <4>1 DEF Without, Restrict
      <4>3. \A u \in Workers : held'[u] \subseteq held[u]
        BY <4>1 DEF Stale
      <4> QED
        BY <4>1, <4>2, <4>3 DEF Fewer
    <3> QED
      BY <3>2, <3>3
  <2> QED
    BY <1>1, <2>1, <2>2, <2>3, <2>4, <2>5, <2>6, EndEffect DEF Pass
<1>2. \A q : Fewer(q, q)
  BY DEF Fewer
<1>3. CASE \E w \in Workers : Pass(w)
  <2>1. PICK w \in Workers : Pass(w)
    BY <1>3
  <2>2. CASE v = w
    BY <1>1, <2>1, <2>2
  <2>3. CASE v # w
    <3>1. plan'[v] = plan[v]
      BY <2>1, <2>3, OwnPlan
    <3> QED
      BY <1>1, <1>2, <2>1, <3>1
  <2> QED
    BY <2>2, <2>3
<1>4. CASE Restart
  BY <1>4 DEF Restart, Fewer, NoPlan, Empty
<1>5. CASE plan' = plan /\ ~(\E w \in Workers : Pass(w)) /\ ~Restart
  <2>1. held'[v] \subseteq held[v]
    BY <1>5 DEF Next, Take, Deliver, EditClusterApp, EditArgoCluster, EditProfile,
           DeleteProfile, ToggleApp, Stale, worker, vars
  <2> QED
    BY <1>2, <1>5, <2>1
<1> QED
  BY <1>3, <1>4, <1>5, OthersPlans

(* What a pass is going to write goes on fitting. *)
LEMMA HeldStep == TypeOK /\ CopiesOK /\ HeldOK /\ [Next]_vars => HeldOK'
<1> SUFFICES ASSUME TypeOK, CopiesOK, HeldOK, [Next]_vars
             PROVE  HeldOK'
  OBVIOUS
<1>1. ASSUME NEW v \in Workers, Fewer(plan'[v], plan[v]), held'[v] \subseteq held[v]
      PROVE  /\ \A p \in DOMAIN plan'[v].invalid \cap held'[v] :
                  profile[p].exists /\ plan'[v].invalid[p] \subseteq profile[p].apps
             /\ \A a \in DOMAIN plan'[v].elems \cap held'[v] : appSet[a].exists
  BY <1>1 DEF HeldOK, Fewer
<1>2. CASE \A w \in Workers : ~ListCache(w)
  <2>1. SUFFICES ASSUME NEW v \in Workers
                 PROVE  /\ \A p \in DOMAIN plan'[v].invalid \cap held'[v] : profile'[p] = profile[p]
                        /\ \A a \in DOMAIN plan'[v].elems \cap held'[v] : appSet'[a] = appSet[a]
    BY <1>1, <1>2, FewerWrites DEF HeldOK
  <2>2. DOMAIN plan'[v].invalid \subseteq Profiles /\ DOMAIN plan'[v].elems \subseteq Apps
    <3>1. /\ plan[v].invalid \in Partial(Profiles, SUBSET Apps)
          /\ plan[v].elems \in Partial(Apps, SUBSET Clusters)
      BY PlanTypes DEF TypeOK
    <3>2. DOMAIN plan[v].invalid \subseteq Profiles /\ DOMAIN plan[v].elems \subseteq Apps
      BY <3>1, PartialHas
    <3> QED
      BY <1>2, <3>2, FewerWrites DEF Fewer
  <2> QED
    BY <2>2, Changes DEF Stale
<1>3. ASSUME NEW w \in Workers, ListCache(w)
      PROVE  HeldOK'
  <2>1. UNCHANGED kube /\ held' = [held EXCEPT ![w] = fresh]
    BY <1>3 DEF ListCache
  <2>2. \A v \in Workers \ {w} : plan'[v] = plan[v] /\ held'[v] = held[v]
    BY <1>3, <2>1, OwnPlan DEF TypeOK, Pass
  <2>3. /\ DOMAIN plan'[w].invalid =
             {p \in Profs(cached.profile) : Dirty(p, cached.profile, cached.appSet)}
        /\ \A p \in DOMAIN plan'[w].invalid :
             plan'[w].invalid[p] = InvalidOf(p, cached.profile, cached.appSet)
        /\ DOMAIN plan'[w].elems \subseteq Valid(cached.appSet)
    BY <1>3, ListCachePlan
  <2>4. held'[w] = fresh
    BY <2>1 DEF TypeOK
  <2>5. DOMAIN cached.profile = Profiles /\ DOMAIN cached.appSet = Apps
    BY DEF TypeOK
  <2>6. ASSUME NEW p \in DOMAIN plan'[w].invalid \cap held'[w]
        PROVE  profile[p].exists /\ plan'[w].invalid[p] \subseteq profile[p].apps
    BY <2>3, <2>4, <2>5, <2>6 DEF CopiesOK, Profs, InvalidOf
  <2>7. ASSUME NEW a \in DOMAIN plan'[w].elems \cap held'[w]
        PROVE  appSet[a].exists
    BY <2>3, <2>4, <2>5, <2>7 DEF CopiesOK, Valid
  <2> QED
    BY <2>1, <2>2, <2>6, <2>7 DEF HeldOK, kube
<1> QED
  BY <1>2, <1>3

(* The writes to profiles and ApplicationSets, those of the passes and     *)
(* those of the users.                                                     *)
LEMMA Writers ==
  ASSUME [Next]_vars
  PROVE  \/ UNCHANGED kube
         \/ \E w \in Workers : (ReportProfile(w) \/ WriteAppSet(w)) /\ ~GivesUp(w)
         \/ \E p \in Profiles : EditProfile(p) \/ DeleteProfile(p)
         \/ \E a \in Apps : ToggleApp(a)
  BY DEF Next, Pass, Take, ListClusters, ListApps, ListCache, TagCluster, Done, Fail,
         GivesUp, Deliver, EditClusterApp, EditArgoCluster, Restart, vars, kube

(* A status is written to a profile that exists, for apps that it lists. *)
LEMMA ReportIsCurrent ==
  ASSUME TypeOK, HeldOK, NEW w \in Workers, ReportProfile(w), ~GivesUp(w)
  PROVE  /\ UNCHANGED appSet
         /\ \E p \in Profiles :
              /\ profile[p].exists /\ profile'[p].exists
              /\ profile'[p].invalid \subseteq profile'[p].apps
              /\ \A q \in Profiles \ {p} : profile'[q] = profile[q]
<1>1. PICK p \in DOMAIN plan[w].invalid \cap held[w] :
        /\ p \in Profiles
        /\ profile' = [profile EXCEPT ![p].invalid = plan[w].invalid[p],
                                      ![p].health = Health(plan[w].invalid[p])]
        /\ UNCHANGED appSet
  BY ReportProfileEffect
<1>2. profile[p].exists /\ plan[w].invalid[p] \subseteq profile[p].apps
  BY <1>1 DEF HeldOK
<1> DEFINE i == plan[w].invalid[p]
           h == Health(i)
           r == [profile[p] EXCEPT !.invalid = i, !.health = h]
<1>3. profile' = [profile EXCEPT ![p] = r]
  BY <1>1
<1> HIDE DEF i, h
<1>4. profile[p] \in Profile
  BY <1>1 DEF TypeOK
<1>5. r.invalid = i /\ r.apps = profile[p].apps /\ r.exists = profile[p].exists
  BY <1>4 DEF Profile
<1> HIDE DEF r
<1>6. profile'[p] = r /\ \A q \in Profiles \ {p} : profile'[q] = profile[q]
  BY <1>1, <1>3 DEF TypeOK
<1> QED
  BY <1>1, <1>2, <1>5, <1>6 DEF i

(* Elements are written to an ApplicationSet that exists. *)
LEMMA WriteIsCurrent ==
  ASSUME TypeOK, HeldOK, NEW w \in Workers, WriteAppSet(w), ~GivesUp(w)
  PROVE  /\ UNCHANGED profile
         /\ \E a \in Apps :
              /\ appSet[a].exists /\ appSet'[a].exists
              /\ \A b \in Apps \ {a} : appSet'[b] = appSet[b]
<1>1. PICK a \in DOMAIN plan[w].elems \cap held[w] :
        /\ a \in Apps /\ \E e : appSet' = [appSet EXCEPT ![a].elems = e]
        /\ UNCHANGED profile
  BY WriteAppSetEffect
<1>2. appSet[a].exists
  BY <1>1 DEF HeldOK
<1> QED
  BY <1>1, <1>2 DEF TypeOK, AppSet

(* A profile that is edited keeps its status, or had none. *)
LEMMA EditProfileEffect ==
  ASSUME TypeOK, GoneOK, NEW p \in Profiles, EditProfile(p)
  PROVE  /\ UNCHANGED appSet
         /\ profile'[p].exists /\ profile'[p].invalid = profile[p].invalid
         /\ \A q \in Profiles \ {p} : profile'[q] = profile[q]
<1>1. PICK S \in SUBSET Apps :
        profile' = [profile EXCEPT ![p] =
          IF profile[p].exists THEN [@ EXCEPT !.apps = S]
                               ELSE [NoProfile EXCEPT !.exists = TRUE, !.apps = S]]
  BY DEF EditProfile
<1>2. UNCHANGED appSet /\ \A q \in Profiles \ {p} : profile'[q] = profile[q]
  BY <1>1 DEF EditProfile, TypeOK
<1>3. CASE profile[p].exists
  <2> DEFINE r == [profile[p] EXCEPT !.apps = S]
  <2>1. profile[p] \in Profile
    BY DEF TypeOK
  <2>2. r.exists = profile[p].exists /\ r.invalid = profile[p].invalid
    BY <2>1 DEF Profile
  <2>3. profile'[p] = r
    BY <1>1, <1>3 DEF TypeOK
  <2> HIDE DEF r
  <2> QED
    BY <1>2, <1>3, <2>2, <2>3
<1>4. CASE ~profile[p].exists
  <2>1. profile'[p] = [NoProfile EXCEPT !.exists = TRUE, !.apps = S]
    BY <1>1, <1>4 DEF TypeOK
  <2>2. profile[p] = NoProfile
    BY <1>4 DEF GoneOK
  <2> QED
    BY <1>2, <2>1, <2>2 DEF NoProfile
<1> QED
  BY <1>3, <1>4

(* An app comes without elements and goes with all of them. *)
LEMMA ToggleAppEffect ==
  ASSUME TypeOK, NEW a \in Apps, ToggleApp(a)
  PROVE  /\ UNCHANGED profile
         /\ appSet'[a].elems = NoAppSet.elems
         /\ appSet'[a] = NoAppSet \/ (~appSet[a].exists /\ appSet'[a].exists)
         /\ \A b \in Apps \ {a} : appSet'[b] = appSet[b]
<1>1. /\ UNCHANGED profile
      /\ appSet' = [appSet EXCEPT ![a] =
           IF appSet[a].exists THEN NoAppSet ELSE [NoAppSet EXCEPT !.exists = TRUE]]
  BY DEF ToggleApp
<1>2. /\ [NoAppSet EXCEPT !.exists = TRUE].elems = NoAppSet.elems
      /\ [NoAppSet EXCEPT !.exists = TRUE].exists
  BY DEF NoAppSet
<1> DEFINE r == [NoAppSet EXCEPT !.exists = TRUE]
<1> HIDE DEF r
<1>3. /\ appSet'[a] = IF appSet[a].exists THEN NoAppSet ELSE r
      /\ \A b \in Apps \ {a} : appSet'[b] = appSet[b]
  BY <1>1 DEF TypeOK, r
<1>4. r.elems = NoAppSet.elems /\ r.exists
  BY <1>2 DEF r
<1>5. CASE appSet[a].exists
  <2>1. appSet'[a] = NoAppSet
    BY <1>3, <1>5
  <2> QED
    BY <1>1, <1>3, <2>1
<1>6. CASE ~appSet[a].exists
  <2>1. appSet'[a] = r
    BY <1>3, <1>6
  <2> QED
    BY <1>1, <1>3, <1>4, <1>6, <2>1
<1> QED
  BY <1>5, <1>6

(* Nothing is written to what is gone. *)
LEMMA GoneStep == TypeOK /\ HeldOK /\ GoneOK /\ [Next]_vars => GoneOK'
<1> SUFFICES ASSUME TypeOK, HeldOK, GoneOK, [Next]_vars
             PROVE  GoneOK'
  OBVIOUS
<1>1. CASE UNCHANGED kube
  BY <1>1 DEF GoneOK, kube
<1>2. ASSUME NEW w \in Workers, ReportProfile(w) \/ WriteAppSet(w), ~GivesUp(w)
      PROVE  GoneOK'
  BY <1>2, ReportIsCurrent, WriteIsCurrent DEF GoneOK
<1>3. ASSUME NEW p \in Profiles, EditProfile(p)
      PROVE  GoneOK'
  BY <1>3, EditProfileEffect DEF GoneOK
<1>4. ASSUME NEW p \in Profiles, DeleteProfile(p)
      PROVE  GoneOK'
  BY <1>4 DEF DeleteProfile, GoneOK, TypeOK
<1>5. ASSUME NEW a \in Apps, ToggleApp(a)
      PROVE  GoneOK'
  BY <1>5, ToggleAppEffect DEF GoneOK
<1> QED
  BY <1>1, <1>2, <1>3, <1>4, <1>5, Writers

-----------------------------------------------------------------------------
(* No event is lost *)

(* What wakes the controllers up stays or is followed by another pass.     *)
LEMMA StillWaking ==
  ASSUME Waking, UNCHANGED <<queue, fresh, unseen>>
  PROVE  Waking'
  BY DEF Waking

(* An item in the queue and a stale copy each do. *)
LEMMA NewWaking ==
  /\ \A x : x \in queue' => Waking'
  /\ \A x \in Objects : Stale(x) => Waking'
  /\ unseen' => Waking'
  BY DEF Waking, Stale

(* A pass that fails queues its item. *)
LEMMA FailureWakes ==
  ASSUME NEW w \in Workers, Return(w, TRUE)
  PROVE  Waking'
<1>1. item[w] \in queue'
  BY DEF Return
<1> QED
  BY <1>1, NewWaking

(* The events: a pass starts, or another will. *)
LEMMA EventsWake ==
  ASSUME TypeOK
  PROVE  /\ \A w \in Workers : \A x \in Keys(w) : Take(w, x) => NothingLost'
         /\ \A x \in Objects : Deliver(x) => Waking'
         /\ \A c \in Clusters : EditClusterApp(c) \/ EditArgoCluster(c) => Waking'
         /\ \A p \in Profiles : EditProfile(p) \/ DeleteProfile(p) => Waking'
         /\ \A a \in Apps : ToggleApp(a) => Waking'
<1>1. ASSUME NEW w \in Workers, NEW x \in Keys(w), Take(w, x)
      PROVE  NothingLost'
  <2>1. CASE unseen'
    BY <2>1, NewWaking DEF NothingLost
  <2>2. CASE mtx' = w /\ Goto(w, "listClusters")
    BY <2>2 DEF NothingLost, OnTrack, Goto, TypeOK
  <2> QED
    BY <1>1, <2>1, <2>2 DEF Take
<1>2. \A x \in Objects : Deliver(x) => x \in queue'
  BY DEF Deliver
<1>3. \A c \in Clusters : /\ EditClusterApp(c) => c \in queue'
                          /\ EditArgoCluster(c) => unseen'
  BY DEF EditClusterApp, EditArgoCluster
<1>4. \A p \in Profiles : EditProfile(p) \/ DeleteProfile(p) => Stale(p)
  BY DEF EditProfile, DeleteProfile
<1>5. \A a \in Apps : ToggleApp(a) => Stale(a)
  BY DEF ToggleApp
<1> QED
  BY <1>1, <1>2, <1>3, <1>4, <1>5, NewWaking DEF Objects

(* A process that starts finds everything, or nothing to do. *)
LEMMA RestartKeeps == TypeOK /\ Restart => NothingLost'
<1> SUFFICES ASSUME TypeOK, Restart
             PROVE  NothingLost'
  OBVIOUS
<1>1. CASE Existing # {}
  BY <1>1 DEF Restart, NothingLost, Waking
<1>2. CASE Existing = {}
  <2>1. /\ \A p \in Profiles : ~profile[p].exists
        /\ \A a \in Apps : ~appSet[a].exists
        /\ \A c \in Clusters : ~clusterApp[c].exists
    BY <1>2 DEF Existing
  <2>2. UNCHANGED <<argo, kube>> /\ mtx' = Nothing
    BY DEF Restart
  <2>3. Consistent'
    BY <2>1, <2>2 DEF Consistent, Registered, Tag, argo, kube
  <2> QED
    BY <2>2, <2>3 DEF NothingLost
<1> QED
  BY <1>1, <1>2

(* A pass that has read ArgoCD's clusters knows them. *)
LEMMA ListClustersKeeps ==
  ASSUME TypeOK, OnePass, NEW w \in Workers, ListClusters(w)
  PROVE  NothingLost'
<1>1. mtx' = w /\ pc'[w] = "listApps"
  BY DEF ListClusters, OnePass, TypeOK, Goto
<1>2. plan'[w].clusters = Restrict(argoCluster, Registered)
  BY ListClustersPlan
<1>3. UNCHANGED argoCluster
  BY DEF ListClusters, argo
<1>4. ClustersKnown(w)'
  BY <1>2, <1>3 DEF ClustersKnown, Registered
<1> QED
  BY <1>1, <1>4 DEF NothingLost, OnTrack

(* One that has read the cluster apps knows who uses which profile, and    *)
(* plans every annotation that has to be copied.                           *)
LEMMA ListAppsKeeps ==
  ASSUME TypeOK, OnePass, NEW w \in Workers, ListApps(w), OnTrack(w)
  PROVE  OnTrack(w)' /\ mtx' = w
<1> DEFINE known == plan[w].clusters
<1>1. mtx' = w /\ pc[w] = "listApps" /\ pc'[w] = "listCache"
  BY DEF ListApps, OnePass, TypeOK, Goto
<1>2. known = Restrict(argoCluster, Registered)
  BY <1>1 DEF OnTrack, ClustersKnown
<1>3. DOMAIN known = Registered /\ \A c \in Registered : known[c] = argoCluster[c]
  BY <1>2 DEF Restrict
<1>4. /\ plan'[w].users =
           [p \in Profiles |-> {c \in DOMAIN known : p \in Tag(c, known[c].ann)}]
      /\ plan'[w].ann =
           [c \in {d \in DOMAIN known : Tag(d, known[d].ann) # known[d].ann} |->
              Tag(c, known[c].ann)]
      /\ plan'[w].clusters = known
  BY ListAppsPlan
<1> HIDE DEF known
<1>5. UNCHANGED <<argoCluster, clusterApp>>
  BY DEF ListApps, argo
<1>6. ClustersKnown(w)'
  BY <1>2, <1>4, <1>5 DEF ClustersKnown, Registered
<1>7. UsersKnown(w)'
  <2>1. plan'[w].users =
          [p \in Profiles |-> {c \in Registered : p \in Tag(c, argoCluster[c].ann)}]
    BY <1>3, <1>4
  <2> QED
    BY <2>1, <1>5 DEF UsersKnown, Registered, Tag
<1>8. TagsPlanned(w)'
  <2>1. \A c \in Registered :
          /\ c \in DOMAIN plan'[w].ann => plan'[w].ann[c] = Tag(c, argoCluster[c].ann)
          /\ c \notin DOMAIN plan'[w].ann => Annotated(c)
    BY <1>3, <1>4 DEF Annotated
  <2> QED
    BY <2>1, <1>5 DEF TagsPlanned, Annotated, Registered, Tag
<1> QED
  BY <1>1, <1>6, <1>7, <1>8 DEF OnTrack

(* One that has read copies which are current plans all the rest.          *)
LEMMA ListCacheKeeps ==
  ASSUME TypeOK, OnePass, CopiesOK, fresh = Objects,
         NEW w \in Workers, ListCache(w), OnTrack(w)
  PROVE  OnTrack(w)' /\ mtx' = w
<1>1. mtx' = w /\ pc[w] = "listCache" /\ pc'[w] = "write"
  BY DEF ListCache, OnePass, TypeOK, Goto
<1>2. cached.profile = profile /\ cached.appSet = appSet
  <2>1. /\ \A p \in Profiles : cached.profile[p] = profile[p]
        /\ \A a \in Apps : cached.appSet[a] = appSet[a]
    BY DEF CopiesOK, Objects
  <2> QED
    BY <2>1 DEF TypeOK
<1>3. /\ DOMAIN plan'[w].invalid = {p \in Profs(profile) : Dirty(p, profile, appSet)}
      /\ DOMAIN plan'[w].elems =
           {a \in Valid(appSet) :
              TargetsOf(a, profile, plan[w].users) # DOMAIN appSet[a].elems}
      /\ plan'[w].ann = plan[w].ann
  BY <1>2, ListCachePlan
<1>4. UNCHANGED <<argo, kube>>
  BY DEF ListCache
<1>5. TagsPlanned(w)'
  BY <1>1, <1>3, <1>4 DEF OnTrack, TagsPlanned, Annotated, Registered, Tag, argo
<1>6. DOMAIN profile = Profiles /\ DOMAIN appSet = Apps
  BY DEF TypeOK
<1>7. \A a \in Apps : TargetsOf(a, profile, plan[w].users) = Targets(a)
  <2>1. \A p \in Profiles :
          plan[w].users[p] = {c \in Registered : p \in Tag(c, argoCluster[c].ann)}
    BY <1>1 DEF OnTrack, UsersKnown
  <2>2. \A c \in Registered : Tag(c, argoCluster[c].ann) \subseteq Profiles
    BY DEF Registered, Tag, TypeOK, ArgoCluster, ClusterApp, Annotations
  <2>3. \A p : p \in Profs(profile) <=> p \in Profiles /\ profile[p].exists
    BY <1>6 DEF Profs
  <2> QED
    BY <2>1, <2>2, <2>3 DEF TargetsOf, Targets
<1>8. \A a \in Apps : a \notin DOMAIN plan'[w].elems => Listed(a)
  BY <1>3, <1>6, <1>7 DEF Listed, Valid
<1>9. \A p \in Profiles : p \notin DOMAIN plan'[w].invalid => Reported(p)
  <2>1. ASSUME NEW p \in Profiles, profile[p].exists
        PROVE  InvalidOf(p, profile, appSet) = {a \in profile[p].apps : ~appSet[a].exists}
    <3>1. profile[p].apps \subseteq Apps
      BY DEF TypeOK, Profile
    <3> QED
      BY <1>6, <3>1 DEF InvalidOf, Valid
  <2> QED
    BY <1>3, <1>6, <2>1 DEF Reported, Profs, Dirty
<1>10. WritesPlanned(w)'
  <2>1. \A a \in Apps : Listed(a)' <=> Listed(a)
    BY <1>4 DEF Listed, Targets, Registered, Tag, argo, kube
  <2>2. \A p \in Profiles : Reported(p)' <=> Reported(p)
    BY <1>4 DEF Reported, kube
  <2> QED
    BY <1>8, <1>9, <2>1, <2>2 DEF WritesPlanned
<1> QED
  BY <1>1, <1>5, <1>10 DEF OnTrack

(* Copying an annotation changes neither the annotation that counts nor,   *)
(* with it, whom an app is for.                                            *)
LEMMA TagClusterKeeps ==
  ASSUME TypeOK, OnePass, NEW w \in Workers, TagCluster(w), OnTrack(w), ~GivesUp(w)
  PROVE  OnTrack(w)' /\ mtx' = w
<1>1. PICK c \in DOMAIN plan[w].ann :
        /\ c \in Clusters /\ argoCluster[c].exists
        /\ argoCluster' = [argoCluster EXCEPT ![c].ann = plan[w].ann[c]]
        /\ plan'[w].ann = Without(plan[w].ann, c)
        /\ plan'[w].invalid = plan[w].invalid /\ plan'[w].elems = plan[w].elems
        /\ UNCHANGED <<clusterApp, kube, mtx, pc>>
  BY TagClusterEffect
<1>2. mtx' = w /\ pc[w] = "write" /\ pc'[w] = "write"
  BY <1>1 DEF TagCluster, OnePass
<1>3. TagsPlanned(w) /\ WritesPlanned(w)
  BY <1>2 DEF OnTrack
<1>4. plan[w].ann[c] = Tag(c, argoCluster[c].ann)
  BY <1>1, <1>3 DEF TagsPlanned, Registered
<1>5. /\ argoCluster \in [Clusters -> ArgoCluster]
      /\ \A d \in Clusters : argoCluster'[d].exists = argoCluster[d].exists
      /\ \A d \in Clusters \ {c} : argoCluster'[d].ann = argoCluster[d].ann
      /\ argoCluster'[c].ann = Tag(c, argoCluster[c].ann)
  BY <1>1, <1>4 DEF TypeOK, ArgoCluster
<1>6. Registered' = Registered
  BY <1>5 DEF Registered
<1>7. \A d \in Clusters : Tag(d, argoCluster[d].ann)' = Tag(d, argoCluster[d].ann)
  BY <1>1, <1>5 DEF Tag
<1>8. TagsPlanned(w)'
  <2>1. Annotated(c)'
    BY <1>1, <1>5, <1>7 DEF Annotated
  <2>2. \A d \in Clusters \ {c} : Annotated(d)' <=> Annotated(d)
    BY <1>5, <1>7 DEF Annotated
  <2>3. /\ DOMAIN plan'[w].ann = DOMAIN plan[w].ann \ {c}
        /\ \A d \in DOMAIN plan[w].ann \ {c} : plan'[w].ann[d] = plan[w].ann[d]
    BY <1>1 DEF Without, Restrict
  <2>4. Registered \subseteq Clusters
    BY DEF Registered
  <2> QED
    BY <1>3, <1>6, <1>7, <2>1, <2>2, <2>3, <2>4 DEF TagsPlanned
<1>9. WritesPlanned(w)'
  <2>1. \A a \in Apps : Targets(a)' = Targets(a)
    BY <1>1, <1>6, <1>7 DEF Targets, Registered, kube
  <2> QED
    BY <1>1, <1>3, <2>1 DEF WritesPlanned, Listed, Reported, kube
<1> QED
  BY <1>2, <1>8, <1>9 DEF OnTrack

(* A pass with nothing left to write has left nothing to be done. *)
LEMMA DoneKeeps ==
  ASSUME OnePass, NEW w \in Workers, Done(w), OnTrack(w)
  PROVE  mtx' = Nothing /\ Consistent'
<1>1. mtx = w /\ mtx' = Nothing
  BY DEF OnePass, Done, Return
<1>2. TagsPlanned(w) /\ WritesPlanned(w)
  BY DEF Done, OnTrack
<1>3. DOMAIN plan[w].ann = {} /\ DOMAIN plan[w].invalid = {} /\ DOMAIN plan[w].elems = {}
  BY DEF Done
<1>4. Consistent
  BY <1>2, <1>3 DEF TagsPlanned, WritesPlanned, Annotated, Listed, Reported, Consistent
<1>5. UNCHANGED <<argo, kube>>
  BY DEF Done
<1> QED
  BY <1>1, <1>4, <1>5 DEF Consistent, Targets, Registered, Tag, argo, kube

(* No step loses an event. *)
LEMMA LostStep ==
  TypeOK /\ OnePass /\ CopiesOK /\ NothingLost /\ [Next]_vars => NothingLost'
<1> SUFFICES ASSUME TypeOK, OnePass, CopiesOK, NothingLost, [Next]_vars
             PROVE  NothingLost'
  OBVIOUS
<1>1. ASSUME NEW w \in Workers, Pass(w)
      PROVE  NothingLost'
  <2>1. mtx = w
    BY <1>1, Busy DEF OnePass
  <2>2. Waking \/ OnTrack(w)
    BY <2>1, WorkersAssumption DEF NothingLost
  <2>3. CASE Return(w, TRUE)
    BY <2>3, FailureWakes DEF NothingLost
  <2>4. CASE ListClusters(w)
    BY <2>4, ListClustersKeeps
  <2>5. CASE Waking /\ UNCHANGED <<queue, fresh, unseen>>
    BY <2>5, StillWaking DEF NothingLost
  <2>6. CASE ListApps(w)
    <3>1. UNCHANGED <<queue, fresh, unseen>>
      BY <2>6 DEF ListApps
    <3> QED
      BY <2>2, <2>5, <2>6, <3>1, ListAppsKeeps DEF NothingLost
  <2>7. CASE ListCache(w)
    <3>1. UNCHANGED <<queue, fresh, unseen>>
      BY <2>7 DEF ListCache
    <3>2. ~Waking => fresh = Objects
      BY DEF Waking
    <3> QED
      BY <2>2, <2>5, <2>7, <3>1, <3>2, ListCacheKeeps DEF NothingLost
  <2>8. CASE TagCluster(w) /\ ~GivesUp(w)
    <3>1. UNCHANGED <<queue, fresh, unseen>>
      BY <2>8, TagClusterEffect
    <3> QED
      BY <2>2, <2>5, <2>8, <3>1, TagClusterKeeps DEF NothingLost
  <2>9. CASE (ReportProfile(w) \/ WriteAppSet(w)) /\ ~GivesUp(w)
    <3>1. \E x \in Objects : Stale(x)
      BY <2>9, ReportProfileEffect, WriteAppSetEffect DEF Objects
    <3> QED
      BY <3>1, NewWaking DEF NothingLost
  <2>10. CASE Done(w)
    <3>1. UNCHANGED <<queue, fresh, unseen>>
      BY <2>10 DEF Done, Return
    <3> QED
      BY <2>2, <2>5, <2>10, <3>1, DoneKeeps DEF NothingLost
  <2> QED
    BY <1>1, <2>3, <2>4, <2>6, <2>7, <2>8, <2>9, <2>10 DEF Pass, Fail, GivesUp
<1>2. CASE UNCHANGED vars
  <2>1. Waking' <=> Waking
    BY <1>2 DEF vars, Waking
  <2>2. Consistent' <=> Consistent
    BY <1>2 DEF vars, Consistent, Targets, Registered, Tag
  <2>3. ASSUME NEW w \in Workers
        PROVE  OnTrack(w)' <=> OnTrack(w)
    <3>1. ClustersKnown(w)' <=> ClustersKnown(w)
      BY <1>2 DEF vars, ClustersKnown, Registered
    <3>2. UsersKnown(w)' <=> UsersKnown(w)
      BY <1>2 DEF vars, UsersKnown, Registered, Tag
    <3>3. TagsPlanned(w)' <=> TagsPlanned(w)
      BY <1>2 DEF vars, TagsPlanned, Annotated, Registered, Tag
    <3>4. WritesPlanned(w)' <=> WritesPlanned(w)
      BY <1>2 DEF vars, WritesPlanned, Listed, Reported, Targets, Registered, Tag
    <3> QED
      BY <1>2, <3>1, <3>2, <3>3, <3>4 DEF vars, OnTrack
  <2> QED
    BY <1>2, <2>1, <2>2, <2>3 DEF vars, NothingLost
<1> QED
  BY <1>1, <1>2, EventsWake, RestartKeeps DEF Next, NothingLost

-----------------------------------------------------------------------------
(* The theorems *)

(* The inductive invariant holds initially. *)
LEMMA DeliveryInit == Init => DeliveryInv
<1> SUFFICES ASSUME Init
             PROVE  DeliveryInv
  OBVIOUS
<1>1. TypeOK
  BY TypeInit
<1>2. OnePass
  BY WorkersAssumption DEF Init, OnePass
<1>3. PlansOK
  BY NoPlanOK DEF Init, PlansOK, PlanOK
<1>4. CopiesOK
  BY DEF Init, CopiesOK
<1>5. HeldOK
  BY DEF Init, HeldOK
<1>6. GoneOK
  <2> DEFINE P == {[NoProfile EXCEPT !.exists = TRUE, !.apps = S] : S \in SUBSET Apps}
             A == {[exists |-> TRUE, elems |-> [c \in C |-> argoCluster[c].server]] :
                     C \in SUBSET Clusters}
  <2>1. (\A r \in P : r.exists) /\ (\A r \in A : r.exists)
    <3>1. \A S \in SUBSET Apps : [NoProfile EXCEPT !.exists = TRUE, !.apps = S].exists
      BY DEF NoProfile
    <3>2. \A r \in P : r.exists
      BY <3>1
    <3>3. \A C : [exists |-> TRUE, elems |-> [c \in C |-> argoCluster[c].server]].exists
      OBVIOUS
    <3>4. \A r \in A : r.exists
      BY <3>3
    <3> QED
      BY <3>2, <3>4
  <2>2. profile \in [Profiles -> {NoProfile} \cup P] /\ appSet \in [Apps -> {NoAppSet} \cup A]
    BY DEF Init
  <2> HIDE DEF P, A
  <2> QED
    BY <2>1, <2>2 DEF GoneOK
<1>7. NothingLost
  <2>1. CASE Existing # {}
    BY <2>1 DEF Init, NothingLost, Waking
  <2>2. CASE Existing = {}
    <3>1. /\ \A p \in Profiles : ~profile[p].exists
          /\ \A a \in Apps : ~appSet[a].exists
          /\ \A c \in Clusters : ~clusterApp[c].exists
      BY <2>2 DEF Existing
    <3>2. Consistent
      BY <3>1 DEF Consistent, Registered, Tag
    <3> QED
      BY <3>2 DEF Init, NothingLost
  <2> QED
    BY <2>1, <2>2
<1> QED
  BY <1>1, <1>2, <1>3, <1>4, <1>5, <1>6, <1>7 DEF DeliveryInv

(* What the passes rely on, and that no event is lost, holds whenever and  *)
(* however often users, failures and crashes get between their calls.      *)
THEOREM DeliveryCorrect == Spec => []DeliveryInv
<1>1. DeliveryInv /\ [Next]_vars => DeliveryInv'
  BY TypeStep, PassStep, PlansStep, CopiesStep, HeldStep, GoneStep, LostStep DEF DeliveryInv
<1> QED
  BY <1>1, DeliveryInit, PTL DEF Spec

(* Every variable keeps its type; in particular no element without a       *)
(* server gets into an ApplicationSet.                                     *)
THEOREM DeliveryTypeCorrect == Spec => []TypeOK
<1>1. DeliveryInv => TypeOK
  BY DEF DeliveryInv
<1> QED
  BY <1>1, DeliveryCorrect, PTL

(* When no event is left, apps and statuses are what the annotations and   *)
(* profiles ask for, except where nobody tells the controllers.            *)
THEOREM QuietCorrect == Spec => []QuietIsConsistent
<1>1. DeliveryInv => QuietIsConsistent
  <2> SUFFICES ASSUME DeliveryInv, Quiet, ~unseen
               PROVE  Consistent
    BY DEF QuietIsConsistent
  <2>1. ~Waking
    BY DEF Quiet, Waking
  <2>2. \A w \in Workers : mtx # w
    BY DEF DeliveryInv, OnePass, Quiet
  <2> QED
    BY <2>1, <2>2 DEF DeliveryInv, NothingLost
<1> QED
  BY <1>1, DeliveryCorrect, PTL

(* No pass writes on a copy that is not current. *)
THEOREM WritesCorrect == Spec => WritesAreCurrent
<1> DEFINE Step ==
      /\ \A p \in Profiles :
           profile'[p].invalid # profile[p].invalid /\ profile'[p] # NoProfile
             => profile[p].exists /\ profile'[p].invalid \subseteq profile'[p].apps
      /\ \A a \in Apps :
           appSet'[a].elems # appSet[a].elems /\ appSet'[a] # NoAppSet
             => appSet[a].exists
<1>1. DeliveryInv /\ [Next]_vars => [Step]_vars
  <2> SUFFICES ASSUME DeliveryInv, [Next]_vars
               PROVE  Step
    OBVIOUS
  <2>1. TypeOK /\ HeldOK /\ GoneOK
    BY DEF DeliveryInv
  <2>2. CASE UNCHANGED kube
    BY <2>2 DEF kube
  <2>3. ASSUME NEW w \in Workers, ReportProfile(w) \/ WriteAppSet(w), ~GivesUp(w)
        PROVE  Step
    BY <2>1, <2>3, ReportIsCurrent, WriteIsCurrent
  <2>4. ASSUME NEW p \in Profiles, EditProfile(p)
        PROVE  Step
    BY <2>1, <2>4, EditProfileEffect
  <2>5. ASSUME NEW p \in Profiles, DeleteProfile(p)
        PROVE  Step
    BY <2>1, <2>5 DEF DeleteProfile, TypeOK
  <2>6. ASSUME NEW a \in Apps, ToggleApp(a)
        PROVE  Step
    BY <2>1, <2>6, ToggleAppEffect DEF GoneOK
  <2> QED
    BY <2>2, <2>3, <2>4, <2>5, <2>6, Writers
<1> QED
  BY <1>1, DeliveryCorrect, PTL DEF Spec, WritesAreCurrent
=============================================================================
