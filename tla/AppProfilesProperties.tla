------------------------ MODULE AppProfilesProperties ------------------------
(* What AppProfiles is checked for. *)
EXTENDS AppProfiles

Registered == {c \in Clusters : argoCluster[c].exists}

(* The clusters an app is to be deployed to: the union over the profiles   *)
(* that list it of the clusters annotated with the profile.                *)
Targets(a) ==
  {c \in Registered :
     \E p \in Tag(c, argoCluster[c].ann) : profile[p].exists /\ a \in profile[p].apps}

Consistent ==
  /\ \A c \in Registered : argoCluster[c].ann = Tag(c, argoCluster[c].ann)
  /\ \A a \in Apps : appSet[a].exists => DOMAIN appSet[a].elems = Targets(a)
  /\ \A p \in Profiles : profile[p].exists =>
       /\ profile[p].invalid = {a \in profile[p].apps : ~appSet[a].exists}
       /\ profile[p].health = Health(profile[p].invalid)

(* Nothing is left to do, as far as the controllers can tell. *)
Quiet ==
  /\ queue = {} /\ fresh = Objects
  /\ \A w \in Workers : pc[w] = "idle"

(* No lost wakeup: when no event is left, every app is listed for exactly  *)
(* the clusters the annotations ask for and every profile's status is      *)
(* right -- unless, since the last pass read ArgoCD, its clusters changed, *)
(* of which nobody is told, or the end of a cluster app was answered with  *)
(* nothing.                                                                *)
QuietIsConsistent == Quiet /\ ~unseen => Consistent

(* A pass decides on copies that may be old but writes on none that is:    *)
(* the names it reports as invalid are ones the profile still lists, and a *)
(* profile or ApplicationSet that is gone is not written.                  *)
WritesAreCurrent ==
  [][/\ \A p \in Profiles :
          profile'[p].invalid # profile[p].invalid /\ profile'[p] # NoProfile
            => profile[p].exists /\ profile'[p].invalid \subseteq profile'[p].apps
     /\ \A a \in Apps :
          appSet'[a].elems # appSet[a].elems /\ appSet'[a] # NoAppSet
            => appSet[a].exists]_vars

(* The controllers answer their own writes with more passes, but do come   *)
(* to rest once the users leave the system alone.                          *)
ComesToRest == <>[]Quiet

=============================================================================
