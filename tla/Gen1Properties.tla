---------------------------- MODULE Gen1Properties ----------------------------
(***************************************************************************)
(* What users of bundles, profiles and gen1 clusters may rely on, and the  *)
(* slips in the code the properties guard against.                         *)
(***************************************************************************)
EXTENDS Gen1Clusters

Pcs == {"idle", "find bundle", "read bundle", "write bundle", "check", "read profile", "render",
        "clone", "push", "save", "delete config", "find spec", "get spec", "write spec",
        "find app", "find profile", "settings"}

IsConfig(x) == IF IsSpec(x) THEN x.settings \in ClusterSpec ELSE x.legacy \in Profile

(* Every object keeps its shape: an option that is not given never reaches *)
(* an object, a config map stays one of the two kinds, and only what has a *)
(* directory is pushed.                                                    *)
TypeOK ==
  /\ \A u \in Users : cmd[u].pc \in Pcs /\ (Pushed(u) => cmd[u].name \in Directories)
  /\ torn \subseteq Directories
  /\ started \in 0..MaxCommands
  /\ \A b \in Bundles : secret[b] # None => secret[b] \in Bundle
  /\ \A n \in Names : profile[n] # None => profile[n] \in Profile
  /\ \A n \in Names : config[n] # None => IsConfig(config[n])
  /\ \A c \in Clusters : app[c] # None => app[c] \in App

(* An ArgoCD application of a gen1 cluster, and the profile application of *)
(* whoever uses a dynamic profile, always finds its directory in git:      *)
(* createInGit and DeployToGit come before the object, whatever fails in   *)
(* between and whoever else pushes.                                        *)
DirectoryFirst ==
  /\ \A c \in Clusters : app[c] # None => tree[c] # None
  /\ \A n \in Names : profile[n] # None /\ profile[n].dynamic => tree[n] # None

Settled(d) == d \notin torn /\ \A u \in Users : Pushed(u) => cmd[u].name # d

HoldsProfile(files, p) ==
  /\ DOMAIN files.bundles = p.bundles
  /\ \A b \in p.bundles :
       "param" \in DOMAIN files.bundles[b] => files.bundles[b].param = p.params[b]

(* Unless a command was cut off between its push and its write, or lost a  *)
(* race for either, the directory of a dynamic profile holds the bundles   *)
(* and parameters of its resource, and that of a cluster refers to the     *)
(* profile its application names.                                          *)
DirectoryMatches ==
  /\ \A n \in Names :
       profile[n] # None /\ profile[n].dynamic /\ Settled(n) => HoldsProfile(tree[n], profile[n])
  /\ \A c \in Clusters :
       app[c] # None /\ Settled(c) /\ "of" \in DOMAIN tree[c] => tree[c].of = app[c].profile

(* An update of a bundle or a profile changes what was asked and nothing   *)
(* else: what another user has written since it was read is never undone   *)
(* by writing an old copy back.                                            *)
ChangesOnlyAsked ==
  [][/\ \A b \in Bundles :
          secret[b] # None /\ secret'[b] \notin {None, secret[b]} =>
            \E u \in Users : /\ cmd[u].op = "update bundle" /\ cmd[u].name = b
                             /\ secret'[b] = Edited(secret[b], cmd[u].arg)
     /\ \A n \in Names :
          profile[n] # None /\ profile'[n] \notin {None, profile[n]} =>
            \E u \in Users : /\ cmd[u].op = "update profile" /\ cmd[u].name = n
                             /\ profile'[n] = Merged(profile[n], cmd[u].arg)]_vars

(* docs/tutorial.md: after `karlon clusterspec update`, `karlon cluster    *)
(* update` without flags brings the new settings to the cluster.  What     *)
(* this needs: an update of a cluster that is there to stay, once it has   *)
(* passed all of its checks and as nobody else is at work, ends with the   *)
(* settings it has read.                                                   *)
SpecChangeApplied ==
  [][\A u \in Users :
       LET c == cmd[u].name
       IN (Clone(u) \/ Push(u) \/ SaveApp(u)) /\ cmd[u].op = "update cluster" /\ cmd'[u] = Idle
            /\ app[c] # None /\ ~app[c].deleting
            => app'[c].settings = cmd[u].obj.settings]_vars
=============================================================================
