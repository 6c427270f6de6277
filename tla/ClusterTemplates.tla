-------------------------- MODULE ClusterTemplates ---------------------------
(***************************************************************************)
(* Cluster templates: directories of a git repository, prepared by `karlon *)
(* clustertemplate preparegit`, checked by `validategit` and by the        *)
(* Cluster controller, and the manifests that `karlon cluster create`      *)
(* pushes.  Each command works on a clone of the branch and pushes it; a   *)
(* push is refused when the branch has moved.  Others edit the directories *)
(* at any time.                                                            *)
(***************************************************************************)
EXTENDS RepoContexts

CONSTANTS
  Dirs,       \* directories of a repository
  Contents,   \* what people put into a directory
  AllBounds,  \* autoscaler bounds that a user may ask for
  Manifest,   \* the manifest that `cluster create` generates, and
  Generated   \* its file's name

IsManifest(m) == \A i \in DOMAIN m : DOMAIN m[i] = {"kind", "ns", "max", "min"}
IsDirectory(D) ==
  /\ DOMAIN D = {"sub", "kust", "conf", "files"} /\ None \notin DOMAIN D.files
  /\ \A f \in DOMAIN D.files : IsManifest(D.files[f])

ASSUME TemplatesAssumption ==
  /\ \A D \in Contents : IsDirectory(D)
  /\ IsManifest(Manifest) /\ Generated # None

VARIABLES
  dir,   \* dir[r][d]: content of directory d at the head of r's branch
  ready  \* history: directories reported as prepared, and not edited since

gitVars == <<dir, ready>>

(* A directory.  sub: it has a subdirectory; kust: the manifest that its   *)
(* kustomization.yaml names, None without one; conf: it has a              *)
(* configurations.yaml; files: its other files, manifests by name.  A      *)
(* manifest is a sequence of resources: kind, whether it has a namespace,  *)
(* and the annotations with the autoscaler's bounds, or None.              *)
Directory(sub, kust, conf, files) ==
  [sub |-> sub, kust |-> kust, conf |-> conf, files |-> files]
Resource(kind, ns, max, min) == [kind |-> kind, ns |-> ns, max |-> max, min |-> min]
NoFiles == [f \in {} |-> <<>>]
Nothing == Directory(FALSE, None, FALSE, NoFiles)
Bounds(max, min) == [max |-> max, min |-> min]

(* Git keeps no directory without files.                                   *)
IsThere(D) == D # Nothing

TheManifest(D) == CHOOSE f \in DOMAIN D.files : TRUE
OneCluster(m) == Cardinality({i \in DOMAIN m : m[i].kind = "Cluster"}) = 1

(* Exactly one file besides the two of kustomize, and one cluster in it.   *)
HasManifest(D) ==
  /\ ~D.sub /\ Cardinality(DOMAIN D.files) = 1
  /\ OneCluster(D.files[TheManifest(D)])

NoNamespace(m) == \A i \in DOMAIN m : ~m[i].ns

Valid(D) ==
  /\ HasManifest(D) /\ NoNamespace(D.files[TheManifest(D)])
  /\ D.kust # None /\ D.conf

\* Mutant: bounds in the manifest give way to those asked for.
BoundedAnew(r, b) == IF r.kind = "MachineDeployment" THEN [r EXCEPT !.max = b.max, !.min = b.min] ELSE r

(* A MachineDeployment gets each of the bounds that it does not have.      *)
Bounded(r, b) ==
  IF r.kind = "MachineDeployment"
  THEN [r EXCEPT !.max = IF @ = None THEN b.max ELSE @,
                 !.min = IF @ = None THEN b.min ELSE @]
  ELSE r

\* Mutant: only the cluster loses its namespace.
PreparedClusterOnly(m, b) ==
  [i \in DOMAIN m |-> Bounded([m[i] EXCEPT !.ns = @ /\ m[i].kind # "Cluster"], b)]

PreparedManifest(m, b) == [i \in DOMAIN m |-> Bounded([m[i] EXCEPT !.ns = FALSE], b)]

PreparedDir(D, b) ==
  LET f == TheManifest(D)
  IN Directory(FALSE, IF D.kust = None THEN f ELSE D.kust, TRUE,
               [D.files EXCEPT ![f] = PreparedManifest(@, b)])

(*------------------------------- Commands --------------------------------*)

PrepareGit(u) ==
  \E a \in Aliases, d \in Dirs, b \in AllBounds :
    /\ Issue(u, [Idle EXCEPT !.pc = "resolve", !.op = "prepare", !.alias = a, !.at = d, !.with = b])
    /\ UNCHANGED <<file, known, contexts, suspect, gitVars>>

CreateManifest(u) ==
  \E a \in Aliases, d \in Dirs :
    /\ Issue(u, [Idle EXCEPT !.pc = "resolve", !.op = "create", !.alias = a, !.at = d])
    /\ UNCHANGED <<file, known, contexts, suspect, gitVars>>

(* The alias is looked up in the file; to prepare a directory, ArgoCD must *)
(* have credentials for it.                                                *)
Resolve(u) ==
  LET c == cmd[u]
      r == UrlOf(file, c.alias)
  IN /\ c.pc = "resolve"
     /\ IF r = None \/ (c.op # "create" /\ r \notin known) THEN End(u)
        ELSE Goto(u, [c EXCEPT !.pc = IF c.op = "create" THEN "write" ELSE "prepare", !.url = r])
     /\ UNCHANGED <<started, file, known, contexts, suspect, gitVars>>

(* A change of one directory; a tree of directories, some of them changed. *)
Only(d, D) == [x \in {d} |-> D]
Changed(tree, files) == [d \in DOMAIN tree |-> IF d \in DOMAIN files THEN files[d] ELSE tree[d]]

(* u's clone with the given directories changed is committed.              *)
Commit(u, files, prep) ==
  Goto(u, [cmd[u] EXCEPT !.pc = "push", !.files = files, !.prep = prep, !.current = TRUE,
                         !.seen = [d \in DOMAIN files |-> dir[cmd[u].url][d]]])

Prepare(u) ==
  LET c == cmd[u]
      D == dir[c.url][c.at]
  IN /\ c.pc = "prepare"
     /\ \/ ~HasManifest(D) /\ End(u) /\ UNCHANGED ready
        \/ /\ HasManifest(D) /\ PreparedDir(D, c.with) = D
           /\ ready' = ready \union {<<c.url, c.at>>}
           /\ Goto(u, After(c))
        \/ /\ HasManifest(D) /\ PreparedDir(D, c.with) # D
           /\ Commit(u, Only(c.at, PreparedDir(D, c.with)), TRUE)
           /\ UNCHANGED ready
     /\ UNCHANGED <<started, file, known, contexts, suspect, dir>>

Holding(D, f, m) ==
  [D EXCEPT !.files = [g \in DOMAIN @ \union {f} |-> IF g = f THEN m ELSE @[g]]]

(* The commit of a manifest that is there already is refused.              *)
Write(u) ==
  LET c == cmd[u]
      D == dir[c.url][c.at]
  IN /\ c.pc = "write"
     /\ IF Holding(D, Generated, Manifest) = D THEN End(u)
        ELSE Commit(u, Only(c.at, Holding(D, Generated, Manifest)), FALSE)
     /\ UNCHANGED <<started, file, known, contexts, suspect, gitVars>>

(* The branch of r moves on: other clones are no longer current.           *)
Stale(v, r) == [cmd[v] EXCEPT !.current = @ /\ cmd[v].url # r]

Touched(c) == {c.url} \X DOMAIN c.files

\* Mutant: a push replaces the branch.
PushForced(u) ==
  LET c == cmd[u]
  IN /\ c.pc = "push"
     /\ dir' = [dir EXCEPT ![c.url] = Changed(@, c.files)]
     /\ ready' = IF c.prep THEN ready \union Touched(c) ELSE ready \ Touched(c)
     /\ cmd' = [v \in Users |-> IF v = u THEN After(c) ELSE Stale(v, c.url)]
     /\ UNCHANGED <<started, file, known, contexts, suspect>>

Push(u) ==
  LET c == cmd[u]
  IN /\ c.pc = "push"
     /\ IF c.current
        THEN /\ dir' = [dir EXCEPT ![c.url] = Changed(@, c.files)]
             /\ ready' = IF c.prep THEN ready \union Touched(c) ELSE ready \ Touched(c)
             /\ cmd' = [v \in Users |-> IF v = u THEN After(c) ELSE Stale(v, c.url)]
        ELSE End(u) /\ UNCHANGED gitVars
     /\ UNCHANGED <<started, file, known, contexts, suspect>>

(* Someone commits to a directory.                                         *)
Edit(r, d) ==
  /\ dir' \in {[dir EXCEPT ![r][d] = D] : D \in Contents \ {dir[r][d]}}
  /\ ready' = ready \ {<<r, d>>}
  /\ cmd' = [v \in Users |-> Stale(v, r)]
  /\ UNCHANGED <<started, file, known, contexts, suspect>>

TemplateInit ==
  /\ ContextInit
  /\ dir \in [Repos -> [Dirs -> Contents]]
  /\ ready = {}

TemplateStep(u) ==
  \/ PrepareGit(u) \/ CreateManifest(u) \/ Resolve(u)
  \/ Prepare(u) \/ Write(u) \/ Push(u)

(*------------------------------ Properties -------------------------------*)

(* A directory that preparegit has reported as prepared, or as needing no  *)
(* preparation, is valid, until someone else changes it: "if prep is       *)
(* successful, another invocation of validategit should succeed as well".  *)
PreparedIsValid == \A p \in ready : Valid(dir[p[1]][p[2]])

Pushes(u) == cmd[u].pc = "push" /\ dir' # dir /\ cmd'[u].pc # "push"

(* No push undoes what others have pushed since the clone it comes from.   *)
NothingUndone ==
  [][\A u \in Users : Pushes(u) =>
       \A d \in DOMAIN cmd[u].files : cmd[u].seen[d] = dir[cmd[u].url][d]]_<<dir, cmd>>

(* Preparing a directory keeps the autoscaler bounds that are in it,       *)
(* whichever are asked for.                                                *)
BoundsKept ==
  [][\A u \in Users : Pushes(u) /\ cmd[u].prep =>
       \A d \in DOMAIN cmd[u].files :
         LET D == dir[cmd[u].url][d]
             f == TheManifest(D)
         IN \A i \in DOMAIN D.files[f] :
              /\ D.files[f][i].max \in {None, dir'[cmd[u].url][d].files[f][i].max}
              /\ D.files[f][i].min \in {None, dir'[cmd[u].url][d].files[f][i].min}]_<<dir, cmd>>
=============================================================================
