----------------------------- MODULE Initialize ------------------------------
(***************************************************************************)
(* `karlon init`: installs ArgoCD and karlon's controllers in the          *)
(* management cluster, and Cluster API; with --examples also registers a   *)
(* git repository as the default one and adds example cluster templates    *)
(* to it.  Several may run at once, with the other commands; any may be    *)
(* cut off anywhere and be run again.                                      *)
(***************************************************************************)
EXTENDS ClusterTemplates

CONSTANTS
  Examples,       \* the directories of the examples, in order
  Template,       \* the manifest that clusterctl generates for each, and
  TemplateFile,   \* its file's name
  DefaultBounds   \* the autoscaler bounds that it is prepared with

ASSUME InitializeAssumption ==
  Examples \in Seq(Dirs) /\ IsManifest(Template) /\ TemplateFile # None

VARIABLES
  argo,      \* how far ArgoCD's manifest has been applied
  karlon,    \* the parts of karlon that are in the cluster
  capi,      \* whether Cluster API is installed
  reported,  \* history: an init has ended well
  partial    \* history: one was cut off, or told not to install something

installVars == <<argo, karlon, capi, reported, partial>>
vars == <<contextVars, gitVars, installVars>>
repoVars == <<file, known, contexts, suspect, gitVars>>

(* ArgoCD's manifest: argocd-server is not the last of it.                 *)
NoArgo == 0
Server == 1
AllOfArgo == 2

(* What is installed of karlon, in this order.                             *)
Parts == <<"namespace", "accounts", "credentials", "crds", "controllers">>
PartNames == {Parts[i] : i \in DOMAIN Parts}

(* What remains to be done, and where.  Each example is added to the       *)
(* repository given, and prepared.                                         *)
ToDo(r, examples) ==
  LET then(pc, d) == [pc |-> pc, at |-> d, url |-> r]
      first == <<then("clear file", None), then("register", None), then("check", None)>>
      each == [i \in 1..(2 * Len(Examples)) |->
                 then(IF i % 2 = 1 THEN "add" ELSE "resolve", Examples[(i + 1) \div 2])]
  IN (IF examples THEN first \o each ELSE <<>>) \o <<then("report", None)>>

Initialize(u) ==
  \E r \in Repos, examples \in BOOLEAN :
    /\ Issue(u, [Idle EXCEPT !.pc = "argo?", !.op = "init", !.url = r, !.alias = Default,
                             !.with = DefaultBounds, !.todo = ToDo(r, examples)])
    /\ UNCHANGED <<repoVars, installVars>>

At(u, pc) == cmd[u].pc = pc
To(u, pc, n) == Goto(u, [cmd[u] EXCEPT !.pc = pc, !.at = n])

(*---------------------------- The installation ---------------------------*)

(* Installed, for init, is what has an argocd-server; the user may decline.*)
LookForArgo(u) ==
  /\ At(u, "argo?")
  /\ IF argo >= Server THEN To(u, "karlon?", None) /\ UNCHANGED partial
     ELSE \/ To(u, "argo", Server) /\ UNCHANGED partial
          \/ To(u, "karlon?", None) /\ partial' = TRUE
  /\ UNCHANGED <<started, repoVars, argo, karlon, capi, reported>>

ApplyArgo(u) ==
  LET n == cmd[u].at
  IN /\ At(u, "argo")
     /\ argo' = IF n > argo THEN n ELSE argo
     /\ IF n = AllOfArgo THEN To(u, "karlon?", None) ELSE To(u, "argo", n + 1)
     /\ UNCHANGED <<started, repoVars, karlon, capi, reported, partial>>

(* Installed, for init and for verify, is what has the namespace.          *)
LookForKarlon(u) ==
  /\ At(u, "karlon?")
  /\ IF "namespace" \in karlon THEN To(u, "capi", None) /\ UNCHANGED partial
     ELSE \/ To(u, "login", None) /\ UNCHANGED partial
          \/ To(u, "capi", None) /\ partial' = TRUE
  /\ UNCHANGED <<started, repoVars, argo, karlon, capi, reported>>

(* A port is forwarded to argocd-server, to log in to it.                  *)
Login(u) ==
  /\ At(u, "login")
  /\ IF argo >= Server THEN To(u, "install", 1) ELSE End(u)
  /\ UNCHANGED <<started, repoVars, installVars>>

\* Mutant: the controllers' manifests are left out.
InstallFewer(u) ==
  LET n == cmd[u].at
      p == Parts[n]
      refused == p = "credentials" /\ p \in karlon
  IN /\ At(u, "install")
     /\ karlon' = karlon \union {p}
     /\ CASE refused -> End(u)
          [] ~refused /\ n < 4 -> To(u, "install", n + 1)
          [] OTHER -> To(u, "capi", None)
     /\ UNCHANGED <<started, repoVars, argo, capi, reported, partial>>

\* Mutant: a token that is not given is no reason to stop.
InstallRegardless(u) ==
  LET n == cmd[u].at
      p == Parts[n]
  IN /\ At(u, "install")
     /\ \/ karlon' = karlon \union {p}
        \/ p = "credentials" /\ UNCHANGED karlon
     /\ IF n < Len(Parts) THEN To(u, "install", n + 1) ELSE To(u, "capi", None)
     /\ UNCHANGED <<started, repoVars, argo, capi, reported, partial>>

(* What exists already is passed over, but for the credentials.            *)
Install(u) ==
  LET n == cmd[u].at
      p == Parts[n]
      refused == p = "credentials" /\ p \in karlon
  IN /\ At(u, "install")
     /\ karlon' = karlon \union {p}
     /\ CASE refused -> End(u)
          [] ~refused /\ n < Len(Parts) -> To(u, "install", n + 1)
          [] OTHER -> To(u, "capi", None)
     /\ UNCHANGED <<started, repoVars, argo, capi, reported, partial>>

(* clusterctl may refuse to install providers that are there already.      *)
InstallCapi(u) ==
  /\ At(u, "capi")
  /\ capi' = TRUE
  /\ \/ Goto(u, After(cmd[u]))
     \/ capi /\ End(u)
  /\ UNCHANGED <<started, repoVars, argo, karlon, reported, partial>>

Report(u) ==
  /\ At(u, "report")
  /\ reported' = TRUE
  /\ End(u)
  /\ UNCHANGED <<started, repoVars, argo, karlon, capi, partial>>

(*------------------------------ The examples -----------------------------*)

(* The file of contexts is removed; who has it open goes on with a file    *)
(* that has no name any more.                                              *)
ClearFile(u) ==
  LET c == cmd[u]
  IN /\ At(u, "clear file")
     /\ file' = Empty
     /\ contexts' = {}
     /\ suspect' = OtherWriter(u)
     /\ cmd' = [v \in Users |-> IF v = u THEN After(c) ELSE [cmd[v] EXCEPT !.linked = FALSE]]
     /\ UNCHANGED <<started, known, gitVars, installVars>>

(* Example directories that are there are removed, if the user agrees. If  *)
(* there was none, the commit of no change is refused.                     *)
Check(u) ==
  LET r == cmd[u].url
      found == {Examples[i] : i \in DOMAIN Examples} \intersect {d \in Dirs : IsThere(dir[r][d])}
  IN /\ At(u, "check")
     /\ \/ found # {} /\ Commit(u, [d \in found |-> Nothing], FALSE)
        \/ End(u)
     /\ UNCHANGED <<started, repoVars, installVars>>

(* The example's manifest is written; then the directory is prepared, in   *)
(* the repository that is then the default.                                *)
Add(u) ==
  LET c == cmd[u]
      D == dir[c.url][c.at]
      new == Holding(D, TemplateFile, Template)
  IN /\ At(u, "add")
     /\ IF new = D THEN Goto(u, After(c)) ELSE Commit(u, Only(c.at, new), FALSE)
     /\ UNCHANGED <<started, repoVars, installVars>>

(*--------------------------- The specification ---------------------------*)

CutOff(u) ==
  /\ Interrupt(u)
  /\ partial' = (partial \/ cmd[u].op = "init")
  /\ UNCHANGED <<gitVars, argo, karlon, capi, reported>>

InstallInit ==
  /\ argo = NoArgo /\ karlon = {} /\ capi = FALSE
  /\ reported = FALSE /\ partial = FALSE

Init == TemplateInit /\ InstallInit

Step(u) ==
  \/ ContextStep(u) /\ UNCHANGED <<gitVars, installVars>>
  \/ TemplateStep(u) /\ UNCHANGED installVars
  \/ Initialize(u) \/ LookForArgo(u) \/ ApplyArgo(u) \/ LookForKarlon(u) \/ Login(u)
  \/ Install(u) \/ InstallCapi(u) \/ Report(u)
  \/ ClearFile(u) \/ Check(u) \/ Add(u)
  \/ CutOff(u)

Next ==
  \/ \E u \in Users : Step(u)
  \/ \E r \in Repos, d \in Dirs : Edit(r, d) /\ UNCHANGED installVars

Spec == Init /\ [][Next]_vars

(*------------------------------ Properties -------------------------------*)

(* Every variable keeps its type; a store is of a configuration, a push is *)
(* of directories, and karlon's parts are in the cluster in their order.   *)
TypeOK ==
  /\ \A u \in Users : cmd[u].url \in Repos \union {None} /\ cmd[u].alias \in Aliases \union {None}
  /\ \A u \in Users : At(u, "store") => DOMAIN cmd[u].cfg = {"default", "repos"}
  /\ \A u \in Users : At(u, "push") => DOMAIN cmd[u].files \subseteq Dirs /\ cmd[u].url \in Repos
  /\ file = Garbage \/ file.default \in Repos \union {None}
  /\ known \subseteq Repos /\ ready \subseteq Repos \X Dirs
  /\ argo \in NoArgo..AllOfArgo
  /\ \E n \in 0..Len(Parts) : karlon = {Parts[i] : i \in 1..n}

InitRuns == \E u \in Users : cmd[u].op = "init"

(* When an init has ended well, none runs any more, and none was cut off   *)
(* or told to leave something out, all is installed: also when several ran *)
(* at once, and the one that ended well did so because another had begun.  *)
SuccessMeansInstalled ==
  reported /\ ~InitRuns /\ ~partial =>
    argo = AllOfArgo /\ karlon = PartNames /\ capi

(* The controllers are deployed only where the credentials for ArgoCD and  *)
(* the resource definitions that they need have been installed.            *)
ControllersLast ==
  "controllers" \in karlon => {"accounts", "credentials", "crds"} \subseteq karlon
=============================================================================
