------------------------------ MODULE Gen1Proofs ------------------------------
(* The properties of bundles, profiles and gen1 clusters, for every set of *)
(* users, bundles, profiles and clusters and any number of commands.       *)
EXTENDS Gen1Properties, TLAPS

BundleEdit == [data : Data \union {None}, text : Texts \union {None}]
ProfileEdit ==
  [bundles : (SUBSET Bundles) \union {None}, text : Texts \union {None}, params : Params]
SpecEdit == [size : Sizes \union {None}, max : Sizes]
ClusterArg == [profile : Names, spec : Names]
ClusterEdit == [profile : Names \union {None}, spec : Names \union {None}]
Settings == [settings : ClusterSpec]
Legacy == [legacy : Profile]

ProfileOps == {"create profile", "update profile"}
ClusterOps == {"deploy cluster", "update cluster"}

ForProfile(c) == c.op \in ProfileOps /\ c.name \in Names /\ c.obj \in Profile
ForCluster(c) == c.op \in ClusterOps /\ c.name \in Clusters /\ c.obj \in App

(* The files a command is to push, or has pushed, agree with what it will  *)
(* write to the API server.                                                *)
Carries(c) ==
  /\ c.files \in Content
  /\ \/ ForProfile(c) /\ HoldsProfile(c.files, c.obj)
     \/ ForCluster(c) /\ ("of" \in DOMAIN c.files => c.files.of = c.obj.profile)

(* A command has what its next call needs. *)
RecordOK(c) ==
  /\ DOMAIN c = DOMAIN Idle
  /\ c.pc \in Pcs
  /\ c.fresh \in BOOLEAN

BundleOK(c) ==
  /\ c.pc = "find bundle" =>
       c.op = "create bundle" /\ c.name \in Bundles /\ c.arg \in Bundle
  /\ c.pc = "read bundle" =>
       c.op = "update bundle" /\ c.name \in Bundles /\ c.arg \in BundleEdit
  /\ c.pc = "write bundle" =>
       c.op \in {"create bundle", "update bundle"} /\ c.name \in Bundles /\ c.obj \in Bundle

ProfileOK(c) ==
  /\ c.pc = "check" =>
       /\ c.name \in Names /\ c.files = None
       /\ \/ c.op = "create profile" /\ c.arg \in Profile
          \/ c.op = "update profile" /\ c.arg \in ProfileEdit
  /\ c.pc = "read profile" =>
       c.op = "update profile" /\ c.name \in Names /\ c.arg \in ProfileEdit /\ c.files = None
  /\ c.pc = "delete config" => c.name \in Names

FilesOK(c) ==
  /\ c.pc = "render" =>
       c.prof \in Profile /\ ((ForProfile(c) /\ c.prof = c.obj) \/ ForCluster(c))
  /\ c.pc \in {"clone", "push"} => Carries(c)
  /\ c.pc = "save" =>
       Carries(c) \/ (ForProfile(c) /\ ~c.obj.dynamic /\ c.files = None)

SpecOK(c) ==
  /\ c.pc = "find spec" => c.op = "create spec" /\ c.name \in Names /\ c.arg \in ClusterSpec
  /\ c.pc = "get spec" => c.op = "update spec" /\ c.name \in Names /\ c.arg \in SpecEdit
  /\ c.pc = "write spec" => c.name \in Names /\ c.obj \in Settings

ClusterOK(c) ==
  /\ c.pc \in {"find profile", "find app", "settings"} =>
       c.op \in ClusterOps /\ c.name \in Clusters
  /\ c.pc \in {"find profile", "settings"} => c.arg \in ClusterArg
  /\ c.pc = "find app" =>
       \/ c.op = "deploy cluster" /\ c.prof \in Profile /\ c.arg \in ClusterArg
       \/ c.op = "update cluster" /\ c.arg \in ClusterEdit
  /\ c.pc = "settings" => c.prof \in Profile

CommandOK(c) ==
  RecordOK(c) /\ BundleOK(c) /\ ProfileOK(c) /\ FilesOK(c) /\ SpecOK(c) /\ ClusterOK(c)

(* It may go on, and nothing it has pushed awaits its write. *)
Ready(c) == CommandOK(c) /\ (c.pc = "save" => c.files = None)

CommandsOK ==
  /\ cmd = [u \in Users |-> cmd[u]]
  /\ started \in 0..MaxCommands
  /\ \A u \in Users : CommandOK(cmd[u])

StoreOK ==
  /\ secret \in [Bundles -> Bundle \union {None}]
  /\ profile \in [Names -> Profile \union {None}]
  /\ config \in [Names -> Settings \union Legacy \union {None}]
  /\ app \in [Clusters -> App \union {None}]
  /\ tree \in [Directories -> Content \union {None}]
  /\ torn \subseteq Directories

Shape == CommandsOK /\ StoreOK

Step(u) ==
  \/ SpecCommand(u) \/ ClusterCommand(u)
  \/ (BundleCommand(u) \/ ProfileCommand(u) \/ Gitting(u)) /\ UNCHANGED app
  \/ Interrupt(u) /\ UNCHANGED <<storeVars, app>>

-----------------------------------------------------------------------------
(* Shape *)

(* An ended command has no needs. *)
LEMMA IdleOK == Ready(Idle) /\ ~Idle.fresh
  BY DEF Ready, CommandOK, RecordOK, BundleOK, ProfileOK, FilesOK, SpecOK, ClusterOK, Idle, Pcs

(* At the start nobody is at work, and nothing is there. *)
LEMMA ShapeInitially == Init => Shape
  <1> SUFFICES ASSUME Init PROVE Shape
    OBVIOUS
  <1>1. CommandsOK
    BY IdleOK, CommandsAssumption DEF Ready, Init, CliInit, CommandsOK
  <1>2. StoreOK
    BY DEF Init, CliInit, StoreOK
  <1> QED
    BY <1>1, <1>2 DEF Shape

(* A command of another is left as it is, but for the versions it relies   *)
(* on.                                                                     *)
Weakened(c, d) ==
  /\ DOMAIN d = DOMAIN c
  /\ \A f \in DOMAIN Idle \ {"fresh", "current"} : d[f] = c[f]
  /\ d.fresh \in BOOLEAN /\ (d.fresh => c.fresh)

(* What a step does to the commands: one goes on, or ends with a write.    *)
LEMMA StepKinds ==
  ASSUME NEW u \in Users, Step(u)
  PROVE  \/ \E c : Goto(u, c)
         \/ \E n : Written(u, n)
         \/ Push(u) /\ cmd[u].current
         \/ UNCHANGED cmd
  BY DEF Step, SpecCommand, ClusterCommand, BundleCommand, ProfileCommand, Gitting, Interrupt,
     CreateSpec, FindSpec, UpdateSpec, GetSpec, WriteSpec, DeleteSpec, DeployCluster,
     UpdateCluster, DeleteCluster, FindApp, FindProfile, ReadSettings, SaveApp, CreateBundle,
     UpdateBundle, FindBundle, ReadBundle, WriteBundle, DeleteBundle, CreateProfile,
     UpdateProfile, DeleteProfile, CheckBundles, ReadProfile, SaveProfile, DeleteConfig,
     Render, Clone, Push, Prepare, Issue, End

(* The commands of the others are left as they are, but for versions. *)
LEMMA OthersWeakened ==
  ASSUME Shape, NEW u \in Users, Step(u), NEW v \in Users \ {u}
  PROVE  Weakened(cmd[v], cmd'[v])
  <1>0. cmd = [w \in Users |-> cmd[w]] /\ DOMAIN cmd[v] = DOMAIN Idle /\ cmd[v].fresh \in BOOLEAN
    BY DEF Shape, CommandsOK, CommandOK, RecordOK
  <1>1. CASE \E c : Goto(u, c)
    BY <1>0, <1>1 DEF Goto, Weakened
  <1>2. CASE \E n : Written(u, n)
    <2> PICK n : Written(u, n)
      BY <1>2
    <2>1. cmd'[v] = [cmd[v] EXCEPT !.fresh = @ /\ cmd[v].name # n]
      BY DEF Written
    <2> QED
      BY <1>0, <2>1 DEF Weakened, Idle
  <1>3. CASE Push(u) /\ cmd[u].current
    <2>1. cmd'[v] = [cmd[v] EXCEPT !.current = FALSE]
      BY <1>3 DEF Push
    <2> QED
      BY <1>0, <2>1 DEF Weakened, Idle
  <1>4. CASE UNCHANGED cmd
    BY <1>0, <1>4 DEF Weakened
  <1> QED
    BY <1>1, <1>2, <1>3, <1>4, StepKinds

(* Every user has one command, after the step too. *)
LEMMA CommandsFunction ==
  ASSUME Shape, NEW u \in Users, Step(u)
  PROVE  cmd' = [w \in Users |-> cmd'[w]]
  <1>0. cmd = [w \in Users |-> cmd[w]]
    BY DEF Shape, CommandsOK
  <1>1. CASE \E c : Goto(u, c)
    BY <1>0, <1>1 DEF Goto
  <1>2. CASE \E n : Written(u, n)
    BY <1>2 DEF Written
  <1>3. CASE Push(u) /\ cmd[u].current
    BY <1>3 DEF Push
  <1>4. CASE UNCHANGED cmd
    BY <1>0, <1>4
  <1> QED
    BY <1>1, <1>2, <1>3, <1>4, StepKinds

(* What a weakened command needs is still there. *)
LEMMA WeakenedOK ==
  ASSUME NEW c, NEW d, CommandOK(c), Weakened(c, d)
  PROVE  CommandOK(d)
  <1>1. /\ d.pc = c.pc /\ d.op = c.op /\ d.name = c.name /\ d.arg = c.arg
        /\ d.prof = c.prof /\ d.obj = c.obj /\ d.files = c.files
        /\ DOMAIN d = DOMAIN Idle /\ d.fresh \in BOOLEAN
    BY DEF Weakened, CommandOK, RecordOK, Idle
  <1>2. Carries(d) <=> Carries(c)
    BY <1>1 DEF Carries, ForProfile, ForCluster
  <1> QED
    BY <1>1, <1>2 DEF CommandOK, RecordOK, BundleOK, ProfileOK, FilesOK, SpecOK, ClusterOK,
       ForProfile, ForCluster

-----------------------------------------------------------------------------
(* What a command needs for its next call, one group of steps at a time *)

(* Editing gives an object of the same kind. *)
LEMMA EditedSort ==
  ASSUME NEW s \in Bundle, NEW arg \in BundleEdit
  PROVE  Edited(s, arg) \in Bundle
  <1>1. Given(arg.data, s.data) \in Data /\ Given(arg.text, s.text) \in Texts
    BY DEF Given, Bundle, BundleEdit
  <1> QED
    BY <1>1 DEF Edited, Bundle

(* The same of profiles; an update does not make a profile dynamic. *)
LEMMA MergedSort ==
  ASSUME NEW q \in Profile, NEW arg \in ProfileEdit
  PROVE  /\ Merged(q, arg) \in Profile
         /\ Merged(q, arg).dynamic = q.dynamic
  <1> DEFINE bs == Given(arg.bundles, q.bundles)
             t == Given(arg.text, q.text)
             ps == [b \in Bundles |-> Given(arg.params[b], q.params[b])]
  <1>1. bs \in SUBSET Bundles /\ t \in Texts
    BY DEF Given, Profile, ProfileEdit
  <1>2. \A b \in Bundles : Given(arg.params[b], q.params[b]) \in Values \union {None}
    BY DEF Given, Profile, ProfileEdit, Params
  <1>3. ps \in Params
    BY <1>2 DEF Params
  <1>4. Merged(q, arg) = [q EXCEPT !.bundles = bs, !.text = t, !.params = ps]
    BY Zenon DEF Merged
  <1> HIDE DEF bs, t, ps
  <1> QED
    BY <1>1, <1>3, <1>4 DEF Profile

(* The same of cluster specs. *)
LEMMA ResizedSort ==
  ASSUME NEW s \in ClusterSpec, NEW arg \in SpecEdit
  PROVE  Resized(s, arg) \in ClusterSpec
  <1>1. Given(arg.size, s.size) \in Sizes
    BY DEF Given, ClusterSpec, SpecEdit
  <1> QED
    BY <1>1 DEF Resized, ClusterSpec, SpecEdit

(* What the user's command is after a step to c or a write. *)
LEMMA OwnGoto ==
  ASSUME Shape, NEW u \in Users, NEW c, Goto(u, c)
  PROVE  cmd'[u] = c
  BY DEF Shape, CommandsOK, Goto

(* A write ends the command. *)
LEMMA OwnWritten ==
  ASSUME NEW u \in Users, NEW n, Written(u, n)
  PROVE  cmd'[u] = Idle
  BY DEF Written

(* A command whose next call concerns bundles only needs what that takes. *)
LEMMA BundleOnly ==
  ASSUME NEW c, RecordOK(c), BundleOK(c), c.pc \in {"find bundle", "read bundle", "write bundle"}
  PROVE  Ready(c)
  BY DEF Ready, CommandOK, ProfileOK, FilesOK, SpecOK, ClusterOK

(* After a step on bundles the command has what it needs. *)
LEMMA BundleStep ==
  ASSUME Shape, NEW u \in Users, BundleCommand(u)
  PROVE  Ready(cmd'[u]) /\ (cmd'[u].fresh => cmd[u].fresh \/ ReadBundle(u))
  <1>0. RecordOK(cmd[u]) /\ BundleOK(cmd[u]) /\ StoreOK
    BY DEF Shape, CommandsOK, CommandOK
  <1>1. CASE CreateBundle(u)
    <2> PICK b \in Bundles, s \in Bundle : Issue(u, Command("find bundle", "create bundle", b, s))
      BY <1>1 DEF CreateBundle
    <2> DEFINE d == Command("find bundle", "create bundle", b, s)
    <2>1. RecordOK(d) /\ BundleOK(d) /\ d.pc = "find bundle" /\ ~d.fresh
      BY DEF RecordOK, BundleOK, Command, Idle, Pcs
    <2>2. cmd'[u] = d
      BY OwnGoto DEF Issue
    <2> QED
      BY <2>1, <2>2, BundleOnly
  <1>2. CASE UpdateBundle(u)
    <2> PICK b \in Bundles, x \in Data \union {None}, t \in Texts \union {None} :
          Issue(u, Command("read bundle", "update bundle", b, [data |-> x, text |-> t]))
      BY <1>2 DEF UpdateBundle
    <2>1. [data |-> x, text |-> t] \in BundleEdit
      BY DEF BundleEdit
    <2> DEFINE d == Command("read bundle", "update bundle", b, [data |-> x, text |-> t])
    <2>2. RecordOK(d) /\ BundleOK(d) /\ d.pc = "read bundle" /\ ~d.fresh
      BY <2>1 DEF RecordOK, BundleOK, Command, Idle, Pcs
    <2>3. cmd'[u] = d
      BY OwnGoto DEF Issue
    <2> QED
      BY <2>2, <2>3, BundleOnly
  <1>3. CASE FindBundle(u) /\ ~End(u)
    <2> DEFINE d == [cmd[u] EXCEPT !.pc = "write bundle", !.obj = cmd[u].arg]
    <2>1. At(u, "find bundle") /\ Goto(u, d)
      BY <1>3 DEF FindBundle
    <2>2. RecordOK(d) /\ BundleOK(d) /\ d.pc = "write bundle" /\ d.fresh = cmd[u].fresh
      BY <1>0, <2>1 DEF RecordOK, BundleOK, Idle, Pcs, At
    <2> QED
      BY <2>1, <2>2, OwnGoto, BundleOnly
  <1>4. CASE ReadBundle(u) /\ ~End(u)
    <2> DEFINE e == Edited(secret[cmd[u].name], cmd[u].arg)
               d == [cmd[u] EXCEPT !.pc = "write bundle", !.obj = e, !.fresh = TRUE]
    <2>1. At(u, "read bundle") /\ secret[cmd[u].name] # None /\ Goto(u, d)
      BY <1>4 DEF ReadBundle
    <2>2. e \in Bundle
      BY <1>0, <2>1, EditedSort DEF At, StoreOK, BundleOK
    <2> HIDE DEF e
    <2>3. RecordOK(d) /\ BundleOK(d) /\ d.pc = "write bundle"
      BY <1>0, <2>1, <2>2 DEF RecordOK, BundleOK, Idle, Pcs, At
    <2> QED
      BY <1>4, <2>1, <2>3, OwnGoto, BundleOnly
  <1>5. CASE End(u)
    BY <1>5, OwnGoto, IdleOK DEF End
  <1>6. CASE WriteBundle(u) \/ DeleteBundle(u)
    BY <1>6, <1>5, OwnWritten, IdleOK DEF WriteBundle, DeleteBundle
  <1> QED
    BY <1>1, <1>2, <1>3, <1>4, <1>5, <1>6 DEF BundleCommand

(* The same of calls on cluster specs, *)
LEMMA SpecOnly ==
  ASSUME NEW c, RecordOK(c), SpecOK(c), c.pc \in {"find spec", "get spec", "write spec"}
  PROVE  Ready(c)
  BY DEF Ready, CommandOK, BundleOK, ProfileOK, FilesOK, ClusterOK

(* The same of calls on profiles, *)
LEMMA ProfileOnly ==
  ASSUME NEW c, RecordOK(c), ProfileOK(c), c.pc \in {"check", "read profile", "delete config"}
  PROVE  Ready(c)
  BY DEF Ready, CommandOK, BundleOK, FilesOK, SpecOK, ClusterOK

(* of calls that lead to git or from it, *)
LEMMA FilesOnly ==
  ASSUME NEW c, RecordOK(c), FilesOK(c), c.pc \in {"render", "clone", "push", "save"}
  PROVE  CommandOK(c) /\ (c.pc # "save" => Ready(c))
  BY DEF Ready, CommandOK, BundleOK, ProfileOK, SpecOK, ClusterOK

(* and of calls on clusters. *)
LEMMA ClusterOnly ==
  ASSUME NEW c, RecordOK(c), ClusterOK(c), c.pc \in {"find profile", "find app", "settings"}
  PROVE  Ready(c)
  BY DEF Ready, CommandOK, BundleOK, ProfileOK, FilesOK, SpecOK

(* After a step on cluster specs. *)
LEMMA SpecStep ==
  ASSUME Shape, NEW u \in Users, SpecCommand(u)
  PROVE  (Ready(cmd'[u]) /\ (cmd'[u].fresh => cmd[u].fresh)) \/ UNCHANGED cmd
  <1>0. CommandOK(cmd[u]) /\ RecordOK(cmd[u]) /\ SpecOK(cmd[u]) /\ StoreOK
    BY DEF Shape, CommandsOK, CommandOK
  <1>1. CASE CreateSpec(u)
    <2> PICK n \in Names, s \in ClusterSpec : Issue(u, Command("find spec", "create spec", n, s))
      BY <1>1 DEF CreateSpec
    <2> DEFINE d == Command("find spec", "create spec", n, s)
    <2>1. RecordOK(d) /\ SpecOK(d) /\ d.pc = "find spec" /\ ~d.fresh
      BY DEF RecordOK, SpecOK, Command, Idle, Pcs
    <2>2. cmd'[u] = d
      BY OwnGoto DEF Issue
    <2> QED
      BY <2>1, <2>2, SpecOnly
  <1>2. CASE UpdateSpec(u)
    <2> PICK n \in Names, s \in Sizes \union {None}, m \in Sizes :
          Issue(u, Command("get spec", "update spec", n, [size |-> s, max |-> m]))
      BY <1>2 DEF UpdateSpec
    <2>1. [size |-> s, max |-> m] \in SpecEdit
      BY DEF SpecEdit
    <2> DEFINE d == Command("get spec", "update spec", n, [size |-> s, max |-> m])
    <2>2. RecordOK(d) /\ SpecOK(d) /\ d.pc = "get spec" /\ ~d.fresh
      BY <2>1 DEF RecordOK, SpecOK, Command, Idle, Pcs
    <2>3. cmd'[u] = d
      BY OwnGoto DEF Issue
    <2> QED
      BY <2>2, <2>3, SpecOnly
  <1>3. CASE FindSpec(u) /\ ~End(u)
    <2> DEFINE o == [settings |-> cmd[u].arg]
               d == [cmd[u] EXCEPT !.pc = "write spec", !.obj = o]
    <2>1. At(u, "find spec") /\ Goto(u, d)
      BY <1>3 DEF FindSpec
    <2>2. o \in Settings
      BY <1>0, <2>1 DEF At, SpecOK, Settings
    <2> HIDE DEF o
    <2>3. RecordOK(d) /\ SpecOK(d) /\ d.pc = "write spec" /\ d.fresh = cmd[u].fresh
      BY <1>0, <2>1, <2>2 DEF RecordOK, SpecOK, Idle, Pcs, At
    <2> QED
      BY <2>1, <2>3, OwnGoto, SpecOnly
  <1>4. CASE GetSpec(u) /\ ~End(u)
    <2> DEFINE x == config[cmd[u].name]
               o == [settings |-> Resized(x.settings, cmd[u].arg)]
               d == [cmd[u] EXCEPT !.pc = "write spec", !.obj = o]
    <2>1. At(u, "get spec") /\ IsSpec(x) /\ Goto(u, d)
      BY <1>4 DEF GetSpec
    <2>2. x.settings \in ClusterSpec
      BY <1>0, <2>1 DEF At, SpecOK, StoreOK, IsSpec, Settings, Legacy
    <2>3. o \in Settings
      BY <1>0, <2>1, <2>2, ResizedSort DEF At, SpecOK, Settings
    <2> HIDE DEF o
    <2>4. RecordOK(d) /\ SpecOK(d) /\ d.pc = "write spec" /\ d.fresh = cmd[u].fresh
      BY <1>0, <2>1, <2>3 DEF RecordOK, SpecOK, Idle, Pcs, At
    <2> QED
      BY <2>1, <2>4, OwnGoto, SpecOnly
  <1>5. CASE End(u)
    BY <1>5, OwnGoto, IdleOK DEF End
  <1>6. CASE WriteSpec(u)
    BY <1>6, <1>5 DEF WriteSpec
  <1>7. CASE DeleteSpec(u)
    BY <1>0, <1>7 DEF DeleteSpec
  <1> QED
    BY <1>1, <1>2, <1>3, <1>4, <1>5, <1>6, <1>7 DEF SpecCommand

(* What goes to git, or straight to the API server. *)
LEMMA PrepareOwn ==
  ASSUME Shape, NEW u \in Users, NEW q \in Profile, NEW fresh \in BOOLEAN, Prepare(u, q, fresh),
         cmd[u].op \in ProfileOps, cmd[u].name \in Names, cmd[u].files = None
  PROVE  Ready(cmd'[u]) /\ cmd'[u].fresh = fresh
  <1> DEFINE pc == IF q.dynamic THEN "render" ELSE "save"
             prof == IF q.dynamic THEN q ELSE None
             d == [cmd[u] EXCEPT !.pc = pc, !.prof = prof, !.obj = q, !.fresh = fresh]
  <1>1. RecordOK(cmd[u])
    BY DEF Shape, CommandsOK, CommandOK
  <1>2. Goto(u, d)
    BY Zenon DEF Prepare
  <1>3. /\ pc \in {"render", "save"}
        /\ pc = "render" => q.dynamic /\ prof = q
        /\ pc = "save" => ~q.dynamic
    OBVIOUS
  <1> HIDE DEF pc, prof
  <1>4. RecordOK(d) /\ d.pc = pc /\ d.files = None /\ d.fresh = fresh
    BY <1>1, <1>3 DEF RecordOK, Idle, Pcs
  <1>5. FilesOK(d)
    BY <1>1, <1>3 DEF RecordOK, Idle, FilesOK, ForProfile
  <1> QED
    BY <1>2, <1>3, <1>4, <1>5, OwnGoto, FilesOnly DEF Ready

(* After a step on profiles. *)
LEMMA ProfileStep ==
  ASSUME Shape, NEW u \in Users, ProfileCommand(u)
  PROVE  Ready(cmd'[u]) /\ (cmd'[u].fresh => cmd[u].fresh \/ ReadProfile(u))
  <1>0. RecordOK(cmd[u]) /\ ProfileOK(cmd[u]) /\ StoreOK
    BY DEF Shape, CommandsOK, CommandOK
  <1>1. CASE CreateProfile(u)
    <2> PICK n \in Names, q \in Profile : Issue(u, Command("check", "create profile", n, q))
      BY <1>1 DEF CreateProfile
    <2> DEFINE d == Command("check", "create profile", n, q)
    <2>1. RecordOK(d) /\ ProfileOK(d) /\ d.pc = "check" /\ ~d.fresh
      BY DEF RecordOK, ProfileOK, Command, Idle, Pcs
    <2>2. cmd'[u] = d
      BY OwnGoto DEF Issue
    <2> QED
      BY <2>1, <2>2, ProfileOnly
  <1>2. CASE UpdateProfile(u)
    <2> PICK n \in Names, bs \in (SUBSET Bundles) \union {None}, t \in Texts \union {None},
             ps \in Params :
          Issue(u, Command("check", "update profile", n,
                           [bundles |-> bs, text |-> t, params |-> ps]))
      BY <1>2 DEF UpdateProfile
    <2> DEFINE arg == [bundles |-> bs, text |-> t, params |-> ps]
               d == Command("check", "update profile", n, arg)
    <2>1. arg \in ProfileEdit
      BY DEF ProfileEdit
    <2>2. cmd'[u] = d
      BY OwnGoto DEF Issue
    <2> HIDE DEF arg
    <2>3. RecordOK(d) /\ ProfileOK(d) /\ d.pc = "check" /\ ~d.fresh
      BY <2>1 DEF RecordOK, ProfileOK, Command, Idle, Pcs
    <2> QED
      BY <2>2, <2>3, ProfileOnly
  <1>3. CASE End(u)
    BY <1>3, OwnGoto, IdleOK DEF End
  <1>4. CASE CheckBundles(u) /\ ~End(u)
    <2>1. CASE cmd[u].op = "update profile"
      <3> DEFINE d == [cmd[u] EXCEPT !.pc = "read profile"]
      <3>1. At(u, "check") /\ Goto(u, d)
        BY <1>4, <2>1 DEF CheckBundles
      <3>2. RecordOK(d) /\ ProfileOK(d) /\ d.pc = "read profile" /\ d.fresh = cmd[u].fresh
        BY <1>0, <3>1, <2>1 DEF RecordOK, ProfileOK, Idle, Pcs, At
      <3> QED
        BY <3>1, <3>2, OwnGoto, ProfileOnly
    <2>2. CASE cmd[u].op # "update profile"
      <3>1. At(u, "check") /\ Prepare(u, cmd[u].arg, FALSE)
        BY <1>4, <2>2 DEF CheckBundles
      <3>2. /\ cmd[u].arg \in Profile /\ cmd[u].op \in ProfileOps
            /\ cmd[u].name \in Names /\ cmd[u].files = None
        BY <1>0, <3>1, <2>2 DEF ProfileOK, At, ProfileOps
      <3> QED
        BY <3>1, <3>2, PrepareOwn
    <2> QED
      BY <2>1, <2>2
  <1>5. CASE ReadProfile(u) /\ ~End(u)
    <2> DEFINE q == Merged(profile[cmd[u].name], cmd[u].arg)
    <2>1. At(u, "read profile") /\ profile[cmd[u].name] # None /\ Prepare(u, q, TRUE)
      BY <1>5 DEF ReadProfile
    <2>2. /\ q \in Profile /\ cmd[u].op \in ProfileOps
          /\ cmd[u].name \in Names /\ cmd[u].files = None
      BY <1>0, <2>1, MergedSort DEF ProfileOK, At, ProfileOps, StoreOK
    <2> HIDE DEF q
    <2> QED
      BY <1>5, <2>1, <2>2, PrepareOwn
  <1>6. CASE SaveProfile(u)
    BY <1>3, <1>6, OwnWritten, IdleOK DEF SaveProfile
  <1>7. CASE DeleteProfile(u)
    <2> PICK n \in Names : \/ Written(u, n)
                           \/ Goto(u, Command("delete config", "delete profile", n, None))
      BY <1>7 DEF DeleteProfile
    <2> DEFINE d == Command("delete config", "delete profile", n, None)
    <2>1. RecordOK(d) /\ ProfileOK(d) /\ d.pc = "delete config" /\ ~d.fresh
      BY DEF RecordOK, ProfileOK, Command, Idle, Pcs
    <2>2. CASE Goto(u, d)
      BY <2>1, <2>2, OwnGoto, ProfileOnly
    <2>3. CASE Written(u, n)
      BY <2>3, OwnWritten, IdleOK
    <2> QED
      BY <2>2, <2>3
  <1>8. CASE DeleteConfig(u)
    BY <1>3, <1>8 DEF DeleteConfig
  <1> QED
    BY <1>1, <1>2, <1>3, <1>4, <1>5, <1>6, <1>7, <1>8 DEF ProfileCommand

(* What the bundles of a profile are compiled to. *)
LEMMA CompiledSort ==
  ASSUME StoreOK, NEW q \in Profile, q.bundles \subseteq Existing
  PROVE  /\ [bundles |-> Compiled(q)] \in Content
         /\ HoldsProfile([bundles |-> Compiled(q)], q)
  <1>1. \A b \in q.bundles : secret[b] \in Bundle
    BY DEF StoreOK, Existing
  <1>2. q.bundles \in SUBSET Bundles /\ \A b \in q.bundles : q.params[b] \in Values \union {None}
    BY DEF Profile, Params
  <1>3. \A b \in q.bundles :
          IF secret[b].static THEN [copy |-> secret[b].data] \in [copy : Data]
          ELSE [refers |-> secret[b].data, param |-> q.params[b]]
                 \in [refers : Data, param : Values \union {None}]
    BY <1>1, <1>2 DEF Bundle
  <1>4. Compiled(q) \in [q.bundles -> Manifest]
    BY <1>3 DEF Compiled, Manifest
  <1>5. Compiled(q) \in UNION {[bs -> Manifest] : bs \in SUBSET Bundles}
    BY <1>2, <1>4
  <1>6. \A b \in q.bundles : "param" \in DOMAIN Compiled(q)[b] =>
                               Compiled(q)[b].param = q.params[b]
    BY DEF Compiled
  <1>7. DOMAIN Compiled(q) = q.bundles
    BY DEF Compiled
  <1> DEFINE files == Compiled(q)
  <1> HIDE DEF files
  <1>8. [bundles |-> files].bundles = files
    OBVIOUS
  <1> QED
    BY <1>5, <1>6, <1>7, <1>8 DEF Content, HoldsProfile, files

(* After a step on files: they agree with what is to be written. *)
LEMMA GitStep ==
  ASSUME Shape, NEW u \in Users, Gitting(u)
  PROVE  /\ CommandOK(cmd'[u]) /\ (Ready(cmd'[u]) \/ (Push(u) /\ cmd[u].current))
         /\ cmd'[u].fresh => cmd[u].fresh
  <1>0. RecordOK(cmd[u]) /\ FilesOK(cmd[u]) /\ StoreOK
    BY DEF Shape, CommandsOK, CommandOK
  <1>1. CASE End(u)
    BY <1>1, OwnGoto, IdleOK DEF End, Ready
  <1>2. CASE Render(u) /\ ~End(u)
    <2> DEFINE files == Generated(u)
               q == cmd[u].prof
               d == [cmd[u] EXCEPT !.pc = "clone", !.prof = None, !.files = files]
    <2>1. At(u, "render") /\ q.bundles \subseteq Existing /\ Goto(u, d)
      BY <1>2 DEF Render
    <2>2. q \in Profile /\ ((ForProfile(cmd[u]) /\ q = cmd[u].obj) \/ ForCluster(cmd[u]))
      BY <1>0, <2>1 DEF FilesOK, At
    <2>3. /\ [bundles |-> Compiled(q)] \in Content
          /\ HoldsProfile([bundles |-> Compiled(q)], q)
          /\ "of" \notin DOMAIN [bundles |-> Compiled(q)]
      BY <1>0, <2>1, <2>2, CompiledSort
    <2>4. /\ files \in Content
          /\ \/ ForProfile(cmd[u]) /\ HoldsProfile(files, cmd[u].obj)
             \/ ForCluster(cmd[u]) /\ ("of" \in DOMAIN files => files.of = cmd[u].obj.profile)
      <3>1. CASE ForProfile(cmd[u]) /\ q = cmd[u].obj
        <4>1. files = [bundles |-> Compiled(q)]
          BY <3>1 DEF Generated, ForProfile
        <4> QED
          BY <2>3, <3>1, <4>1
      <3>2. CASE ForCluster(cmd[u]) /\ q.dynamic
        <4>1. files = [of |-> cmd[u].obj.profile]
          BY <3>2, Gen1Assumption DEF Generated, ForCluster
        <4>2. cmd[u].obj.profile \in Names
          BY <3>2 DEF ForCluster, App
        <4> HIDE DEF files
        <4>3. files \in Content /\ files.of = cmd[u].obj.profile
          BY <4>1, <4>2 DEF Content
        <4> QED
          BY <3>2, <4>3
      <3>3. CASE ForCluster(cmd[u]) /\ ~q.dynamic
        <4>1. files = [bundles |-> Compiled(q)]
          BY <3>3 DEF Generated
        <4> QED
          BY <2>3, <3>3, <4>1
      <3> QED
        BY <2>2, <3>1, <3>2, <3>3
    <2> HIDE DEF files, q
    <2>5. RecordOK(d) /\ d.pc = "clone" /\ d.fresh = cmd[u].fresh
      BY <1>0 DEF RecordOK, Idle, Pcs
    <2>6. Carries(d)
      BY <1>0, <2>4 DEF RecordOK, Idle, Carries, ForProfile, ForCluster
    <2> QED
      BY <2>1, <2>5, <2>6, OwnGoto, FilesOnly DEF FilesOK
  <1>3. CASE Clone(u) /\ ~End(u)
    <2> DEFINE d == [cmd[u] EXCEPT !.pc = "push", !.current = TRUE]
    <2>1. At(u, "clone") /\ Goto(u, d)
      BY <1>3 DEF Clone
    <2>2. RecordOK(d) /\ FilesOK(d) /\ d.pc = "push" /\ d.fresh = cmd[u].fresh
      BY <1>0, <2>1 DEF RecordOK, Idle, Pcs, FilesOK, At, Carries, ForProfile, ForCluster
    <2> QED
      BY <2>1, <2>2, OwnGoto, FilesOnly
  <1>4. CASE Push(u) /\ ~End(u)
    <2> DEFINE d == [cmd[u] EXCEPT !.pc = "save", !.current = FALSE]
    <2>1. At(u, "push") /\ cmd[u].current /\ cmd'[u] = d
      BY <1>4 DEF Push
    <2>2. RecordOK(d) /\ FilesOK(d) /\ d.pc = "save" /\ d.fresh = cmd[u].fresh
      BY <1>0, <2>1 DEF RecordOK, Idle, Pcs, FilesOK, At, Carries, ForProfile, ForCluster
    <2> QED
      BY <1>4, <2>1, <2>2, FilesOnly
  <1> QED
    BY <1>1, <1>2, <1>3, <1>4 DEF Gitting

(* After a step on clusters. *)
LEMMA ClusterStep ==
  ASSUME Shape, NEW u \in Users, ClusterCommand(u)
  PROVE  (Ready(cmd'[u]) /\ (cmd'[u].fresh => cmd[u].fresh)) \/ UNCHANGED cmd
  <1>0. CommandOK(cmd[u]) /\ RecordOK(cmd[u]) /\ ClusterOK(cmd[u]) /\ StoreOK
    BY DEF Shape, CommandsOK, CommandOK
  <1>1. CASE DeployCluster(u)
    <2> PICK c \in Clusters, q \in Names, s \in Names :
          Issue(u, Command("find profile", "deploy cluster", c, [profile |-> q, spec |-> s]))
      BY <1>1 DEF DeployCluster
    <2> DEFINE arg == [profile |-> q, spec |-> s]
               d == Command("find profile", "deploy cluster", c, arg)
    <2>1. arg \in ClusterArg
      BY DEF ClusterArg
    <2>2. cmd'[u] = d
      BY OwnGoto DEF Issue
    <2> HIDE DEF arg
    <2>3. RecordOK(d) /\ ClusterOK(d) /\ d.pc = "find profile" /\ ~d.fresh
      BY <2>1 DEF RecordOK, ClusterOK, ClusterOps, Command, Idle, Pcs
    <2> QED
      BY <2>2, <2>3, ClusterOnly
  <1>2. CASE UpdateCluster(u)
    <2> PICK c \in Clusters, q \in Names \union {None}, s \in Names \union {None} :
          Issue(u, Command("find app", "update cluster", c, [profile |-> q, spec |-> s]))
      BY <1>2 DEF UpdateCluster
    <2> DEFINE arg == [profile |-> q, spec |-> s]
               d == Command("find app", "update cluster", c, arg)
    <2>1. arg \in ClusterEdit
      BY DEF ClusterEdit
    <2>2. cmd'[u] = d
      BY OwnGoto DEF Issue
    <2> HIDE DEF arg
    <2>3. RecordOK(d) /\ ClusterOK(d) /\ d.pc = "find app" /\ ~d.fresh
      BY <2>1 DEF RecordOK, ClusterOK, ClusterOps, Command, Idle, Pcs
    <2> QED
      BY <2>2, <2>3, ClusterOnly
  <1>3. CASE End(u)
    BY <1>3, OwnGoto, IdleOK DEF End
  <1>4. CASE FindApp(u) /\ ~End(u) /\ cmd[u].op = "deploy cluster"
    <2> DEFINE d == [cmd[u] EXCEPT !.pc = "settings"]
    <2>1. At(u, "find app") /\ Goto(u, d)
      BY <1>4 DEF FindApp
    <2>2. RecordOK(d) /\ ClusterOK(d) /\ d.pc = "settings" /\ d.fresh = cmd[u].fresh
      BY <1>0, <1>4, <2>1 DEF RecordOK, ClusterOK, Idle, Pcs, At
    <2> QED
      BY <2>1, <2>2, OwnGoto, ClusterOnly
  <1>5. CASE FindApp(u) /\ ~End(u) /\ cmd[u].op # "deploy cluster"
    <2> DEFINE a == app[cmd[u].name]
               arg == [profile |-> Given(cmd[u].arg.profile, a.profile),
                       spec |-> Given(cmd[u].arg.spec, a.spec)]
               d == [cmd[u] EXCEPT !.pc = "find profile", !.obj = a, !.arg = arg]
    <2>1. At(u, "find app") /\ a # None /\ Goto(u, d)
      BY <1>5 DEF FindApp
    <2>2. a \in App /\ cmd[u].arg \in ClusterEdit
      BY <1>0, <1>5, <2>1 DEF StoreOK, ClusterOK, At
    <2>3. arg \in ClusterArg
      BY <2>2 DEF App, ClusterEdit, ClusterArg, Given
    <2> HIDE DEF a, arg
    <2>4. RecordOK(d) /\ ClusterOK(d) /\ d.pc = "find profile" /\ d.fresh = cmd[u].fresh
      BY <1>0, <2>1, <2>3 DEF RecordOK, ClusterOK, Idle, Pcs, At
    <2> QED
      BY <2>1, <2>4, OwnGoto, ClusterOnly
  <1>6. CASE FindProfile(u) /\ ~End(u)
    <2> DEFINE q == FoundProfile(cmd[u].arg.profile)
               pc == IF cmd[u].op = "deploy cluster" THEN "find app" ELSE "settings"
               d == [cmd[u] EXCEPT !.prof = q, !.pc = pc]
    <2>1. At(u, "find profile") /\ q # None /\ Goto(u, d)
      BY <1>6 DEF FindProfile
    <2>2. q \in Profile
      <3>1. cmd[u].arg.profile \in Names
        BY <1>0, <2>1 DEF ClusterOK, At, ClusterArg
      <3>2. CASE profile[cmd[u].arg.profile] # None
        BY <1>0, <3>1, <3>2 DEF StoreOK, FoundProfile
      <3>3. CASE profile[cmd[u].arg.profile] = None
        <4> DEFINE x == config[cmd[u].arg.profile]
        <4>1. IsLegacy(x) /\ q = x.legacy
          BY <2>1, <3>3 DEF FoundProfile
        <4>2. x \in Settings \/ x \in Legacy
          BY <1>0, <3>1, <4>1 DEF StoreOK, IsLegacy
        <4> HIDE DEF x, q
        <4> QED
          BY <4>1, <4>2 DEF IsLegacy, Settings, Legacy
      <3> QED
        BY <3>2, <3>3
    <2>3. \/ pc = "find app" /\ cmd[u].op = "deploy cluster"
          \/ pc = "settings"
      OBVIOUS
    <2> HIDE DEF q, pc
    <2>4. RecordOK(d) /\ ClusterOK(d) /\ d.pc = pc /\ d.fresh = cmd[u].fresh
      BY <1>0, <2>1, <2>2, <2>3 DEF RecordOK, ClusterOK, Idle, Pcs, At
    <2> QED
      BY <2>1, <2>3, <2>4, OwnGoto, ClusterOnly
  <1>7. CASE ReadSettings(u) /\ ~End(u)
    <2> DEFINE arg == cmd[u].arg
               x == config[arg.spec]
               o == [profile |-> arg.profile, spec |-> arg.spec,
                     settings |-> x.settings, deleting |-> FALSE]
               d == [cmd[u] EXCEPT !.pc = "render", !.arg = None, !.obj = o]
    <2>1. At(u, "settings") /\ IsSpec(x) /\ Goto(u, d)
      BY <1>7 DEF ReadSettings
    <2>2. arg.profile \in Names /\ arg.spec \in Names
      BY <1>0, <2>1 DEF ClusterOK, At, ClusterArg
    <2>3. x.settings \in ClusterSpec
      BY <1>0, <2>1, <2>2 DEF StoreOK, IsSpec, Settings, Legacy
    <2>4. o \in App
      BY <2>2, <2>3 DEF App
    <2>5. cmd[u].prof \in Profile /\ cmd[u].op \in ClusterOps /\ cmd[u].name \in Clusters
      BY <1>0, <2>1 DEF ClusterOK, At
    <2> HIDE DEF o
    <2>6. /\ RecordOK(d) /\ d.pc = "render" /\ d.prof \in Profile /\ ForCluster(d)
          /\ d.fresh = cmd[u].fresh
      BY <1>0, <2>4, <2>5 DEF RecordOK, Idle, Pcs, ForCluster
    <2> QED
      BY <2>1, <2>6, OwnGoto, FilesOnly DEF FilesOK
  <1>8. CASE SaveApp(u)
    BY <1>3, <1>8 DEF SaveApp
  <1>9. CASE DeleteCluster(u)
    BY <1>0, <1>9 DEF DeleteCluster
  <1> QED
    BY <1>1, <1>2, <1>3, <1>4, <1>5, <1>6, <1>7, <1>8, <1>9 DEF ClusterCommand

-----------------------------------------------------------------------------
(* What is stored *)

(* Only a write of each kind changes what it writes. *)
LEMMA Quiet ==
  ASSUME NEW u \in Users, Step(u)
  PROVE  /\ WriteBundle(u) \/ DeleteBundle(u) \/ UNCHANGED secret
         /\ SaveProfile(u) \/ DeleteProfile(u) \/ UNCHANGED profile
         /\ WriteSpec(u) \/ DeleteSpec(u) \/ DeleteConfig(u) \/ UNCHANGED config
         /\ SaveApp(u) \/ DeleteCluster(u) \/ UNCHANGED app
         /\ Push(u) \/ UNCHANGED tree
         /\ SaveProfile(u) \/ SaveApp(u) \/ Interrupt(u) \/ UNCHANGED torn
  BY DEF Step, SpecCommand, ClusterCommand, BundleCommand, ProfileCommand, Gitting, Interrupt,
     CreateSpec, FindSpec, UpdateSpec, GetSpec, WriteSpec, DeleteSpec, DeployCluster,
     UpdateCluster, DeleteCluster, FindApp, FindProfile, ReadSettings, SaveApp, CreateBundle,
     UpdateBundle, FindBundle, ReadBundle, WriteBundle, DeleteBundle, CreateProfile,
     UpdateProfile, DeleteProfile, CheckBundles, ReadProfile, SaveProfile, DeleteConfig,
     Render, Clone, Push, Prepare, Issue, storeVars

(* The directory of whoever has pushed, or is about to, is one. *)
LEMMA CarriesDirectory ==
  ASSUME NEW c, Carries(c)
  PROVE  c.name \in Directories
  BY ProfilesAssumption, Gen1Assumption DEF Carries, ForProfile, ForCluster

(* What is stored keeps its kind. *)
LEMMA StoreStep ==
  ASSUME Shape, NEW u \in Users, Step(u)
  PROVE  StoreOK'
  <1>0. StoreOK /\ CommandOK(cmd[u])
    BY DEF Shape, CommandsOK
  <1>1. secret' \in [Bundles -> Bundle \union {None}]
    <2>1. CASE WriteBundle(u)
      <3>1. cmd[u].obj \in Bundle
        BY <1>0, <2>1 DEF CommandOK, BundleOK, WriteBundle, At
      <3> QED
        BY <1>0, <2>1, <3>1 DEF WriteBundle, StoreOK
    <2>2. CASE DeleteBundle(u)
      BY <1>0, <2>2 DEF DeleteBundle, StoreOK
    <2> QED
      BY <1>0, <2>1, <2>2, Quiet DEF StoreOK
  <1>2. profile' \in [Names -> Profile \union {None}]
    <2>1. CASE SaveProfile(u)
      <3>1. cmd[u].obj \in Profile
        BY <1>0, <2>1, Gen1Assumption
        DEF CommandOK, FilesOK, Carries, ForProfile, ForCluster, SaveProfile, At
      <3> QED
        BY <1>0, <2>1, <3>1 DEF SaveProfile, StoreOK
    <2>2. CASE DeleteProfile(u)
      BY <1>0, <2>2 DEF DeleteProfile, StoreOK
    <2> QED
      BY <1>0, <2>1, <2>2, Quiet DEF StoreOK
  <1>3. config' \in [Names -> Settings \union Legacy \union {None}]
    <2>1. CASE WriteSpec(u)
      <3>1. cmd[u].obj \in Settings
        BY <1>0, <2>1 DEF CommandOK, SpecOK, WriteSpec, At
      <3> QED
        BY <1>0, <2>1, <3>1 DEF WriteSpec, StoreOK
    <2>2. CASE DeleteSpec(u) \/ DeleteConfig(u)
      BY <1>0, <2>2 DEF DeleteSpec, DeleteConfig, StoreOK
    <2> QED
      BY <1>0, <2>1, <2>2, Quiet DEF StoreOK
  <1>4. app' \in [Clusters -> App \union {None}]
    <2>1. CASE SaveApp(u)
      <3> DEFINE c == cmd[u].name
                 gone == ~(cmd[u].op = "deploy cluster") /\ app[c].deleting
                 o == [cmd[u].obj EXCEPT !.deleting = gone]
      <3>1. c \in Clusters /\ cmd[u].obj \in App
        BY <1>0, <2>1, Gen1Assumption
        DEF CommandOK, FilesOK, Carries, ForProfile, ForCluster, SaveApp, At
      <3>2. CASE UNCHANGED app
        BY <1>0, <3>2 DEF StoreOK
      <3>3. CASE ~UNCHANGED app
        <4>1. app' = [app EXCEPT ![c] = o] /\ (cmd[u].op = "deploy cluster" <=> app[c] = None)
          BY <2>1, <3>3 DEF SaveApp
        <4>2. app[c] # None => app[c] \in App
          BY <1>0, <3>1 DEF StoreOK
        <4>3. gone \in BOOLEAN
          OBVIOUS
        <4> HIDE DEF gone
        <4>4. o \in App
          BY <3>1, <4>3 DEF App
        <4> HIDE DEF o
        <4> QED
          BY <1>0, <3>1, <4>1, <4>4 DEF StoreOK
      <3> QED
        BY <3>2, <3>3
    <2>2. CASE DeleteCluster(u)
      <3> PICK c \in Clusters : app[c] # None /\ app' = [app EXCEPT ![c].deleting = TRUE]
        BY <2>2 DEF DeleteCluster
      <3>1. app[c] \in App
        BY <1>0 DEF StoreOK
      <3> DEFINE o == [app[c] EXCEPT !.deleting = TRUE]
      <3>2. o \in App
        BY <3>1 DEF App
      <3>3. app' = [app EXCEPT ![c] = o]
        OBVIOUS
      <3> HIDE DEF o
      <3> QED
        BY <1>0, <3>2, <3>3 DEF StoreOK
    <2> QED
      BY <1>0, <2>1, <2>2, Quiet DEF StoreOK
  <1>5. tree' \in [Directories -> Content \union {None}]
    <2>1. CASE Push(u)
      <3>1. Carries(cmd[u])
        BY <1>0, <2>1 DEF CommandOK, FilesOK, Push, At
      <3> QED
        BY <1>0, <2>1, <3>1 DEF Push, StoreOK, Carries
    <2> QED
      BY <1>0, <2>1, Quiet DEF StoreOK
  <1>6. torn' \subseteq Directories
    <2>1. Pushed(u) => Carries(cmd[u])
      BY <1>0 DEF CommandOK, FilesOK, Pushed, At
    <2>2. Saved(u) \subseteq Directories /\ Lost(u) \subseteq Directories
      BY <1>0, <2>1, CarriesDirectory DEF StoreOK, Saved, Lost
    <2>3. torn' = Saved(u) \/ torn' = Lost(u) \/ torn' = torn
      BY Quiet DEF SaveProfile, SaveApp, Interrupt
    <2> QED
      BY <1>0, <2>2, <2>3 DEF StoreOK
  <1> QED
    BY <1>1, <1>2, <1>3, <1>4, <1>5, <1>6 DEF StoreOK

(* The number of commands stays in its bound. *)
LEMMA Counted ==
  ASSUME Shape, NEW u \in Users, Step(u)
  PROVE  started' \in 0..MaxCommands
  <1>1. started' = started \/ (started < MaxCommands /\ started' = started + 1)
    BY DEF Step, SpecCommand, ClusterCommand, BundleCommand, ProfileCommand, Gitting, Interrupt,
       CreateSpec, FindSpec, UpdateSpec, GetSpec, WriteSpec, DeleteSpec, DeployCluster,
       UpdateCluster, DeleteCluster, FindApp, FindProfile, ReadSettings, SaveApp, CreateBundle,
       UpdateBundle, FindBundle, ReadBundle, WriteBundle, DeleteBundle, CreateProfile,
       UpdateProfile, DeleteProfile, CheckBundles, ReadProfile, SaveProfile, DeleteConfig,
       Render, Clone, Push, Issue, CanStart
  <1> QED
    BY <1>1, CommandsAssumption DEF Shape, CommandsOK

(* A command goes on, ends, or has pushed; what it relies on it has read. *)
LEMMA OwnStep ==
  ASSUME Shape, NEW u \in Users, Step(u)
  PROVE  /\ \/ Ready(cmd'[u])
            \/ CommandOK(cmd'[u]) /\ Push(u) /\ cmd[u].current
            \/ UNCHANGED cmd
         /\ cmd'[u].fresh => cmd[u].fresh \/ ReadBundle(u) \/ ReadProfile(u)
  <1>1. CASE Interrupt(u)
    BY <1>1, OwnGoto, IdleOK DEF Interrupt, End
  <1> QED
    BY <1>1, BundleStep, ProfileStep, GitStep, SpecStep, ClusterStep DEF Step

(* A step of a user keeps the shape of commands and store. *)
LEMMA ShapeStep ==
  ASSUME Shape, NEW u \in Users, Step(u)
  PROVE  Shape'
  <1>1. CommandOK(cmd'[u])
    BY OwnStep DEF Shape, CommandsOK, Ready
  <1>2. \A v \in Users \ {u} : CommandOK(cmd'[v])
    BY OthersWeakened, WeakenedOK DEF Shape, CommandsOK
  <1>3. CommandsOK'
    BY <1>1, <1>2, CommandsFunction, Counted DEF CommandsOK
  <1> QED
    BY <1>3, StoreStep DEF Shape

(* What Next is: a step of a user, or ArgoCD has removed an application. *)
LEMMA NextSteps == Next => AppGone \/ \E u \in Users : Step(u)
  BY DEF Next, Step

(* So does every step. *)
LEMMA ShapeNext == Shape /\ [Next]_vars => Shape'
  <1> SUFFICES ASSUME Shape, [Next]_vars PROVE Shape'
    OBVIOUS
  <1>1. ASSUME NEW u \in Users, Step(u) PROVE Shape'
    BY <1>1, ShapeStep
  <1>2. CASE AppGone
    BY <1>2 DEF AppGone, cliVars, storeVars, Shape, CommandsOK, StoreOK
  <1>3. CASE UNCHANGED vars
    BY <1>3 DEF vars, cliVars, storeVars, Shape, CommandsOK, StoreOK
  <1> QED
    BY <1>1, <1>2, <1>3, NextSteps

(* The type invariant says no more. *)
LEMMA ShapeType == Shape => TypeOK
  <1> SUFFICES ASSUME Shape PROVE TypeOK
    OBVIOUS
  <1>1. \A u \in Users : cmd[u].pc \in Pcs /\ (Pushed(u) => cmd[u].name \in Directories)
    <2> TAKE u \in Users
    <2>1. CommandOK(cmd[u])
      BY DEF Shape, CommandsOK
    <2>2. Pushed(u) => Carries(cmd[u])
      BY <2>1 DEF CommandOK, FilesOK, Pushed, At
    <2> QED
      BY <2>1, <2>2, CarriesDirectory DEF CommandOK, RecordOK
  <1>2. \A n \in Names : config[n] # None => IsConfig(config[n])
    <2> TAKE n \in Names
    <2> HAVE config[n] # None
    <2> DEFINE x == config[n]
    <2>1. x # None /\ (x \in Settings \/ x \in Legacy)
      BY DEF Shape, StoreOK
    <2> HIDE DEF x
    <2>2. IsConfig(x)
      BY <2>1 DEF IsConfig, IsSpec, Settings, Legacy
    <2> QED
      BY <2>2 DEF x
  <1> QED
    BY <1>1, <1>2 DEF TypeOK, Shape, CommandsOK, StoreOK

(* The type invariant of bundles, profiles, cluster specs and clusters:    *)
(* every object keeps its shape, and only what has a directory is pushed.  *)
THEOREM Gen1TypeCorrect == Spec => []TypeOK
  <1>1. Spec => []Shape
    BY ShapeInitially, ShapeNext, PTL DEF Spec
  <1> QED
    BY <1>1, ShapeType, PTL

-----------------------------------------------------------------------------
(* Directories and what is made of them *)

(* What is in a directory, and what is stored under its name, agree. *)
Matched(d) ==
  /\ d \in Names /\ profile[d] # None /\ profile[d].dynamic => HoldsProfile(tree[d], profile[d])
  /\ d \in Clusters /\ app[d] # None /\ "of" \in DOMAIN tree[d] => tree[d].of = app[d].profile

(* A directory that was not torn off is matched, or the command whose push *)
(* is in it has yet to write.                                              *)
Matching ==
  \A d \in Directories \ torn :
    (\E u \in Users : Pushed(u) /\ InPlace(u) /\ cmd[u].name = d) \/ Matched(d)

(* Who writes to the API server has its directory. *)
Founded ==
  /\ \A u \in Users : Pushed(u) => tree[cmd[u].name] # None
  /\ DirectoryFirst

(* A command has pushed in this step, or it had before. *)
LEMMA PushedNow ==
  ASSUME Shape, NEW u \in Users, Push(u), cmd[u].current
  PROVE  /\ cmd'[u].name = cmd[u].name /\ cmd'[u].files = cmd[u].files
         /\ tree' = [tree EXCEPT ![cmd[u].name] = cmd[u].files]
         /\ Carries(cmd[u]) /\ Pushed(u)'
  <1>0. RecordOK(cmd[u]) /\ FilesOK(cmd[u])
    BY DEF Shape, CommandsOK, CommandOK
  <1> DEFINE d == [cmd[u] EXCEPT !.pc = "save", !.current = FALSE]
  <1>1. cmd'[u] = d /\ At(u, "push") /\ tree' = [tree EXCEPT ![cmd[u].name] = cmd[u].files]
    BY DEF Push
  <1>2. d.name = cmd[u].name /\ d.files = cmd[u].files /\ d.pc = "save"
    BY <1>0 DEF RecordOK, Idle
  <1>3. Carries(cmd[u])
    BY <1>0, <1>1 DEF FilesOK, At
  <1> QED
    BY <1>1, <1>2, <1>3, ContentAssumption DEF Carries, Pushed, At

(* Whoever awaits its write has pushed in this step, or had before. *)
LEMMA PushedBefore ==
  ASSUME Shape, NEW u \in Users, Step(u), NEW v \in Users, Pushed(v)'
  PROVE  /\ cmd'[v].name = cmd[v].name /\ cmd'[v].files = cmd[v].files
         /\ Pushed(v) \/ (v = u /\ Push(u) /\ cmd[u].current)
  <1>1. cmd'[v].pc = "save" /\ cmd'[v].files # None
    BY DEF Pushed, At
  <1>2. CASE v # u
    BY <1>1, <1>2, OthersWeakened DEF Weakened, Idle, Pushed, At
  <1>3. CASE UNCHANGED cmd
    BY <1>1, <1>3 DEF Pushed, At
  <1>4. CASE v = u /\ Push(u) /\ cmd[u].current
    BY <1>4, PushedNow
  <1> QED
    BY <1>1, <1>2, <1>3, <1>4, OwnStep DEF Ready

(* And a command that has pushed stays at its write until it writes or     *)
(* ends.                                                                   *)
LEMMA PushedAfter ==
  ASSUME Shape, NEW u \in Users, Step(u), NEW v \in Users \ {u}, Pushed(v)
  PROVE  Pushed(v)' /\ cmd'[v].name = cmd[v].name /\ cmd'[v].files = cmd[v].files
  BY OthersWeakened DEF Weakened, Idle, Pushed, At

(* A command at its write has no other call. *)
LEMMA Saving ==
  ASSUME NEW u \in Users, Step(u), At(u, "save")
  PROVE  SaveProfile(u) \/ SaveApp(u) \/ Interrupt(u)
  BY DEF Step, SpecCommand, ClusterCommand, BundleCommand, ProfileCommand, Gitting,
     CreateSpec, FindSpec, UpdateSpec, GetSpec, WriteSpec, DeleteSpec, DeployCluster,
     UpdateCluster, DeleteCluster, FindApp, FindProfile, ReadSettings, CreateBundle,
     UpdateBundle, FindBundle, ReadBundle, WriteBundle, DeleteBundle, CreateProfile,
     UpdateProfile, DeleteProfile, CheckBundles, ReadProfile, DeleteConfig,
     Render, Clone, Push, Issue, CanStart, At

(* A directory is written over, and never removed. *)
LEMMA DirectoriesStay ==
  ASSUME Shape, NEW u \in Users, Step(u), NEW d \in Directories, tree[d] # None
  PROVE  tree'[d] # None
  <1>1. CASE Push(u) /\ cmd[u].current
    BY <1>1, PushedNow, ContentAssumption DEF Shape, StoreOK, Carries
  <1>2. CASE ~(Push(u) /\ cmd[u].current)
    BY <1>2, Quiet DEF Push
  <1> QED
    BY <1>1, <1>2

(* A write leaves the object that its files belong to. *)
LEMMA ProfileWritten ==
  ASSUME Shape, NEW u \in Users, SaveProfile(u),
         ~(UNCHANGED profile /\ torn' = Lost(u))
  PROVE  /\ cmd[u].name \in Names /\ profile' = [profile EXCEPT ![cmd[u].name] = cmd[u].obj]
         /\ torn' = Saved(u) /\ UNCHANGED tree /\ At(u, "save")
         /\ \/ Pushed(u) /\ HoldsProfile(cmd[u].files, cmd[u].obj)
            \/ cmd[u].files = None /\ ~cmd[u].obj.dynamic
  <1>1. /\ cmd[u].name \in Names /\ profile' = [profile EXCEPT ![cmd[u].name] = cmd[u].obj]
        /\ torn' = Saved(u) /\ UNCHANGED tree /\ At(u, "save")
    BY DEF SaveProfile
  <1>2. FilesOK(cmd[u])
    BY DEF Shape, CommandsOK, CommandOK
  <1> QED
    BY <1>1, <1>2, ContentAssumption, Gen1Assumption
    DEF FilesOK, Carries, ForCluster, At, Pushed

(* The same of the application of a cluster. *)
LEMMA AppWritten ==
  ASSUME Shape, NEW u \in Users, SaveApp(u), ~(UNCHANGED app /\ torn' = Lost(u))
  PROVE  /\ cmd[u].name \in Clusters
         /\ \E o : app' = [app EXCEPT ![cmd[u].name] = o] /\ o.profile = cmd[u].obj.profile
         /\ torn' = Saved(u) /\ UNCHANGED tree /\ At(u, "save") /\ Pushed(u)
         /\ "of" \in DOMAIN cmd[u].files => cmd[u].files.of = cmd[u].obj.profile
  <1> DEFINE gone == ~(cmd[u].op = "deploy cluster") /\ app[cmd[u].name].deleting
             o == [cmd[u].obj EXCEPT !.deleting = gone]
  <1>1. /\ cmd[u].name \in Clusters /\ app' = [app EXCEPT ![cmd[u].name] = o]
        /\ torn' = Saved(u) /\ UNCHANGED tree /\ At(u, "save")
    BY DEF SaveApp
  <1>2. FilesOK(cmd[u])
    BY DEF Shape, CommandsOK, CommandOK
  <1>3. /\ cmd[u].obj \in App /\ cmd[u].files \in Content
        /\ "of" \in DOMAIN cmd[u].files => cmd[u].files.of = cmd[u].obj.profile
    BY <1>1, <1>2, Gen1Assumption DEF FilesOK, Carries, ForProfile, ForCluster, At
  <1> HIDE DEF gone
  <1>4. o.profile = cmd[u].obj.profile
    BY <1>3 DEF App
  <1> HIDE DEF o
  <1> QED
    BY <1>1, <1>3, <1>4, ContentAssumption DEF Pushed

(* Other steps remove objects, or change nothing that concerns directories. *)
LEMMA ProfilesStay ==
  ASSUME Shape, NEW u \in Users, Step(u), ~SaveProfile(u) \/ UNCHANGED profile, NEW n \in Names
  PROVE  profile'[n] \in {profile[n], None}
  <1>1. CASE DeleteProfile(u)
    BY <1>1 DEF DeleteProfile, Shape, StoreOK
  <1> QED
    BY <1>1, Quiet

(* The same of applications. *)
LEMMA AppsStay ==
  ASSUME Shape, NEW u \in Users, Step(u), ~SaveApp(u) \/ UNCHANGED app, NEW c \in Clusters,
         app'[c] # None
  PROVE  app[c] # None /\ app'[c].profile = app[c].profile
  <1>1. CASE DeleteCluster(u)
    <2> PICK k \in Clusters : app[k] # None /\ app' = [app EXCEPT ![k].deleting = TRUE]
      BY <1>1 DEF DeleteCluster
    <2>1. app[k] \in App
      BY DEF Shape, StoreOK
    <2> DEFINE o == [app[k] EXCEPT !.deleting = TRUE]
    <2>2. o.profile = app[k].profile
      BY <2>1 DEF App
    <2>3. app' = [app EXCEPT ![k] = o]
      OBVIOUS
    <2> HIDE DEF o
    <2> QED
      BY <2>2, <2>3 DEF Shape, StoreOK
  <1> QED
    BY <1>1, Quiet

(* At the start there is nothing to have a directory. *)
LEMMA FoundedInitially == Init => Founded
  BY DEF Init, CliInit, Founded, DirectoryFirst, Pushed, At, Idle

(* A step of a user leaves everything with its directory. *)
LEMMA FoundedStep ==
  ASSUME Shape, Founded, NEW u \in Users, Step(u)
  PROVE  Founded'
  <1>1. ASSUME NEW v \in Users, Pushed(v)' PROVE tree'[cmd'[v].name] # None
    <2>1. CASE v = u /\ Push(u) /\ cmd[u].current
      BY <2>1, PushedNow, CarriesDirectory, ContentAssumption DEF Shape, StoreOK, Carries
    <2>2. CASE Pushed(v)
      <3>1. cmd'[v].name = cmd[v].name /\ cmd[v].name \in Directories
        BY <1>1, <2>2, PushedBefore, ShapeType DEF TypeOK
      <3> QED
        BY <2>2, <3>1, DirectoriesStay DEF Founded
    <2> QED
      BY <1>1, <2>1, <2>2, PushedBefore
  <1>2. ASSUME NEW c \in Clusters, app'[c] # None PROVE tree'[c] # None
    <2>1. CASE ~SaveApp(u) \/ UNCHANGED app
      BY <1>2, <2>1, AppsStay, DirectoriesStay, Gen1Assumption DEF Founded, DirectoryFirst
    <2>2. CASE SaveApp(u) /\ ~UNCHANGED app
      <3>1. CASE c = cmd[u].name
        BY <2>2, <3>1, AppWritten DEF Founded
      <3>2. CASE c # cmd[u].name
        <4>1. app'[c] = app[c] /\ UNCHANGED tree
          BY <2>2, <3>2, AppWritten DEF Shape, StoreOK
        <4> QED
          BY <1>2, <4>1 DEF Founded, DirectoryFirst
      <3> QED
        BY <3>1, <3>2
    <2> QED
      BY <2>1, <2>2
  <1>3. ASSUME NEW n \in Names, profile'[n] # None, profile'[n].dynamic PROVE tree'[n] # None
    <2>1. CASE ~SaveProfile(u) \/ UNCHANGED profile
      BY <1>3, <2>1, ProfilesStay, DirectoriesStay, ProfilesAssumption DEF Founded, DirectoryFirst
    <2>2. CASE SaveProfile(u) /\ ~UNCHANGED profile
      <3>1. CASE n = cmd[u].name
        <4>1. profile'[n] = cmd[u].obj
          BY <2>2, <3>1, ProfileWritten DEF Shape, StoreOK
        <4> QED
          BY <1>3, <2>2, <3>1, <4>1, ProfileWritten DEF Founded
      <3>2. CASE n # cmd[u].name
        BY <1>3, <2>2, <3>2, ProfileWritten DEF Founded, DirectoryFirst, Shape, StoreOK
      <3> QED
        BY <3>1, <3>2
    <2> QED
      BY <2>1, <2>2
  <1> QED
    BY <1>1, <1>2, <1>3 DEF Founded, DirectoryFirst

(* At the start there is nothing to match. *)
LEMMA MatchingInitially == Init => Matching
  BY Gen1Assumption DEF Init, Matching, Matched

(* A step of a user leaves each directory matched, awaited or torn. *)
LEMMA MatchingStep ==
  ASSUME Shape, Matching, NEW u \in Users, Step(u)
  PROVE  Matching'
  <1> SUFFICES ASSUME NEW d \in Directories \ torn'
               PROVE  \/ \E w \in Users : (Pushed(w) /\ InPlace(w) /\ cmd[w].name = d)'
                      \/ Matched(d)'
    BY DEF Matching
  <1> DEFINE Awaits(w) == Pushed(w) /\ InPlace(w) /\ cmd[w].name = d
  \* A push that another has made is in place as long as its directory is left alone.
  <1>1. ASSUME NEW w \in Users \ {u}, Awaits(w), tree'[d] = tree[d] PROVE Awaits(w)'
    BY <1>1, PushedAfter DEF InPlace
  \* What is matched stays so if neither directory nor object is written.
  <1>2. ASSUME Matched(d), tree'[d] = tree[d],
               d \in Names => profile'[d] \in {profile[d], None},
               d \in Clusters /\ app'[d] # None =>
                 app[d] # None /\ app'[d].profile = app[d].profile
        PROVE  Matched(d)'
    BY <1>2 DEF Matched
  <1> HIDE DEF Awaits
  <1>3. CASE Push(u) /\ cmd[u].current
    <2>1. CASE d = cmd[u].name
      BY <1>3, <2>1, PushedNow DEF InPlace, Shape, StoreOK
    <2>2. CASE d # cmd[u].name
      <3>1. tree'[d] = tree[d] /\ torn' = torn /\ UNCHANGED <<profile, app>> /\ ~Pushed(u)
        <4>1. At(u, "push") /\ torn' = torn
          BY <1>3 DEF Push
        <4>2. tree'[d] = tree[d]
          BY <1>3, <2>2, PushedNow DEF Shape, StoreOK
        <4>3. UNCHANGED <<profile, app>>
          BY <4>1, Quiet DEF SaveProfile, DeleteProfile, SaveApp, DeleteCluster, CanStart, At
        <4> QED
          BY <4>1, <4>2, <4>3 DEF At, Pushed
      <3> QED
        BY <1>1, <1>2, <3>1 DEF Matching, Awaits
    <2> QED
      BY <2>1, <2>2
  <1>4. CASE SaveProfile(u) /\ ~(UNCHANGED profile /\ torn' = Lost(u))
    <2>1. UNCHANGED app
      BY <1>4, Quiet, ProfileWritten, Gen1Assumption DEF SaveApp, DeleteCluster, CanStart, At
    <2>2. CASE d = cmd[u].name
      <3>1. profile'[d] = cmd[u].obj /\ d \notin Clusters /\ tree' = tree
        BY <1>4, <2>2, ProfileWritten, Gen1Assumption DEF Shape, StoreOK
      <3>2. CASE Pushed(u) /\ HoldsProfile(cmd[u].files, cmd[u].obj)
        <4>1. tree[d] = cmd[u].files
          BY <1>4, <2>2, <3>2, ProfileWritten DEF Saved, InPlace
        <4> QED
          BY <3>1, <3>2, <4>1 DEF Matched
      <3>3. CASE ~cmd[u].obj.dynamic
        BY <3>1, <3>3 DEF Matched
      <3> QED
        BY <1>4, <3>2, <3>3, ProfileWritten
    <2>3. CASE d # cmd[u].name
      <3>1. tree'[d] = tree[d] /\ d \notin torn /\ (d \in Names => profile'[d] = profile[d])
        BY <1>4, <2>3, ProfileWritten DEF Shape, StoreOK, Saved
      <3> QED
        BY <1>1, <1>2, <2>1, <2>3, <3>1 DEF Matching, Awaits
    <2> QED
      BY <2>2, <2>3
  <1>5. CASE SaveApp(u) /\ ~(UNCHANGED app /\ torn' = Lost(u))
    <2>1. UNCHANGED profile
      BY <1>5, Quiet, AppWritten, Gen1Assumption DEF SaveProfile, DeleteProfile, CanStart, At
    <2>2. CASE d = cmd[u].name
      <3>1. app'[d].profile = cmd[u].obj.profile /\ d \notin Names /\ tree' = tree
        BY <1>5, <2>2, AppWritten, Gen1Assumption DEF Shape, StoreOK
      <3>2. tree[d] = cmd[u].files
        BY <1>5, <2>2, AppWritten DEF Saved, InPlace
      <3> QED
        BY <1>5, <3>1, <3>2, AppWritten DEF Matched
    <2>3. CASE d # cmd[u].name
      <3>1. tree'[d] = tree[d] /\ d \notin torn /\ (d \in Clusters => app'[d] = app[d])
        BY <1>5, <2>3, AppWritten DEF Shape, StoreOK, Saved
      <3> QED
        BY <1>1, <1>2, <2>1, <2>3, <3>1 DEF Matching, Awaits
    <2> QED
      BY <2>2, <2>3
  <1>6. CASE /\ ~(Push(u) /\ cmd[u].current)
             /\ ~SaveProfile(u) \/ (UNCHANGED profile /\ torn' = Lost(u))
             /\ ~SaveApp(u) \/ (UNCHANGED app /\ torn' = Lost(u))
    <2>1. UNCHANGED tree
      BY <1>6, Quiet DEF Push
    <2>2. d \in Names => profile'[d] \in {profile[d], None}
      BY <1>6, ProfilesStay
    <2>3. d \in Clusters /\ app'[d] # None => app[d] # None /\ app'[d].profile = app[d].profile
      BY <1>6, AppsStay
    <2>4. d \notin torn /\ ~Awaits(u)
      <3>1. CASE At(u, "save")
        <4>1. torn' = Lost(u)
          BY <1>6, <3>1, Saving DEF Interrupt
        <4> QED
          BY <4>1 DEF Lost, Awaits
      <3>2. CASE ~At(u, "save")
        BY <3>2, Quiet DEF Awaits, Pushed, SaveProfile, SaveApp, Interrupt, Lost
      <3> QED
        BY <3>1, <3>2
    <2> QED
      BY <1>1, <1>2, <2>1, <2>2, <2>3, <2>4 DEF Matching, Awaits
  <1> QED
    BY <1>3, <1>4, <1>5, <1>6

(* Every step does. *)
LEMMA DirectoriesNext ==
  Shape /\ Founded /\ Matching /\ [Next]_vars => Founded' /\ Matching'
  <1> SUFFICES ASSUME Shape, Founded, Matching, [Next]_vars PROVE Founded' /\ Matching'
    OBVIOUS
  <1>1. ASSUME NEW u \in Users, Step(u) PROVE Founded' /\ Matching'
    BY <1>1, FoundedStep, MatchingStep
  <1>2. CASE AppGone
    <2> PICK c \in Clusters : app' = [app EXCEPT ![c] = None] /\ UNCHANGED <<cliVars, storeVars>>
      BY <1>2 DEF AppGone
    <2>1. \A k \in Clusters : app'[k] \in {app[k], None}
      BY DEF Shape, StoreOK
    <2>2. Founded'
      BY <2>1 DEF Founded, DirectoryFirst, Pushed, At, cliVars, storeVars
    <2>3. \A d \in Directories : Matched(d) => Matched(d)'
      BY <2>1 DEF Matched, cliVars, storeVars
    <2> QED
      BY <2>2, <2>3 DEF Matching, Pushed, InPlace, At, cliVars
  <1>3. CASE UNCHANGED vars
    BY <1>3 DEF vars, cliVars, storeVars, Founded, DirectoryFirst, Matching, Matched, Pushed,
       InPlace, At
  <1> QED
    BY <1>1, <1>2, <1>3, NextSteps

(* The inductive invariant. *)
LEMMA DirectoriesInvariant == Spec => [](Shape /\ Founded /\ Matching)
  BY ShapeInitially, ShapeNext, FoundedInitially, MatchingInitially, DirectoriesNext, PTL
  DEF Spec

(* DeployToGit and createInGit come first: what an application or a        *)
(* dynamic profile refers to is there.                                     *)
THEOREM DirectoryFirstCorrect == Spec => []DirectoryFirst
  <1>1. Founded => DirectoryFirst
    BY DEF Founded
  <1> QED
    BY <1>1, DirectoriesInvariant, PTL

(* Whatever commands run at once, a directory holds what its object says,  *)
(* unless a command was cut off between the two, or lost a race.           *)
THEOREM DirectoryMatchesCorrect == Spec => []DirectoryMatches
  <1>1. Matching => DirectoryMatches
    BY ProfilesAssumption, Gen1Assumption DEF Matching, Matched, DirectoryMatches, Settled
  <1> QED
    BY <1>1, DirectoriesInvariant, PTL

-----------------------------------------------------------------------------
(* Updates *)

(* What a command is to write on top of what it has read, and the store    *)
(* has not moved: that, edited as asked.                                   *)
FreshOK(c, secrets, profiles) ==
  c.fresh =>
    \/ c.pc = "write bundle" /\ c.op = "update bundle" /\ c.obj = Edited(secrets[c.name], c.arg)
    \/ /\ c.pc \in {"render", "clone", "push", "save"} /\ c.op = "update profile"
       /\ c.obj = Merged(profiles[c.name], c.arg)

Fresh == \A u \in Users : FreshOK(cmd[u], secret, profile)

(* At the start nobody relies on a version. *)
LEMMA FreshInitially == Init => Fresh
  BY IdleOK DEF Init, CliInit, Fresh, FreshOK

(* Whoever changes a bundle or a profile, all others see a new version. *)
LEMMA SecretWritten ==
  ASSUME NEW u \in Users, Step(u), ~UNCHANGED secret
  PROVE  \E b, x : Written(u, b) /\ secret' = [secret EXCEPT ![b] = x]
  BY Quiet DEF WriteBundle, DeleteBundle

(* The same of profiles. *)
LEMMA ProfileVersioned ==
  ASSUME NEW u \in Users, Step(u), ~UNCHANGED profile
  PROVE  \E n, x : Written(u, n) /\ profile' = [profile EXCEPT ![n] = x]
  BY Quiet DEF SaveProfile, DeleteProfile

(* A step does not change under another what that one relies on. *)
LEMMA OthersFresh ==
  ASSUME Shape, Fresh, NEW u \in Users, Step(u), NEW v \in Users \ {u}
  PROVE  FreshOK(cmd'[v], secret', profile')
  <1> SUFFICES ASSUME cmd'[v].fresh PROVE FreshOK(cmd'[v], secret', profile')
    BY DEF FreshOK
  <1>1. /\ cmd[v].fresh /\ cmd'[v].pc = cmd[v].pc /\ cmd'[v].op = cmd[v].op
        /\ cmd'[v].name = cmd[v].name /\ cmd'[v].arg = cmd[v].arg /\ cmd'[v].obj = cmd[v].obj
    BY OthersWeakened DEF Weakened, Idle
  <1>2. FreshOK(cmd[v], secret, profile) /\ CommandOK(cmd[v])
    BY DEF Fresh, Shape, CommandsOK
  <1>3. ASSUME NEW n, Written(u, n) PROVE cmd[v].name # n
    <2>1. cmd'[v] = [cmd[v] EXCEPT !.fresh = @ /\ cmd[v].name # n]
      BY <1>3 DEF Written
    <2>2. DOMAIN cmd[v] = DOMAIN Idle
      BY <1>2 DEF CommandOK, RecordOK
    <2> QED
      BY <2>1, <2>2 DEF Idle
  <1>4. CASE cmd[v].pc = "write bundle"
    <2>1. cmd[v].name \in Bundles
      BY <1>2, <1>4 DEF CommandOK, BundleOK
    <2>2. secret'[cmd[v].name] = secret[cmd[v].name]
      BY <1>3, <2>1, SecretWritten DEF Shape, StoreOK
    <2> QED
      BY <1>1, <1>2, <1>4, <2>2 DEF FreshOK
  <1>5. CASE cmd[v].pc \in {"render", "clone", "push", "save"} /\ cmd[v].op = "update profile"
    <2>1. cmd[v].name \in Names
      BY <1>2, <1>5 DEF CommandOK, FilesOK, Carries, ForProfile, ForCluster, ClusterOps
    <2>2. profile'[cmd[v].name] = profile[cmd[v].name]
      BY <1>3, <2>1, ProfileVersioned DEF Shape, StoreOK
    <2> QED
      BY <1>1, <1>2, <1>5, <2>2 DEF FreshOK
  <1> QED
    BY <1>1, <1>2, <1>4, <1>5 DEF FreshOK

(* A command relies on what it has just read. *)
LEMMA ReadFresh ==
  ASSUME Shape, NEW u \in Users, ReadBundle(u) \/ ReadProfile(u)
  PROVE  FreshOK(cmd'[u], secret', profile')
  <1>0. RecordOK(cmd[u]) /\ BundleOK(cmd[u]) /\ ProfileOK(cmd[u])
    BY DEF Shape, CommandsOK, CommandOK
  <1>1. CASE End(u)
    BY <1>1, OwnGoto, IdleOK DEF End, FreshOK
  <1>2. CASE ReadBundle(u) /\ ~End(u)
    <2> DEFINE e == Edited(secret[cmd[u].name], cmd[u].arg)
               d == [cmd[u] EXCEPT !.pc = "write bundle", !.obj = e, !.fresh = TRUE]
    <2>1. At(u, "read bundle") /\ Goto(u, d) /\ UNCHANGED secret
      BY <1>2 DEF ReadBundle, storeVars
    <2> HIDE DEF e
    <2>2. /\ d.pc = "write bundle" /\ d.op = "update bundle" /\ d.obj = e
          /\ d.name = cmd[u].name /\ d.arg = cmd[u].arg
      BY <1>0, <2>1 DEF RecordOK, BundleOK, Idle, At
    <2> QED
      BY <2>1, <2>2, OwnGoto DEF FreshOK, e
  <1>3. CASE ReadProfile(u) /\ ~End(u)
    <2> DEFINE q == Merged(profile[cmd[u].name], cmd[u].arg)
               pc == IF q.dynamic THEN "render" ELSE "save"
               prof == IF q.dynamic THEN q ELSE None
               d == [cmd[u] EXCEPT !.pc = pc, !.prof = prof, !.obj = q, !.fresh = TRUE]
    <2>1. At(u, "read profile") /\ Prepare(u, q, TRUE) /\ UNCHANGED profile
      BY <1>3 DEF ReadProfile, storeVars
    <2>2. Goto(u, d)
      BY <2>1, Zenon DEF Prepare
    <2>3. pc \in {"render", "save"}
      OBVIOUS
    <2> HIDE DEF q, pc, prof
    <2>4. /\ d.pc = pc /\ d.op = "update profile" /\ d.obj = q
          /\ d.name = cmd[u].name /\ d.arg = cmd[u].arg
      BY <1>0, <2>1 DEF RecordOK, ProfileOK, Idle, At
    <2> QED
      BY <2>1, <2>2, <2>3, <2>4, OwnGoto DEF FreshOK, q
  <1> QED
    BY <1>1, <1>2, <1>3

(* On its way through git a command keeps what it is to write. *)
LEMMA GitFresh ==
  ASSUME Shape, Fresh, NEW u \in Users, Gitting(u), cmd'[u].fresh
  PROVE  FreshOK(cmd'[u], secret', profile')
  <1>0. RecordOK(cmd[u]) /\ cmd[u].fresh /\ FreshOK(cmd[u], secret, profile)
    BY GitStep DEF Shape, CommandsOK, CommandOK, Fresh
  <1> DEFINE Same(d) == /\ d.op = cmd[u].op /\ d.name = cmd[u].name
                        /\ d.arg = cmd[u].arg /\ d.obj = cmd[u].obj
  <1>1. ~End(u)
    BY OwnGoto DEF End, Idle
  <1>2. UNCHANGED <<secret, profile>>
    BY DEF Gitting, storeVars
  <1>3. CASE Render(u)
    <2> DEFINE files == Generated(u)
               d == [cmd[u] EXCEPT !.pc = "clone", !.prof = None, !.files = files]
    <2>1. cmd'[u] = d /\ At(u, "render")
      BY <1>1, <1>3, OwnGoto DEF Render
    <2> HIDE DEF files
    <2>2. Same(d) /\ d.pc = "clone"
      BY <1>0 DEF RecordOK, Idle
    <2> HIDE DEF d
    <2> QED
      BY <1>0, <1>2, <2>1, <2>2 DEF FreshOK, At
  <1>4. CASE Clone(u)
    <2> DEFINE d == [cmd[u] EXCEPT !.pc = "push", !.current = TRUE]
    <2>1. cmd'[u] = d /\ At(u, "clone")
      BY <1>1, <1>4, OwnGoto DEF Clone
    <2>2. Same(d) /\ d.pc = "push"
      BY <1>0 DEF RecordOK, Idle
    <2> HIDE DEF d
    <2> QED
      BY <1>0, <1>2, <2>1, <2>2 DEF FreshOK, At
  <1>5. CASE Push(u)
    <2> DEFINE d == [cmd[u] EXCEPT !.pc = "save", !.current = FALSE]
    <2>1. cmd'[u] = d /\ At(u, "push")
      BY <1>1, <1>5 DEF Push
    <2>2. Same(d) /\ d.pc = "save"
      BY <1>0 DEF RecordOK, Idle
    <2> HIDE DEF d
    <2> QED
      BY <1>0, <1>2, <2>1, <2>2 DEF FreshOK, At
  <1> QED
    BY <1>3, <1>4, <1>5 DEF Gitting

(* Which steps a command that relies on what it has read may take. *)
LEMMA FreshExit ==
  ASSUME NEW u \in Users, Step(u),
         cmd[u].pc \in {"write bundle", "render", "clone", "push", "save"}
  PROVE  WriteBundle(u) \/ SaveProfile(u) \/ SaveApp(u) \/ Interrupt(u) \/ Gitting(u)
  BY DEF Step, SpecCommand, ClusterCommand, BundleCommand, ProfileCommand,
     CreateSpec, FindSpec, UpdateSpec, GetSpec, WriteSpec, DeleteSpec, DeployCluster,
     UpdateCluster, DeleteCluster, FindApp, FindProfile, ReadSettings, CreateBundle,
     UpdateBundle, FindBundle, ReadBundle, DeleteBundle, CreateProfile,
     UpdateProfile, DeleteProfile, CheckBundles, ReadProfile, DeleteConfig,
     Issue, CanStart, At

(* A step of a user keeps that. *)
LEMMA FreshStep ==
  ASSUME Shape, Fresh, NEW u \in Users, Step(u)
  PROVE  Fresh'
  <1>1. FreshOK(cmd'[u], secret', profile')
    <2>1. CASE ReadBundle(u) \/ ReadProfile(u)
      BY <2>1, ReadFresh
    <2>2. CASE ~cmd'[u].fresh
      BY <2>2 DEF FreshOK
    <2>3. CASE cmd'[u].fresh /\ ~ReadBundle(u) /\ ~ReadProfile(u)
      <3>1. cmd[u].pc \in {"write bundle", "render", "clone", "push", "save"}
        BY <2>3, OwnStep DEF Fresh, FreshOK
      <3>2. cmd'[u] # Idle
        BY <2>3 DEF Idle
      <3>3. Gitting(u)
        BY <3>1, <3>2, FreshExit, OwnGoto, OwnWritten
        DEF WriteBundle, SaveProfile, SaveApp, Interrupt, End
      <3> QED
        BY <2>3, <3>3, GitFresh
    <2> QED
      BY <2>1, <2>2, <2>3
  <1> QED
    BY <1>1, OthersFresh DEF Fresh

(* So does every step. *)
LEMMA FreshNext == Shape /\ Fresh /\ [Next]_vars => Fresh'
  <1> SUFFICES ASSUME Shape, Fresh, [Next]_vars PROVE Fresh'
    OBVIOUS
  <1>1. ASSUME NEW u \in Users, Step(u) PROVE Fresh'
    BY <1>1, FreshStep
  <1>2. CASE AppGone \/ UNCHANGED vars
    BY <1>2 DEF AppGone, vars, cliVars, storeVars, Fresh
  <1> QED
    BY <1>1, <1>2, NextSteps

(* What a step changes, it changes as asked. *)
LEMMA ChangesStep ==
  ASSUME Shape, Fresh, NEW u \in Users, Step(u)
  PROVE  /\ \A b \in Bundles :
              secret[b] # None /\ secret'[b] \notin {None, secret[b]} =>
                /\ cmd[u].op = "update bundle" /\ cmd[u].name = b
                /\ secret'[b] = Edited(secret[b], cmd[u].arg)
         /\ \A n \in Names :
              profile[n] # None /\ profile'[n] \notin {None, profile[n]} =>
                /\ cmd[u].op = "update profile" /\ cmd[u].name = n
                /\ profile'[n] = Merged(profile[n], cmd[u].arg)
  <1>0. CommandOK(cmd[u]) /\ FreshOK(cmd[u], secret, profile) /\ StoreOK
    BY DEF Fresh, Shape, CommandsOK
  <1>1. ASSUME NEW b \in Bundles, secret[b] # None, secret'[b] \notin {None, secret[b]}
        PROVE  /\ cmd[u].op = "update bundle" /\ cmd[u].name = b
               /\ secret'[b] = Edited(secret[b], cmd[u].arg)
    <2>1. ~DeleteBundle(u)
      BY <1>0, <1>1 DEF DeleteBundle, StoreOK
    <2>2. At(u, "write bundle") /\ secret' = [secret EXCEPT ![cmd[u].name] = cmd[u].obj]
      BY <1>1, <2>1, Quiet DEF WriteBundle
    <2>3. cmd[u].name = b /\ secret'[b] = cmd[u].obj
      BY <1>0, <1>1, <2>2 DEF StoreOK
    <2>4. cmd[u].op # "create bundle" /\ cmd[u].fresh
      BY <1>1, <2>1, <2>3, Quiet DEF WriteBundle
    <2> QED
      BY <1>0, <2>2, <2>3, <2>4 DEF CommandOK, BundleOK, FreshOK, At
  <1>2. ASSUME NEW n \in Names, profile[n] # None, profile'[n] \notin {None, profile[n]}
        PROVE  /\ cmd[u].op = "update profile" /\ cmd[u].name = n
               /\ profile'[n] = Merged(profile[n], cmd[u].arg)
    <2>1. SaveProfile(u)
      BY <1>0, <1>2, Quiet DEF DeleteProfile, StoreOK
    <2>2. At(u, "save") /\ profile' = [profile EXCEPT ![cmd[u].name] = cmd[u].obj]
      BY <1>2, <2>1 DEF SaveProfile
    <2>3. cmd[u].name = n /\ profile'[n] = cmd[u].obj
      BY <1>0, <1>2, <2>2 DEF StoreOK
    <2>4. cmd[u].op # "create profile" /\ cmd[u].fresh
      BY <1>2, <2>1, <2>3 DEF SaveProfile
    <2>5. cmd[u].op = "update profile"
      BY <1>0, <2>2, <2>3, <2>4, Gen1Assumption
      DEF CommandOK, FilesOK, Carries, ForProfile, ForCluster, ProfileOps, At
    <2> QED
      BY <1>0, <2>2, <2>3, <2>4, <2>5 DEF FreshOK, At
  <1> QED
    BY <1>1, <1>2

(* Update reads, edits and writes with the version it has read: it changes *)
(* what was asked, and never puts back what another has changed since.     *)
THEOREM ChangesCorrect == Spec => ChangesOnlyAsked
  <1> DEFINE Asked ==
        /\ \A b \in Bundles :
             secret[b] # None /\ secret'[b] \notin {None, secret[b]} =>
               \E u \in Users : /\ cmd[u].op = "update bundle" /\ cmd[u].name = b
                                /\ secret'[b] = Edited(secret[b], cmd[u].arg)
        /\ \A n \in Names :
             profile[n] # None /\ profile'[n] \notin {None, profile[n]} =>
               \E u \in Users : /\ cmd[u].op = "update profile" /\ cmd[u].name = n
                                /\ profile'[n] = Merged(profile[n], cmd[u].arg)
  <1>1. Shape /\ Fresh /\ [Next]_vars => [Asked]_vars
    <2> SUFFICES ASSUME Shape, Fresh, Next PROVE Asked
      OBVIOUS
    <2>1. ASSUME NEW u \in Users, Step(u) PROVE Asked
      BY <2>1, ChangesStep
    <2>2. CASE AppGone
      BY <2>2 DEF AppGone, storeVars
    <2> QED
      BY <2>1, <2>2, NextSteps
  <1>2. Spec => [](Shape /\ Fresh)
    BY ShapeInitially, ShapeNext, FreshInitially, FreshNext, PTL DEF Spec
  <1>3. Spec => [][Asked]_vars
    BY <1>1, <1>2, PTL DEF Spec
  <1> QED
    BY <1>3 DEF ChangesOnlyAsked
=============================================================================
