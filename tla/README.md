# Verification of Arlon/karlon in TLA+

karlon (a fork of Arlon) manages Kubernetes clusters through ArgoCD. It is a
set of controllers that run in a management cluster, a command line that writes
the same objects, and git repositories that ArgoCD deploys from. This directory
holds TLA+ modules that model its controllers and the commands that change
state, TLC configurations that check them on small instances, and TLAPS proofs
of what matters most. Paths below are relative to `src/pkg/`.

## The system

| component | code | state | operations | what is hard |
|---|---|---|---|---|
| Cluster controller | `controllers/cluster_controller.go`, `cluster/create.go`, `cluster_app.go`, `git.go`, `delete.go`, `gitutils/gitutils.go` | Cluster resources (finalizer, annotations, status), two ArgoCD applications per cluster, an override directory in git | Reconcile, reconcileDelete, UpdateState | every pass works on a copy that may be stale; calls fail after taking effect; git and status are written one after the other; ArgoCD deletes at its leisure |
| App delivery: AppProfile, ApplicationSet and Application controllers | `appprofile/reconcile.go`, three files of `controllers/` | annotations of ArgoCD clusters, statuses of AppProfiles, list generators of ApplicationSets | ReconcileEverything, from three workers | three queues, one mutex, caches that lag, controllers that wake one another up, a source (ArgoCD's clusters) nobody watches |
| ClusterRegistration controller | `controllers/clusterregistration_controller.go` | registration status, finalizer, ArgoCD cluster | Reconcile, reconcileDelete | a terminal error state, a create and a delete under different names, ignored lookup errors |
| CallHomeConfig controller | `controllers/callhomeconfig_controller.go` | config status, a secret in the workload cluster | Reconcile | a terminal error state, partial failure, retries |
| Controller start-up | `controller/controller.go`, `cmd/*controller` | a leader lease | four managers | one election id for different managers |
| External clusters, gen2 deletion | `cluster/external.go`, `cluster/delete.go`, `cluster/get.go`, `cmd/cluster` | ArgoCD applications, labels of ArgoCD's cluster secrets, patches in git | manage, unmanage, update, delete | two writes without a transaction, a compensation that may itself be wrong, two users |
| Gen1 clusters | `cluster/git.go`, `create.go`, `update.go`, `cmd/cluster` | one ArgoCD application and one git directory per cluster | deploy, update, delete | git first, object second; a commit without a change is refused |
| Profiles, bundles, cluster specs | `profile`, `bundle`, `clusterspec` | custom resources, secrets, config maps, git | create, update, delete | read-modify-write, two representations of a profile, one namespace of config maps |
| Cluster templates | `basecluster` | a manifest in a directory of a git branch | preparegit, validategit, cluster create | what is accepted, what preparation makes of it, a branch that others push to |
| Repository contexts | `gitrepo`, `cmd/gitrepo` | a local file of aliases with a default | register, unregister, lookup | truncated and rewritten without a lock |
| Installation | `cmd/initialize`, `cmd/install` | what is installed in the management cluster | init | stops anywhere, is run again, decides by one resource what is there |
| The rest | webhook, clients, verification, version | none, or outside the program | | pure input and output |

Interactions: the Cluster controller copies a Cluster's `karlon.io/profiles`
annotation to its cluster app; app delivery copies it from there to the ArgoCD
cluster and turns it into generator elements; the ClusterRegistration
controller makes the ArgoCD cluster. The controllers share no memory except the
mutex and the caches of one process; everything else goes through the API
server, ArgoCD's API or git. Commands meet one another there as well: a gen1
cluster copies what a cluster spec, a profile and the profile's bundles say;
`init --examples` registers a context, pushes templates and prepares them
through that context.

What makes each correct, in one line: no application without a guarded owner
and a teardown in order (Cluster controller); no lost event, and rest (app
delivery); what was registered is unregistered (ClusterRegistration); the
secret exists when the state says so (CallHomeConfig); a label names the one
application there is, and a deletion can be asked for again (external and gen2
clusters); what an object refers to in git is there and is its own, and no
update undoes another's (gen1); the file of contexts is consistent and every
context backed by a repository ArgoCD knows (contexts); what is called prepared
is valid, and nobody's push is undone (templates); a success reported means
everything is installed (init).

## Modules

| module | models | checked / proved |
|---|---|---|
| `ClusterController` | the Cluster controller and what surrounds it | through the next three |
| `ClusterProperties` | its invariants, action and liveness properties, the inductive invariant, the refinement mapping | TLC, TLAPS |
| `ClusterLifecycle` | the abstract specification: who may create and delete which application when | implemented by `ClusterController` |
| `ClusterProofs` | proofs: types, inductive invariant, no orphans, refinement; the status and its copies, and what they claim | TLAPS |
| `MCClusterController` | the instance TLC checks | |
| `AppProfiles` | the three workers of app delivery | through the next two |
| `AppProfilesProperties`, `MCAppProfiles` | its properties, the instance | TLC, TLAPS |
| `AppProfilesProofs` | proofs: types, no lost event, no write on an old copy | TLAPS |
| `ControllerRuntime` | what controller-runtime does for a controller of one kind of resource: cache, queue, worker, versioned writes, crashes | through the next two |
| `ClusterRegistration`, `MCClusterRegistration` | the ClusterRegistration controller, with its properties; the instance | TLC, TLAPS |
| `CallHome`, `MCCallHome` | the CallHomeConfig controller, with its properties; the instance | TLC, TLAPS |
| `OutcomeLifecycle` | the abstract specification of both: an outcome stays, and is true | implemented by `ClusterRegistration` and `CallHome` |
| `RuntimeProofs` | lemmas on `ControllerRuntime` that the proofs of the two share | TLAPS |
| `RegistrationProofs`, `CallHomeProofs` | proofs of the safety properties of the two, and that they implement `OutcomeLifecycle` | TLAPS |
| `CommandLine` | what commands that write git and then an object share: clone, push, interruption | through the next three |
| `Profiles` | bundles and profiles | |
| `Gen1Clusters` | cluster specs and gen1 clusters, composed with `Profiles` | |
| `Gen1Properties`, `MCGen1Clusters` | properties of the three; the instance | TLC, TLAPS |
| `Gen1Proofs` | proofs of the four that hold | TLAPS |
| `ClusterCommands`, `MCClusterCommands` | manage, unmanage, update and delete; the instance | TLC, TLAPS |
| `CommandsProofs` | proofs of its safety properties | TLAPS |
| `RepoContexts` | the file of repository contexts | through `Initialize` |
| `ClusterTemplates` | templates in git, and the manifests of `cluster create`; uses the contexts | through `Initialize` |
| `Initialize`, `MCInitialize` | `karlon init`, composed with both; the instance | TLC, TLAPS |
| `SetupProofs` | proofs about the three | TLAPS |

### ClusterController

State and code. `cr[c]` is the Cluster resource in the API server, cut down to
what the code tests: existence, deletion timestamp, finalizer, whether
`spec.override` is given, the profiles annotation (or `NilMap`: no annotation
map at all, which the sync treats differently), and the status fields
`innerClusterName` (set or not), `overrideSuccessful` and `state`. `cache[c]`
is the informer's copy and `cacheFresh[c]` says whether its resourceVersion is
the current one; comparing contents would not do, since a resource can return
to an earlier content under a new version. `app`, `kapp` and `appAnn` are
ArgoCD's view of the cluster app and of the "-kkarlon" app, `overlay` the
override directory in git. The worker's local variables are `obj` (the `cl` of
Reconcile), `fresh`, `seen` (the `clusterApp` it read) and `pc`, the next call
that leaves the process. Each action is one such call with the control flow up
to the next: `GetKapp`, `CheckName` and `CreateKapp`, for instance, are the Get
of the kkarlon app, the Get inside `cluster.Create` and the Create after it. A
call may fail before or after its effect (`Fails`, next to the branch with the
effect). The status write of UpdateState is a step of its own, `Report`, that
is refused when `obj` is not current. The patches that add and remove the
finalizer carry no resourceVersion, as in the code.

Around it: users create, annotate and delete resources; the informer catches up
(`CacheSync`) or resyncs (`Resync`); the process crashes and starts again
(`Restart`); ArgoCD ends a deletion (`AppGone`, `KappGone`). From `Settle` on,
users, failures and crashes stop: the liveness properties are about what
happens then. Before it, everything may happen any number of times; there are
no counters and so no bounds.

Abstractions. A template either validates or not, an override's content does
not change, credentials and clones are part of the call that fails. Applications
are deleted by the controller only: an application removed by hand is in the
hazards and not in the model. Edits of the spec after creation are not
modelled: the controller does not look at them again.

### AppProfiles

`argoCluster` and `clusterApp` are ArgoCD's clusters and the cluster apps;
`profile` and `appSet` live in the API server, with `cached` and `fresh` for the
informers. The three workers differ in the items of their queues and in one
branch: an application that is gone is answered with nothing. A pass is
`ListClusters`, `ListApps` and `ListCache` (the lists at the top of
ReconcileEverything), after which all there is to write has been decided and is
kept in `plan`, then one `TagCluster`, `ReportProfile` or `WriteAppSet` per
write, in the order of the code's three loops, and `Done`. A failed or refused
write ends the pass with an error, which puts its item back into the queue.
`held` is the set of objects of which the pass has a current copy. A worker
that waits for the mutex is modelled as one that has not taken its item: it has
read nothing it will use.

The answers of ArgoCD's API are taken to be current. `unseen` is a history
variable: an ArgoCD cluster changed, or an application's end was answered with
nothing, since the last pass read ArgoCD. `troubles` counts changes by users,
failures and crashes; `MaxTroubles` bounds them.

### ControllerRuntime, ClusterRegistration, CallHome

Both small controllers have the same shape, so what surrounds a worker is a
module of its own, and each controller extends it with its steps: `res`,
`cache`, `cacheFresh`, `queued`, `pc`, `cur`, `obj`, `fresh` and `settled` mean
what they mean in `ClusterController`. `Begin` is the read at the top of
Reconcile, with the branches before the first call out of the process
(`FirstStep`). `StatusUpdate` is `r.Status().Update`, refused when the copy is
not current; `Patch` is the patch helper, which is not. A write that changes
nothing keeps the version and sends no event, as the API server does: this is
why CallHomeConfig must ask for its retries in the result.

`ClusterRegistration` adds `argo`, the names under which ArgoCD has clusters,
and `secret`, the kubeconfig secret of each registration: missing, unusable (no
such key, or no kubeconfig in it) or usable. The steps are the calls of
Reconcile (`AddFinalizer`, `Lookup`, `ReadSecret`, `InstallRBAC`, `Create`,
`Report`) and of reconcileDelete (`Find`, `Unregister`, `RemoveFinalizer`).
`name` may be `Unnamed`: the code then registers under the resource's name, and
looks up and deletes under the empty one. `unfound` is a history variable: the
names that were registered when a lookup at deletion did not find them, by
failure or for that reason; `RegisteredMeansOwned` excepts exactly these.
Each cluster has one registration, as the charts make it, and nobody else
unregisters a cluster.

`CallHome` adds what the controller waits for (`kubeconfig`, `account`,
`token`) and what it makes (`target`, the secret in the workload cluster, which
nobody else makes or removes). Of a status message, both modules keep which
wait it is about: a status whose message changes is a new version, one whose
message does not is none. Reads of secrets through the controller's cache are
taken to be current: until all has settled, the secrets change between any two
steps anyway.

### CommandLine, Profiles, Gen1Clusters

A command is a record `cmd[u]`: its next call, its arguments, and the copies it
has read. `started` counts commands; `MaxCommands` bounds it. `Interrupt` ends a
command anywhere: every call may fail, and no command undoes anything. Commands
that write git clone the branch (`Clone`), commit, and push (`Push`), which the
remote refuses if the branch has moved (`current`). A commit of a tree that is
no different is refused, as in `gitutils/gitutils.go`. `tree[d]` is the content
of a generated directory at the branch's head.

`Profiles` has the secrets of bundles and the two representations of profiles,
`profile` (resources) and `config` (config maps, which cluster specs share).
`fresh` says whether the resourceVersion a command has read is still current;
bundles and profiles are written back with it, cluster specs and applications
without. Of an update, `None` is an option that is not given. What a bundle
becomes in git is `Compiled`; `Generated` is the directory of a profile or of a
cluster. `Gen1Clusters` adds `config`'s cluster specs and `app`, the ArgoCD
application of a cluster with the settings it was given.

Abstractions. A profile's tags go with its description (`text`); a bundle has at
most one parameter; rendering reads all of a profile's bundles in one step
(`Render`), whereas the code reads them one after the other; of a cluster
spec's settings there is the chart (which an update must not change), one that
an update keeps unless it is given and one that it always sets. `torn` is a
history variable: the directories whose last push was not followed by the write
of the object that belongs to it.

### ClusterCommands

`kind[p]` says whether a profile exists and is dynamic; `label[c]` is the
profile that the secret of an external cluster is labelled with; `app[c][k]` is
the state of each application that bears the cluster's name: the profile
applications (one for each profile), and for a gen2 cluster its cluster app and
"-kkarlon" app. The steps are the calls of `ManageExternal` (`FindProfile`,
`ListClusters`, `ReadSecret`, `CreateApp`, `Label`, `Undo`), of
`UnmanageExternal` (`Find`, `DeleteApp`, `Unlabel`) and of `Delete` (`Find`,
`DropOverlay`, `Remove` once per application); `Update` is the one followed by
the other. A patch may fail, or be done and its answer lost: `Undo` follows
either. ArgoCD takes the creation of an application that exists with the same
content for done, also while that application is being deleted. Beside the
commands, clusters are registered and unregistered, profiles go, deletions end.

`suspect` is a history variable: the clusters of which a command was cut off
half-way, met another command on the same cluster, or took over an application
on its way out. `LabelMatches` and `StillFound` except these; what becomes of
them is among the observations below. gen1 clusters, whose applications
`cluster delete` removes too, are in `Gen1Clusters`.

### RepoContexts, ClusterTemplates, Initialize

`file` is what `~/.kkarlon/repoctx` holds: a configuration (a default URL and a
list of contexts) or `Garbage`, what remains when two commands write at once. A
command loads it, calls ArgoCD (`CreateRepo`), truncates it and stores
(`Truncate`, `Store`), through one file handle: `linked` says whether that
handle still is the file of this name, which `init --examples` removes.
`contexts` (what was registered and not unregistered) and `suspect` (two writers
had the file open, or one was cut off between truncating and writing) are
history variables.

`ClusterTemplates` has the directories of the repositories. A directory is its
manifest files (sequences of resources, of which a namespace, the autoscaler's
bounds and the kind are kept), the name in its kustomization, whether it has a
configurations.yaml and a subdirectory. `Valid` is what `ValidateGitDir`
accepts, `PreparedDir` what `PrepareGitDir` makes. `Prepare` (preparegit) and
`Write` (`cluster create`'s manifest) work on a clone and `Push`; `Edit` is a
commit by anybody else. `seen` is what the clone had.

`Initialize` extends both. `argo` is how far ArgoCD's manifest has been applied,
`karlon` the parts that are in the cluster, in the order of `beginArlonInstall`,
`capi` whether Cluster API is there. `todo` is what an `init` has yet to do: the
examples are the steps of the other two modules (`register`, `resolve`,
`prepare`, `push`) under init's own arguments, one after the other. A user may
decline an installation; `partial` records that, and an init that was cut off.

## Runs

| run | instance | states | shows |
|---|---|---|---|
| `cluster` | 1 cluster, no annotation value besides none and no map | 206,790 | types; `NoOrphanApps`, `FinalizerFirst`, `OverrideRecordTrue`, `CreatedMeansProvisioned`; the inductive invariants `Inductive` and `Progress`; `ImplementsLifecycle`; `Converges`, `TeardownCompletes` |
| `appprofiles_safety` | 1 cluster, 2 profiles, 1 app, 1 trouble | 797,973 | types; `WritesAreCurrent` |
| `appprofiles_rest` | 1 cluster, 1 profile, 1 app, 2 troubles | 239,393 | `QuietIsConsistent` with two troubles; `ComesToRest` |
| `registration` | 1 registration, with its own name, another or none | 483,138 | types; `CompleteMeansRegistered`, `RegisteredMeansOwned`, `RegistrationEnds`; `ImplementsOutcome` |
| `call_home` | 1 config | 193,104 | types; `CompleteMeansCreated`, `CallsHome`; `ImplementsOutcome` |
| `gen1` | 2 users, 2 commands, 1 bundle, 2 names of profiles and specs, 1 cluster | 273,537 | types; `DirectoryFirst`, `DirectoryMatches`, `ChangesOnlyAsked` |
| `commands` | 2 users, 3 commands, 2 clusters, 2 profiles | 1,417,372 | types; `LabelMatches`, `StillFound`, `OverlayFirst` |
| `setup` | 2 users, 2 commands, 2 repositories, 2 aliases, 1 example | 1,191,240 | types; `ContextsAgree`, `ContextsBacked`, `ContextsKept`, `PreparedIsValid`, `NothingUndone`, `BoundsKept`, `SuccessMeansInstalled`, `ControllersLast` |
| `teardown_ends`, `base_annotations_kept`, `kubeconfig_awaited`, `spec_change_applied` | as above | | documented behaviour the code does not have, see Findings |

Why the bounds are enough. Clusters share nothing but the worker, which keeps
nothing from one to the next: one cluster, re-created any number of times, with
a stale cache and a crash at any point, meets every interaction the code has;
the proofs cover any number. Annotation values are only compared: none, and the
missing map, are all that the sync treats differently. For app delivery the
union over profiles needs two profiles, which `appprofiles_safety` has and which
the proof of `QuietIsConsistent` covers in any number; two workers that meet need
two events, which the initial states already contain, since the process starts on
any world with everything queued. One app and one cluster suffice to lose or to
keep an event; several clusters only make generators longer. Registrations of different
clusters, and configs with different target secrets, share nothing but the
worker: one resource, re-created any number of times with any specification,
meets its own stale copies, which is where the code can go wrong.

Commands keep nothing from one run to the next, so what can go wrong is what two
of them do to each other, or what one does to what others have left. Two
commands in any interleaving give the first. For the second, `gen1` also starts
from two situations that earlier commands produce (`Deployed`: a cluster with a
dynamic profile, a bundle and a spec; `Stocked`: a static and a legacy profile
and a spec, no cluster), and `setup` from an installed and from an empty
management cluster, with and without a manifest in the directories. `commands` has
three, so that a pair can be preceded by one that set a label. Two names for
profiles and specs let one name mean both; two repositories and aliases let the
default and another differ.

Deadlock is not checked where the system may rightly stop: a system without
resources, settled, has nothing to do, and commands end.

## Fairness

`ClusterController!Fairness`: the work queue hands out every item in turn
(strong fairness of `Begin`, since retries of other clusters interrupt it), the
worker's calls return, a watch delivers, ArgoCD ends the deletions it began, and
users and services do settle. `Resync` is owed nothing: progress must not wait
for a resync hours later. `AppProfiles!Fairness`: a pass continues, a Go mutex
starves no worker for ever (strong fairness of taking an item), watches deliver.
`ClusterRegistration!Fairness` and `CallHome!Fairness` are those of the Cluster
controller, without ArgoCD's deletions. A retry after ten seconds is an item in
the queue: that it waits is within what fairness allows. The modules of the
commands state no fairness: a user may stop at any point and need not come back,
so nothing that a command was to do is owed.

## Proofs

`ClusterProofs` proves, for every set of clusters and of annotation values
(assuming only that there is a cluster and that the two special annotation
values are distinct from the others):

- `TypeCorrect`: the type invariant.
- `InductiveCorrect`: the inductive invariant `Inductive`, and from it
- `NoOrphanAppsCorrect`, and
- `RefinesLifecycle`: every behaviour of the controller is one of
  `ClusterLifecycle`.

`NoOrphanApps` is not inductive: whether a step keeps it depends on what the
worker believes. The argument is that belief. `CacheTells`: a resource that the
cache shows guarded (finalizer set, not marked for deletion) still holds the
finalizer, and one that the cache shows doomed has not come back guarded; this
is so because only a pass that saw the deletion removes the finalizer, and the
cache is past that sight when the next incarnation is guarded. `DrainsDoomed`:
ArgoCD is deleting applications of doomed resources only. `WorkerKnows`: what
each `pc` presupposes -- no application is being deleted while a pass builds, the
kkarlon app is there before the cluster app is made, the cluster app is gone
when the kkarlon app is taken down, and both are when the finalizer goes. The
step proof has a lemma per group of actions (look, change ArgoCD, change the
resource, begin, outside, users). The refinement maps the three flags of a
resource to the owner states of `ClusterLifecycle` and each step to an abstract
step or a stutter.

`ClusterProofs` goes on with what the status says. `Progress` is a second
inductive invariant, on top of `Inductive`: copies that are current, or that a
pass builds on, record no less than what exists (`CopiesAgree`); what exists has
its trace in a guarded resource (`TracesGuarded`); what is recorded is true
(`RecordsTrue`); and what the worker's copy says at its next call is so, current
or not (`CopyKnows`). `FinalizerFirst`, `OverrideRecordTrue` and
`CreatedMeansProvisioned` follow from it. The point that needs the first
invariant is the status written from a stale copy: it is refused, because the
version it was read at is gone.

`AppProfilesProofs` proves, for any sets of clusters, profiles, apps, servers and
annotation values and any number of troubles, that no event is lost
(`QuietIsConsistent`) and that no pass writes on an old copy (`WritesAreCurrent`).
`QuietIsConsistent` speaks of a state in which nothing happens any more; what
leads there is `NothingLost`: at any time another pass is certain (an item is
queued, a watch has yet to deliver, or `unseen` excuses it: `Waking`), or nothing
runs and all is consistent, or the one pass that runs is `OnTrack`. A pass is on
track when what it has read is still so (`ClustersKnown`, `UsersKnown`) and when
whatever is not as it should be is among what it will write (`TagsPlanned`,
`WritesPlanned`). The argument is that each change by others wakes somebody up,
after which nothing is owed by the pass at all; that a pass which ends with an
error puts its item back; that a pass takes its decisions on cached copies all of
which are current, or else a delivery is outstanding; and that a write of the
pass itself wakes somebody up where its object is watched, and leaves the rest of
its plan true where it is not (the annotations of ArgoCD's clusters). `OnePass`
is what the mutex gives. `HeldOK` is what makes a write that is not refused a
sound one: of an object in `held` the pass has a current copy, so what the plan
says of it fits; `WritesAreCurrent` follows. `DeliveryInv`, the conjunction, was
checked with TLC on two profiles, and on two servers, before it was proved.

`CallHomeProofs` and `RegistrationProofs` use the same lemmas on the runtime
(`RuntimeProofs`: what each kind of step does to resource, cache and copy). Both
controllers implement `OutcomeLifecycle` (`RefinesOutcome`,
`CallHomeRefinesOutcome`): the three flags and the state of a resource are its
phase, what exists for it is `made`, and each step is an abstract step or a
stutter. That a pass never takes a resource out of `complete` or `error` (also
stated as `FinalStates`, and proved of doomed resources too) is a matter of
versions: the pass began with a copy that was not final, and if it is still
current, so is the resource (`PassKnows`, `ReportsOpen`). `RegisteredMeansOwned`
needs `CacheTells` (a resource the cache shows guarded is guarded, and is called
what the cache says) and `WorkerKnows` (a pass that registers works on a guarded
resource, one that removes the finalizer has unregistered it, or did not find it).

`CompleteMeansRegistered` needs a second invariant, `Trusted`, since a deletion
goes by name: what is complete is registered, guarded, and shown by the cache
under its name (`CompleteKnown`); a copy that is current was read from a cache
that is (`CopyCurrent`); a pass that will report `complete` has found or made the
cluster (`ReportTrue`); and a deletion is under a name that no other complete
resource has (`OthersSpared`). The last holds at the start of the deletion if the
cache shows no two resources of one name, `OneRegistrationShown`, which
`CompleteCorrect` and `RefinesOutcome` assume. In the API server no two ever have
one name (`OneRegistrationCorrect`), and an informer shows a past state of the API
server; but `CacheSync` lets each resource lag by itself, and then an old
registration, seen as still being deleted, takes the cluster of a new one of the
same name. `CompleteAlone` and `RefinesOutcomeAlone` need no condition: they are
about one resource, as the run `registration` is.

`CommandsProofs` proves the three properties of `ClusterCommands` for any number
of users, clusters, profiles and commands. The invariant `Alone` says of every
cluster that is not suspect that at most one command is at work on it, and that
what this command goes by is so: between its calls the label and the
applications are as its `pc` says (`KnowsLabel`, `KnowsApps`); when no command is
at work they match. `OverlayFirst` holds of all clusters, suspect or not.

`SetupProofs` proves the properties of contexts, templates and init. `Shape`
says that a command has what its next call needs. `InstallOK`: what is installed
of karlon is a prefix of the order of installation, and no init is more than one
part ahead of it -- whence `ControllersLast`. `ContextsOK`: the file, and every
configuration that a command has loaded and will write, is consistent and
backed; it does not matter that they overwrite one another's. `TemplatesOK`: what
is on its way to a branch is valid if it was prepared, and if the clone is
current, its directories are as the branch has them (`PushOK`) -- whence
`NothingUndone`, `PreparedIsValid` and `BoundsKept`. `InstalledOK`: what an init
has behind it has begun, and what has begun and is not done is being done by an
init that goes on, unless one was cut off -- whence `SuccessMeansInstalled`.
`KeptOK`: where no two commands have met at the file, one at most has it open and
goes by what is so, and but for the time between truncating and writing, the file
holds what it should -- whence `ContextsKept`.

`Gen1Proofs` proves the properties of bundles, profiles and gen1 clusters for any
number of users, objects and commands. `Shape` types objects, directories and
commands, and says that the files a command carries agree with what it will write
(`Carries`). `Founded`: whoever is at its write has its directory, and directories
are never removed -- whence `DirectoryFirst`. `Matching`: a directory that was not
torn off agrees with its object, or a command whose push is in it has yet to
write; `DirectoryMatches` alone is not inductive, since of two commands that push
the same directory the later push need not be followed by the later write.
`Fresh`: what a command will write over a version that still stands is that
version, edited as asked -- whence `ChangesOnlyAsked`.

Assumptions, each named and beside the constants it is about, and evaluated by
TLC in the runs: special values differ from ordinary ones (`None` is no
repository, alias or file name; the two applications of a gen2 cluster are not
profiles); directories and manifests have the form that `IsDirectory` and
`IsManifest` give them (`TemplatesAssumption`); the examples are a sequence of
directories (`InitializeAssumption`); the cache of a resource that is not there
is `NoResource` (`AbsentAssumption`); no worker is `Nothing`
(`WorkersAssumption`); a file of contexts that cannot be parsed is
no configuration (`GarbageAssumption`); a directory that is not there has no
content (`ContentAssumption`).

Only model-checked: the liveness properties (`Converges`, `TeardownCompletes`,
`ComesToRest`, `RegistrationEnds`, `CallsHome`), since fairness is out of the
prover's reach. Every safety property of a passing run is proved. The theorems are
about `Init`; the runs `gen1` and `setup` also start from states that commands have
brought about, so that more happens within their bounds.

## Findings

Each is a run that TLC refutes, against a sentence of the documentation or of a
comment.

- `TeardownEnds`: the override directory is removed from git before the status
  says so. If the status write is lost, every later pass tries to remove a
  directory that is not there and fails: the deletion is stuck.
- `BaseAnnotationsKept`: a resource without an annotation map wipes all the
  annotations of its cluster app, the template's included.
- `KubeconfigAwaited`: a registration waits only while its kubeconfig secret does
  not exist. One failed read, or a secret whose key comes later, ends it in the
  state `error` for good.
- `SpecChangeApplied`: the tutorial updates a cluster spec and then runs `cluster
  update` without flags. The cluster's directory comes out as it was, the commit
  of no change is refused, and the command ends before it tells ArgoCD.

`TeardownCompletes` and `Converges` state what does hold, with the conditions
these findings make necessary.

## Observations

Behaviour met while modelling that no sentence of the repository contradicts, or
that a property states only with an exception. The models have all of it unless
the last paragraph says otherwise.

Cluster controller: the mirror image of `TeardownEnds` is that an override whose
push landed and whose status write was lost is never recorded, since every later
attempt has nothing to commit; a Cluster that is deleted after the push and
before its cluster app exists leaves the directory in git.

App delivery: elements are compared by cluster name only; a cluster that is
registered again with another endpoint keeps the old server.

Profiles and gen1 clusters: `profile update --clear` passes the value that means
no change (`cmd/profile/update.go:36`); `profile delete x` deletes a cluster spec
x if there is no profile resource x; an update whose object is refused for its
version has already pushed its directory; updates of cluster specs and of
applications carry no version, so of two at once the first is lost; `clusterspec
update` resets the autoscaler bounds to their defaults unless they are given,
since its flags have defaults.

External and gen2 clusters, where `LabelMatches` and `StillFound` make their
exceptions: two users who manage one cluster with different profiles leave one
profile application without a label; a crash between the application and the
label leaves an application that no command finds, and one between deleting the
application and removing the label a cluster that can never be unmanaged, since
the application is not found; a secret without annotations makes `manage` panic
after it has made the application (`cluster/external.go:106`); a patch that took
effect and reported failure has its application removed under its label; manage
right after unmanage may take over the application on its way out; `cluster
update` unmanages before it looks the new profile up; a deletion of a gen2
cluster that is cut off after the cluster app cannot be asked for again, and one
cut off after its patches were removed fails for ever.

Contexts and templates: a command that loads the file while another has it
truncated sees no contexts and writes that back; a longer write of another
leaves a tail that cannot be parsed; a crash in between empties the file.
preparegit does not look at what an existing kustomization.yaml names; a manifest
with one autoscaler bound gets the other from the command, which may give a
minimum above the maximum; `cluster create` into the directory of a template
makes that template invalid.

Installation: an `init` that was cut off leaves the namespace, which the next one
takes for the whole of karlon: it skips the installation and reports success (as
does `verify`); the step that creates the ArgoCD credentials cannot be repeated;
`init --examples` fails on a repository that has no example directories yet,
since it commits their removal; its preparation goes through the alias
`default`.

Not in the models: the "-kkarlon" app of a cluster x has the name of the cluster
app of a cluster x-kkarlon; installing overwrites the data of argocd-cm and
argocd-rbac-cm; `cluster ngupdate` selects by a label that nothing bears
(`kkkarlon-cluster`, `cmd/cluster/ngupdate.go:35`) and so always ends with
"failed to get the given cluster", against `docs/gen2_Tutorial.md:416-423`; three
managers with different controllers use one leader election id
(`controller/controller.go:104,152,227`).

## Not modelled

- Controller start-up and leader election: the wiring of managers; whether they
  run side by side is decided by a deployment that is not in the repository.
- `cluster ngupdate`, which ends at its first call (above); `cluster
  setappprofiles`, one write of an annotation that `AppProfiles` has as
  `EditClusterApp`; `list`, `get`, `dump` and `verify` commands, which only read.
- The templates of ApplicationSets, generated kubeconfigs, charts, the text of
  manifests and of patches: data that no control flow looks at.
- The webhook (a stateless rewrite), the construction of clients, downloads of
  command line tools and the bootstrap of cloud accounts, the empty Profile
  reconciler: input and output without state of their own.

The plan of the first part (Cluster controller, app delivery, registration,
calling home, commands on external clusters, profiles, contexts, templates) has
been carried out; what it leaves is a composition of the Cluster controller with
app delivery in one state space. Their interface is one annotation of the
cluster app, which the one writes (`UpdateApp`) and the other takes as changing
at any time (`EditClusterApp`), so each model already contains the other's part
of it in full generality; the product of the two is out of TLC's reach.
