------------------------------- MODULE Profiles -------------------------------
(***************************************************************************)
(* Bundles and profiles, as `karlon bundle` and `karlon profile` create,   *)
(* update and delete them.  A bundle is a secret.  A profile is a custom   *)
(* resource, or, in the older (legacy) representation which only reads and *)
(* deletions still know, a config map; cluster specs are config maps in    *)
(* the same namespace.  A dynamic profile has in addition a directory in   *)
(* git that is compiled from its bundles: git is written first, then the   *)
(* resource.                                                               *)
(*                                                                         *)
(* Modelled of a profile are its bundles (a set: updates compare lists as  *)
(* sets), its parameters (at most one per bundle) and its description,     *)
(* which stands for the tags too; of a bundle, whether it is static, the   *)
(* data it holds or refers to, and its description.                        *)
(***************************************************************************)
EXTENDS CommandLine

CONSTANTS
  Bundles,   \* names of bundles
  Names,     \* names of profiles and cluster specs
  Data,      \* manifests and references of bundles
  Values,    \* values of parameters
  Texts      \* descriptions

ASSUME ProfilesAssumption == Names \subseteq Directories

VARIABLES
  secret,    \* secret[b]: bundle b, or None
  profile,   \* profile[n]: the Profile resource n, or None
  config     \* config[n]: the config map n, or None

storeVars == <<secret, profile, config>>

Bundle == [static : BOOLEAN, data : Data, text : Texts]
Params == [Bundles -> Values \union {None}]
Profile == [bundles : SUBSET Bundles, dynamic : BOOLEAN, params : Params, text : Texts]
NoParams == [b \in Bundles |-> None]

(* What a generated directory may hold: the manifests of bundles, or a     *)
(* reference to a profile.                                                 *)
Manifest == [copy : Data] \union [refers : Data, param : Values \union {None}]
Content == [of : Names] \union [bundles : UNION {[bs -> Manifest] : bs \in SUBSET Bundles}]

ASSUME ContentAssumption == None \notin Content

\* Mutant: an option that is not given overwrites.
GivenAlways(new, old) == new

Given(new, old) == IF new = None THEN old ELSE new

(*------------------------------- Bundles ---------------------------------*)

CreateBundle(u) ==
  /\ \E b \in Bundles, s \in Bundle : Issue(u, Command("find bundle", "create bundle", b, s))
  /\ UNCHANGED storeVars

FindBundle(u) ==
  /\ At(u, "find bundle")
  /\ IF secret[cmd[u].name] # None THEN End(u)
     ELSE Goto(u, [cmd[u] EXCEPT !.pc = "write bundle", !.obj = cmd[u].arg])
  /\ UNCHANGED <<tree, torn, started, storeVars>>

(* An update gives a description, new data, or both.  Only a static bundle *)
(* may get new data; data that is given counts as a change.                *)
UpdateBundle(u) ==
  /\ \E b \in Bundles, d \in Data \union {None}, t \in Texts \union {None} :
       Issue(u, Command("read bundle", "update bundle", b, [data |-> d, text |-> t]))
  /\ UNCHANGED storeVars

Edited(s, arg) == [s EXCEPT !.data = Given(arg.data, @), !.text = Given(arg.text, @)]

ReadBundle(u) ==
  LET s == secret[cmd[u].name]
      arg == cmd[u].arg
  IN /\ At(u, "read bundle")
     /\ IF \/ s = None
           \/ arg.data # None /\ ~s.static
           \/ arg.data = None /\ Edited(s, arg) = s
        THEN End(u)
        ELSE Goto(u, [cmd[u] EXCEPT !.pc = "write bundle", !.obj = Edited(s, arg),
                                    !.fresh = TRUE])
     /\ UNCHANGED <<tree, torn, started, storeVars>>

\* Mutant: the update carries no version.
WriteBundleUnversioned(u) ==
  LET b == cmd[u].name
      creates == cmd[u].op = "create bundle"
  IN /\ At(u, "write bundle")
     /\ IF creates <=> secret[b] = None
        THEN secret' = [secret EXCEPT ![b] = cmd[u].obj] /\ Written(u, b)
        ELSE End(u) /\ UNCHANGED secret
     /\ UNCHANGED <<tree, torn, started, profile, config>>

(* Create is refused when the secret exists, Update when it has changed.   *)
WriteBundle(u) ==
  LET b == cmd[u].name
      creates == cmd[u].op = "create bundle"
  IN /\ At(u, "write bundle")
     /\ IF IF creates THEN secret[b] = None ELSE secret[b] # None /\ cmd[u].fresh
        THEN secret' = [secret EXCEPT ![b] = cmd[u].obj] /\ Written(u, b)
        ELSE End(u) /\ UNCHANGED secret
     /\ UNCHANGED <<tree, torn, started, profile, config>>

(* The secret goes, whoever uses the bundle.                               *)
DeleteBundle(u) ==
  \E b \in Bundles :
    /\ CanStart(u) /\ secret[b] # None
    /\ started' = started + 1
    /\ secret' = [secret EXCEPT ![b] = None]
    /\ Written(u, b)
    /\ UNCHANGED <<tree, torn, profile, config>>

(*------------------------------- Profiles --------------------------------*)

CreateProfile(u) ==
  /\ \E n \in Names, p \in Profile : Issue(u, Command("check", "create profile", n, p))
  /\ UNCHANGED storeVars

(* Of bundles, text and params, what is not given is None (no change).     *)
(* `--clear` gives None for the bundles, too.                              *)
UpdateProfile(u) ==
  /\ \E n \in Names, bs \in (SUBSET Bundles) \union {None}, t \in Texts \union {None},
        ps \in Params :
       Issue(u, Command("check", "update profile", n, [bundles |-> bs, text |-> t, params |-> ps]))
  /\ UNCHANGED storeVars

(* What is written: a dynamic profile by way of git.                       *)
Prepare(u, p, fresh) ==
  Goto(u, [cmd[u] EXCEPT !.pc = IF p.dynamic THEN "render" ELSE "save",
                         !.prof = IF p.dynamic THEN p ELSE None,
                         !.obj = p, !.fresh = fresh])

Existing == {b \in Bundles : secret[b] # None}

(* The bundles named must exist.                                           *)
CheckBundles(u) ==
  LET bs == cmd[u].arg.bundles
  IN /\ At(u, "check")
     /\ CASE bs # None /\ ~(bs \subseteq Existing) -> End(u)
          [] cmd[u].op = "update profile" -> Goto(u, [cmd[u] EXCEPT !.pc = "read profile"])
          [] OTHER -> Prepare(u, cmd[u].arg, FALSE)
     /\ UNCHANGED <<tree, torn, started, storeVars>>

Merged(p, arg) ==
  [p EXCEPT !.bundles = Given(arg.bundles, @), !.text = Given(arg.text, @),
            !.params = [b \in Bundles |-> Given(arg.params[b], @[b])]]

(* A config map of that name stands in the way, whatever it is: a legacy   *)
(* profile is not updated, and a cluster spec is not a profile.            *)
ReadProfile(u) ==
  LET n == cmd[u].name
      p == profile[n]
  IN /\ At(u, "read profile")
     /\ IF config[n] # None \/ p = None THEN End(u)
        ELSE IF Merged(p, cmd[u].arg) = p THEN End(u)
        ELSE Prepare(u, Merged(p, cmd[u].arg), TRUE)
     /\ UNCHANGED <<tree, torn, started, storeVars>>

\* Mutant: the parameters of the profile do not reach the templates.
CompiledBare(p) ==
  [b \in p.bundles |-> IF secret[b].static THEN [copy |-> secret[b].data]
                       ELSE [refers |-> secret[b].data, param |-> None]]

(* Each bundle becomes an Application; a static bundle's manifest is       *)
(* copied, a dynamic one gets the profile's parameter.                     *)
Compiled(p) ==
  [b \in p.bundles |-> IF secret[b].static THEN [copy |-> secret[b].data]
                       ELSE [refers |-> secret[b].data, param |-> p.params[b]]]

(* The directory of a cluster with a dynamic profile refers to it instead. *)
Generated(u) ==
  LET p == cmd[u].prof
  IN IF p.dynamic /\ cmd[u].name \notin Names THEN [of |-> cmd[u].obj.profile]
     ELSE [bundles |-> Compiled(p)]

Render(u) ==
  LET p == cmd[u].prof
  IN /\ At(u, "render")
     /\ IF p.bundles \subseteq Existing
        THEN Goto(u, [cmd[u] EXCEPT !.pc = "clone", !.prof = None,
                                    !.files = Generated(u)])
        ELSE End(u)
     /\ UNCHANGED <<tree, torn, started, storeVars>>

SaveProfile(u) ==
  LET n == cmd[u].name
      creates == cmd[u].op = "create profile"
  IN /\ At(u, "save") /\ n \in Names
     /\ IF IF creates THEN profile[n] = None ELSE profile[n] # None /\ cmd[u].fresh
        THEN /\ profile' = [profile EXCEPT ![n] = cmd[u].obj]
             /\ torn' = Saved(u)
             /\ Written(u, n)
        ELSE End(u) /\ torn' = Lost(u) /\ UNCHANGED profile
     /\ UNCHANGED <<tree, started, secret, config>>

(* The resource goes, or else, if there is none, the config map of that    *)
(* name.  The directory in git stays.                                      *)
DeleteProfile(u) ==
  \E n \in Names :
    /\ CanStart(u)
    /\ started' = started + 1
    /\ IF profile[n] # None
       THEN profile' = [profile EXCEPT ![n] = None] /\ Written(u, n)
       ELSE Goto(u, Command("delete config", "delete profile", n, None)) /\ UNCHANGED profile
    /\ UNCHANGED <<tree, torn, secret, config>>

DeleteConfig(u) ==
  /\ At(u, "delete config")
  /\ config' = [config EXCEPT ![cmd[u].name] = None]
  /\ End(u)
  /\ UNCHANGED <<tree, torn, started, secret, profile>>

BundleCommand(u) ==
  \/ CreateBundle(u) \/ UpdateBundle(u)
  \/ FindBundle(u) \/ ReadBundle(u) \/ WriteBundle(u) \/ DeleteBundle(u)

ProfileCommand(u) ==
  \/ CreateProfile(u) \/ UpdateProfile(u) \/ DeleteProfile(u)
  \/ CheckBundles(u) \/ ReadProfile(u) \/ SaveProfile(u) \/ DeleteConfig(u)

Gitting(u) ==
  /\ Render(u) \/ Clone(u) \/ Push(u)
  /\ UNCHANGED storeVars
=============================================================================
