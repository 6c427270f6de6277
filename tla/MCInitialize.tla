---- MODULE MCInitialize ----
(* An instance of Initialize: what people put into a directory is nothing, *)
(* a manifest with a namespace and one bound, or this in a directory that  *)
(* also has a subdirectory.                                                *)
EXTENDS Initialize

CONSTANTS r1, r2, d1, m1, m2

MCBounds == {Bounds(9, 1), Bounds(5, 2)}
MCDefaultBounds == Bounds(9, 1)
MCRaw == <<Resource("Cluster", TRUE, None, None), Resource("MachineDeployment", TRUE, 3, None)>>
MCTemplate == <<Resource("Cluster", TRUE, None, None), Resource("MachineDeployment", FALSE, None, None)>>
MCContents ==
  {Nothing, Directory(FALSE, None, FALSE, m1 :> MCRaw),
   Directory(TRUE, None, FALSE, m1 :> MCRaw)}
MCExamples == <<d1>>

(* Either everything is to be done, or all is installed and a context      *)
(* registered, so that the commands meet in fewer steps.                   *)
MCInit ==
  /\ TemplateInit
  /\ reported = FALSE /\ partial = FALSE
  /\ \A r \in Repos, d \in Dirs : dir[r][d] \in {Nothing, Directory(FALSE, None, FALSE, m1 :> MCRaw)}
  /\ \/ argo = NoArgo /\ karlon = {} /\ capi = FALSE /\ file = Empty
     \/ /\ argo = AllOfArgo /\ karlon = PartNames /\ capi = TRUE
        /\ file = Config(r1, <<Context(r1, Default)>>)

MCSpec == MCInit /\ [][Next]_vars
====
