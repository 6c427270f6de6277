----------------------------- MODULE CommandLine -----------------------------
(***************************************************************************)
(* What the commands that write both to git and to an API server share.    *)
(* Several users run karlon commands at once.  A command is a sequence of  *)
(* calls; it works on the copies it has read and on a clone of the git     *)
(* branch, and any call may be its last: a crash, an interrupt or a failed *)
(* call ends it (Interrupt), and nothing is rolled back.                   *)
(*                                                                         *)
(* The branch is modelled by the content of its directories: each profile  *)
(* and each gen1 cluster has one.  Regenerating a directory removes it     *)
(* from the working tree and writes it again; the commit of a tree that is *)
(* no different is refused by git, and the push is refused when the branch *)
(* has moved since the clone.                                              *)
(***************************************************************************)
EXTENDS Naturals, FiniteSets

CONSTANTS
  Users,        \* those who run commands
  Directories,  \* names of the generated directories
  None,         \* no value
  MaxCommands   \* bound: commands ever started

ASSUME CommandsAssumption == MaxCommands \in Nat

VARIABLES
  cmd,      \* cmd[u]: the command that user u is running
  tree,     \* tree[d]: content of directory d at the branch's head, or None
  torn,     \* history: directories whose last push was not followed by the
            \* write to the API server that belongs to it
  started   \* number of commands started

cliVars == <<cmd, tree, torn, started>>

(* A command.  pc is its next call, op and name what it does to what, arg  *)
(* its arguments, prof the profile it has read, obj what it will write to  *)
(* the API server, files what it will push; fresh says whether the object  *)
(* it read still has the same resourceVersion, current whether the branch  *)
(* is still where it was when it was cloned.                               *)
Idle == [pc |-> "idle", op |-> None, name |-> None, arg |-> None, prof |-> None,
         obj |-> None, files |-> None, fresh |-> FALSE, current |-> FALSE]

Command(pc, op, name, arg) ==
  [Idle EXCEPT !.pc = pc, !.op = op, !.name = name, !.arg = arg]

At(u, pc) == cmd[u].pc = pc
Goto(u, c) == cmd' = [cmd EXCEPT ![u] = c]
End(u) == Goto(u, Idle)

CanStart(u) == At(u, "idle") /\ started < MaxCommands

Issue(u, c) ==
  /\ CanStart(u)
  /\ started' = started + 1
  /\ Goto(u, c)
  /\ UNCHANGED <<tree, torn>>

(* The object n gets a new resourceVersion, and u's command is over.       *)
Written(u, n) ==
  cmd' = [v \in Users |->
            IF v = u THEN Idle
            ELSE [cmd[v] EXCEPT !.fresh = @ /\ cmd[v].name # n]]

(* The repository is cloned, the directory regenerated and committed.      *)
Clone(u) ==
  /\ At(u, "clone")
  /\ IF tree[cmd[u].name] = cmd[u].files
     THEN End(u)
     ELSE Goto(u, [cmd[u] EXCEPT !.pc = "push", !.current = TRUE])
  /\ UNCHANGED <<tree, torn, started>>

\* Mutant: the error of a refused push is dropped.
PushRegardless(u) ==
  /\ At(u, "push")
  /\ IF cmd[u].current
     THEN /\ tree' = [tree EXCEPT ![cmd[u].name] = cmd[u].files]
          /\ cmd' = [v \in Users |->
                       IF v = u THEN [cmd[u] EXCEPT !.pc = "save", !.current = FALSE]
                       ELSE [cmd[v] EXCEPT !.current = FALSE]]
     ELSE Goto(u, [cmd[u] EXCEPT !.pc = "save"]) /\ UNCHANGED tree
  /\ UNCHANGED <<torn, started>>

Push(u) ==
  /\ At(u, "push")
  /\ IF cmd[u].current
     THEN /\ tree' = [tree EXCEPT ![cmd[u].name] = cmd[u].files]
          /\ cmd' = [v \in Users |->
                       IF v = u THEN [cmd[u] EXCEPT !.pc = "save", !.current = FALSE]
                       ELSE [cmd[v] EXCEPT !.current = FALSE]]
     ELSE End(u) /\ UNCHANGED tree
  /\ UNCHANGED <<torn, started>>

Pushed(u) == At(u, "save") /\ cmd[u].files # None
InPlace(u) == tree[cmd[u].name] = cmd[u].files

(* torn after u's command has written its object, or has ended without.    *)
Saved(u) ==
  CASE Pushed(u) /\ InPlace(u) -> torn \ {cmd[u].name}
    [] Pushed(u) /\ ~InPlace(u) -> torn \union {cmd[u].name}
    [] OTHER -> torn
Lost(u) == IF Pushed(u) /\ InPlace(u) THEN torn \union {cmd[u].name} ELSE torn

(* A failed call, a crash or an interrupt.                                 *)
Interrupt(u) ==
  /\ ~At(u, "idle")
  /\ torn' = Lost(u)
  /\ End(u)
  /\ UNCHANGED <<tree, started>>

CliInit ==
  /\ cmd = [u \in Users |-> Idle]
  /\ torn = {}
  /\ started = 0
=============================================================================
