---------------------------- MODULE RepoContexts -----------------------------
(***************************************************************************)
(* The file of git repository contexts, ~/.kkarlon/repoctx, and the        *)
(* commands that write it, `karlon git register` and `git unregister`.     *)
(*                                                                         *)
(* A command opens the file, loads it, and at its end truncates it and     *)
(* writes it again through the same handle; nothing locks it.  Several     *)
(* commands of the user's may run at once, and any may end anywhere.  An   *)
(* empty file is an empty configuration, also one that another command has *)
(* truncated and not yet written.                                          *)
(***************************************************************************)
EXTENDS Naturals, Sequences, FiniteSets, TLC

CONSTANTS
  Users,        \* running commands, of the user of the file
  Repos,        \* URLs of git repositories
  Aliases,      \* names for them
  Default,      \* the alias "default"
  Garbage,      \* a file that cannot be parsed
  None,         \* no value
  MaxCommands   \* bound: commands ever started

ASSUME RepoContextsAssumption ==
  Default \in Aliases /\ None \notin Repos /\ MaxCommands \in Nat

VARIABLES
  cmd,      \* cmd[u]: the command that u runs
  started,  \* number of commands started
  file,     \* what the file holds: a configuration, or Garbage
  known,    \* the repositories ArgoCD knows
  contexts, \* history: the contexts registered and not unregistered
  suspect   \* history: two commands have had the file open to write it, or
            \* one was cut off between truncating and writing it

contextVars == <<cmd, started, file, known, contexts, suspect>>

Context(url, alias) == [url |-> url, alias |-> alias]
Config(default, repos) == [default |-> default, repos |-> repos]
Empty == Config(None, <<>>)
Configs == [default : Repos \union {None}, repos : Seq([url : Repos, alias : Aliases])]
ContextsOf(cfg) == {cfg.repos[i] : i \in DOMAIN cfg.repos}

ASSUME GarbageAssumption == Garbage \notin Configs

(* A command: pc is its next call.  cfg is the configuration it has loaded *)
(* or will store; linked says whether its handle is still on the file of   *)
(* that name.  at, with, files, seen, prep and current belong to the work  *)
(* on a clone (ClusterTemplates).  todo is what to do after this.          *)
Idle == [pc |-> "idle", op |-> None, alias |-> None, url |-> None, cfg |-> None,
         linked |-> FALSE, at |-> None, with |-> None, files |-> None, seen |-> None,
         prep |-> FALSE, current |-> FALSE, todo |-> <<>>]

Goto(u, c) == cmd' = [cmd EXCEPT ![u] = c]
End(u) == Goto(u, Idle)

(* The command ends well: what it was a part of goes on.                   *)
After(c) ==
  IF c.todo = <<>> THEN Idle
  ELSE [c EXCEPT !.pc = Head(c.todo).pc, !.at = Head(c.todo).at, !.url = Head(c.todo).url,
                 !.todo = Tail(c.todo), !.cfg = None, !.files = None, !.seen = None]

Issue(u, c) ==
  /\ cmd[u].pc = "idle" /\ started < MaxCommands
  /\ started' = started + 1
  /\ Goto(u, c)

Register(u) ==
  \E r \in Repos, a \in Aliases :
    /\ Issue(u, [Idle EXCEPT !.pc = "register", !.op = "register", !.url = r, !.alias = a])
    /\ UNCHANGED <<file, known, contexts, suspect>>

Unregister(u) ==
  \E a \in Aliases :
    /\ Issue(u, [Idle EXCEPT !.pc = "unregister", !.op = "unregister", !.alias = a])
    /\ UNCHANGED <<file, known, contexts, suspect>>

(*------------------------------- The file --------------------------------*)

AliasExists(cfg, a) == \E x \in ContextsOf(cfg) : x.alias = a

(* Where the first context of that alias is.                               *)
FirstOf(cfg, a) ==
  CHOOSE j \in DOMAIN cfg.repos :
    cfg.repos[j].alias = a /\ \A k \in 1..(j - 1) : cfg.repos[k].alias # a

OtherWriter(u) == \E v \in Users \ {u} : cmd[v].pc \in {"create repo", "truncate", "store"}

LoadToRegister(u) ==
  LET c == cmd[u]
  IN /\ c.pc = "register"
     /\ Goto(u, CASE file = Garbage -> Idle
                  [] file # Garbage /\ AliasExists(file, c.alias) -> After(c)
                  [] OTHER -> IF file.default # None /\ c.alias = Default THEN Idle
                              ELSE [c EXCEPT !.pc = "create repo", !.cfg = file, !.linked = TRUE])
     /\ suspect' = (suspect \/ OtherWriter(u))
     /\ UNCHANGED <<started, file, known, contexts>>

\* Mutant: the default survives its context.
WithoutKeepsDefault(cfg, a) ==
  LET i == FirstOf(cfg, a)
  IN Config(cfg.default, SubSeq(cfg.repos, 1, i - 1) \o SubSeq(cfg.repos, i + 1, Len(cfg.repos)))

\* Mutant: what follows the context goes with it.
WithoutRest(cfg, a) ==
  LET i == FirstOf(cfg, a)
  IN Config(IF a = Default THEN None ELSE cfg.default, SubSeq(cfg.repos, 1, i - 1))

(* The first context of that alias is taken out.                           *)
Without(cfg, a) ==
  LET i == FirstOf(cfg, a)
  IN Config(IF a = Default THEN None ELSE cfg.default,
            SubSeq(cfg.repos, 1, i - 1) \o SubSeq(cfg.repos, i + 1, Len(cfg.repos)))

LoadToUnregister(u) ==
  LET c == cmd[u]
  IN /\ c.pc = "unregister"
     /\ Goto(u, IF file # Garbage /\ AliasExists(file, c.alias)
                THEN [c EXCEPT !.pc = "truncate", !.cfg = Without(file, c.alias), !.linked = TRUE]
                ELSE Idle)
     /\ suspect' = (suspect \/ OtherWriter(u))
     /\ UNCHANGED <<started, file, known, contexts>>

With(cfg, r, a) ==
  Config(IF a = Default THEN r ELSE cfg.default, Append(cfg.repos, Context(r, a)))

\* Mutant: the context is recorded without asking ArgoCD.
CreateRepoNever(u) ==
  LET c == cmd[u]
  IN /\ c.pc = "create repo"
     /\ Goto(u, [c EXCEPT !.pc = "truncate", !.cfg = With(c.cfg, c.url, c.alias)])
     /\ UNCHANGED <<started, file, known, contexts, suspect>>

(* ArgoCD checks that it can reach the repository and takes it in; if not, *)
(* the program exits (Interrupt).                                          *)
CreateRepo(u) ==
  LET c == cmd[u]
  IN /\ c.pc = "create repo"
     /\ known' = known \union {c.url}
     /\ Goto(u, [c EXCEPT !.pc = "truncate", !.cfg = With(c.cfg, c.url, c.alias)])
     /\ UNCHANGED <<started, file, contexts, suspect>>

Truncate(u) ==
  LET c == cmd[u]
  IN /\ c.pc = "truncate"
     /\ file' = IF c.linked THEN Empty ELSE file
     /\ Goto(u, [c EXCEPT !.pc = "store"])
     /\ UNCHANGED <<started, known, contexts, suspect>>

(* Written from the start of the file: of what another command has put     *)
(* there since it was truncated, the tail remains if it was longer.        *)
Overwritten(cfg) == {cfg} \union IF file \in {Empty, cfg} THEN {} ELSE {Garbage}

Store(u) ==
  LET c == cmd[u]
      same == {x \in contexts : x.alias = c.alias}
  IN /\ c.pc = "store"
     /\ IF c.linked THEN file' \in Overwritten(c.cfg) ELSE UNCHANGED file
     /\ contexts' = IF c.op = "unregister" THEN contexts \ same
                    ELSE contexts \union {Context(c.url, c.alias)}
     /\ suspect' = (suspect \/ ~c.linked)
     /\ Goto(u, After(c))
     /\ UNCHANGED <<started, known>>

(* The URL that an alias stands for, None if there is none: the default is *)
(* taken without a look at the contexts.                                   *)
UrlOf(cfg, a) ==
  CASE cfg = Garbage -> None
    [] cfg # Garbage /\ a = Default -> cfg.default
    [] OTHER -> IF AliasExists(cfg, a)
                THEN cfg.repos[FirstOf(cfg, a)].url
                ELSE None

Interrupt(u) ==
  /\ cmd[u].pc # "idle"
  /\ suspect' = (suspect \/ cmd[u].pc = "store")
  /\ End(u)
  /\ UNCHANGED <<started, file, known, contexts>>

(* At first the file has at most one context.                              *)
ContextInit ==
  /\ file \in {Empty} \union {With(Empty, r, a) : r \in Repos, a \in Aliases}
  /\ cmd = [u \in Users |-> Idle]
  /\ started = 0
  /\ contexts = ContextsOf(file)
  /\ known = {x.url : x \in contexts}
  /\ suspect = FALSE

ContextStep(u) ==
  \/ Register(u) \/ LoadToRegister(u) \/ CreateRepo(u)
  \/ Unregister(u) \/ LoadToUnregister(u)
  \/ Truncate(u) \/ Store(u)

(*------------------------------ Properties -------------------------------*)

(* Whatever the commands do to each other's file, and wherever they are    *)
(* cut off, a file that can be read names no alias twice, and its default  *)
(* is the context called "default", or there is none of both.              *)
ContextsAgree ==
  file # Garbage =>
    /\ \A i, j \in DOMAIN file.repos : file.repos[i].alias = file.repos[j].alias => i = j
    /\ IF AliasExists(file, Default)
       THEN Context(file.default, Default) \in ContextsOf(file)
       ELSE file.default = None

(* Every context is of a repository that ArgoCD has taken in, so that the  *)
(* commands that use it find its credentials.                              *)
ContextsBacked == file # Garbage => \A x \in ContextsOf(file) : x.url \in known

(* When no two commands had the file open at once, and none was cut off    *)
(* between truncating and writing it, it holds just the contexts that were *)
(* registered and not unregistered, also after commands that failed.       *)
ContextsKept ==
  ~suspect /\ (\A u \in Users : cmd[u].pc # "store") =>
    file # Garbage /\ ContextsOf(file) = contexts
=============================================================================
