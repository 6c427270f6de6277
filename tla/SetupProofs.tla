----------------------------- MODULE SetupProofs -----------------------------
(* The properties of Initialize and of what it is made of (RepoContexts,   *)
(* ClusterTemplates), for every set of users, repositories, directories    *)
(* and examples, and any number of commands.                               *)
EXTENDS Initialize, SequenceTheorems, FiniteSetTheorems, WellFoundedInduction, TLAPS

-----------------------------------------------------------------------------
(* The shape of the state *)

Tasks ==
  {t \in [pc : {"clear file", "register", "check", "add", "resolve", "report"},
          at : Dirs \union {None}, url : Repos] :
     t.pc \in {"add", "resolve"} => t.at \in Dirs}

(* The calls that init alone makes. *)
InitPcs ==
  {"argo?", "argo", "karlon?", "login", "install", "capi", "clear file", "check", "add", "report"}

(* What a command needs for its next call is there. *)
CommandOK(c) ==
  /\ DOMAIN c = DOMAIN Idle
  /\ c.todo \in Seq(Tasks)
  /\ c.url \in Repos \union {None} /\ c.alias \in Aliases \union {None}
  /\ c.pc # "idle" => c.alias \in Aliases
  /\ c.pc \in {"register", "create repo", "check", "add", "prepare", "write", "push"}
       => c.url \in Repos
  /\ c.pc \in {"add", "resolve", "prepare", "write"} => c.at \in Dirs
  /\ c.pc \in {"create repo", "truncate", "store"} => c.cfg \in Configs
  /\ c.pc = "push" => DOMAIN c.files \subseteq Dirs
  /\ c.pc = "argo" => c.at \in {Server, AllOfArgo}
  /\ c.pc = "install" => c.at \in 1..Len(Parts)
  /\ c.pc \in InitPcs \/ c.todo # <<>> => c.op = "init"
  /\ c.pc = "unregister" => c.op = "unregister"
  /\ c.op = "unregister" => c.pc \in {"idle", "unregister", "truncate", "store"}

FileOK == file = Garbage \/ file \in Configs

TreesOK ==
  /\ DOMAIN dir = Repos /\ \A r \in Repos : DOMAIN dir[r] = Dirs
  /\ ready \subseteq Repos \X Dirs

Shape ==
  /\ DOMAIN cmd = Users /\ \A u \in Users : CommandOK(cmd[u])
  /\ FileOK /\ known \subseteq Repos /\ TreesOK

-----------------------------------------------------------------------------
(* Files of contexts *)

(* A configuration that names an alias has a first context of that name. *)
LEMMA FirstContext ==
  ASSUME NEW cfg \in Configs, NEW a, AliasExists(cfg, a)
  PROVE  /\ FirstOf(cfg, a) \in 1..Len(cfg.repos)
         /\ cfg.repos[FirstOf(cfg, a)].alias = a
  <1> DEFINE T == {j \in 1..Len(cfg.repos) : cfg.repos[j].alias = a}
  <1>1. /\ cfg.repos \in Seq([url : Repos, alias : Aliases])
        /\ DOMAIN cfg.repos = 1..Len(cfg.repos) /\ Len(cfg.repos) \in Nat
    BY DEF Configs
  <1>2. T # {} /\ T \subseteq Nat
    BY <1>1 DEF AliasExists, ContextsOf
  <1> HIDE DEF T
  <1>3. PICK j \in T : \A k \in T : ~(<<k, j>> \in OpToRel(<, Nat))
    BY <1>2, WFMin, NatLessThanWellFounded
  <1>4. \A k \in T : ~(k < j)
    BY <1>2, <1>3 DEF OpToRel
  <1>5. ASSUME NEW k \in 1..(j - 1) PROVE cfg.repos[k].alias # a
    <2>1. j \in 1..Len(cfg.repos)
      BY DEF T
    <2>2. k \in 1..Len(cfg.repos) /\ k < j
      BY <1>1, <2>1
    <2>3. k \notin T
      BY <1>4, <2>2
    <2> QED
      BY <2>2, <2>3 DEF T
  <1>6. j \in DOMAIN cfg.repos /\ cfg.repos[j].alias = a
    BY <1>1, <1>3 DEF T
  <1>7. /\ FirstOf(cfg, a) \in DOMAIN cfg.repos
        /\ cfg.repos[FirstOf(cfg, a)].alias = a
    BY <1>5, <1>6, Zenon DEF FirstOf
  <1> QED
    BY <1>1, <1>7

(* A context added, and one taken out. *)
LEMMA WithConfig ==
  ASSUME NEW cfg \in Configs, NEW r \in Repos, NEW a \in Aliases
  PROVE  /\ With(cfg, r, a) \in Configs
         /\ ContextsOf(With(cfg, r, a)) = ContextsOf(cfg) \union {Context(r, a)}
  <1> DEFINE S == [url : Repos, alias : Aliases]
             s == Append(cfg.repos, Context(r, a))
  <1>1. cfg.repos \in Seq(S) /\ Context(r, a) \in S
    BY DEF Configs, Context
  <1> HIDE DEF S
  <1>2. /\ s \in Seq(S) /\ Len(s) = Len(cfg.repos) + 1
        /\ \A i \in 1..Len(cfg.repos) : s[i] = cfg.repos[i]
        /\ s[Len(cfg.repos) + 1] = Context(r, a)
    BY <1>1, AppendProperties
  <1>3. With(cfg, r, a) \in Configs /\ With(cfg, r, a).repos = s
    BY <1>2 DEF With, Config, Configs, S
  <1>4. DOMAIN s = 1..(Len(cfg.repos) + 1) /\ DOMAIN cfg.repos = 1..Len(cfg.repos)
        /\ Len(cfg.repos) \in Nat
    BY <1>1, <1>2
  <1> HIDE DEF s
  <1> QED
    BY <1>2, <1>3, <1>4 DEF ContextsOf

(* What is left keeps its order: what came after the context taken out     *)
(* moves up by one.                                                        *)
LEMMA WithoutConfig ==
  ASSUME NEW cfg \in Configs, NEW a, AliasExists(cfg, a)
  PROVE  /\ Without(cfg, a) \in Configs
         /\ Without(cfg, a).default = IF a = Default THEN None ELSE cfg.default
         /\ Len(Without(cfg, a).repos) = Len(cfg.repos) - 1
         /\ \A k \in 1..(Len(cfg.repos) - 1) :
              Without(cfg, a).repos[k] = cfg.repos[IF k < FirstOf(cfg, a) THEN k ELSE k + 1]
  <1> DEFINE S == [url : Repos, alias : Aliases]
             r == cfg.repos
             i == FirstOf(cfg, a)
             s == SubSeq(r, 1, i - 1)
             t == SubSeq(r, i + 1, Len(r))
  <1>1. r \in Seq(S) /\ i \in 1..Len(r)
    BY FirstContext DEF Configs
  <1> HIDE DEF i, r, S
  <1>2. Len(r) \in Nat /\ (\A k \in 1..Len(r) : r[k] \in S) /\ DOMAIN r = 1..Len(r)
    BY <1>1
  <1>3. /\ s \in Seq(S) /\ Len(s) = i - 1
        /\ \A k \in 1..(i - 1) : s[k] = r[k]
    <2>1. 1 \in Int /\ i - 1 \in Int /\ \A k \in 1..(i - 1) : r[k] \in S
      BY <1>1, <1>2
    <2> QED
      BY <1>1, <2>1, SubSeqProperties
  <1>4. /\ t \in Seq(S) /\ Len(t) = Len(r) - i
        /\ \A k \in 1..(Len(r) - i) : t[k] = r[i + k]
    <2>1. i + 1 \in Int /\ Len(r) \in Int /\ \A k \in (i + 1)..Len(r) : r[k] \in S
      BY <1>1, <1>2
    <2>2. /\ t \in Seq(S) /\ Len(t) = (IF i + 1 <= Len(r) THEN Len(r) - (i + 1) + 1 ELSE 0)
          /\ \A k \in 1..(Len(r) - (i + 1) + 1) : t[k] = r[i + 1 + k - 1]
      BY <2>1, SubSeqProperties
    <2> HIDE DEF t
    <2>3. \A n \in Nat : \A j \in 1..n :
            /\ (IF j + 1 <= n THEN n - (j + 1) + 1 ELSE 0) = n - j
            /\ n - (j + 1) + 1 = n - j
            /\ \A k \in 1..(n - j) : j + 1 + k - 1 = j + k
      OBVIOUS
    <2> QED
      BY <1>1, <1>2, <2>2, <2>3
  <1> HIDE DEF s, t
  <1> DEFINE q == s \o t
  <1>5. /\ q \in Seq(S) /\ Len(q) = Len(s) + Len(t)
        /\ \A k \in 1..(Len(s) + Len(t)) :
             q[k] = IF k <= Len(s) THEN s[k] ELSE t[k - Len(s)]
    BY <1>3, <1>4, ConcatProperties
  <1> HIDE DEF q
  <1>6. /\ Len(q) = Len(r) - 1
        /\ \A k \in 1..(Len(r) - 1) : q[k] = r[IF k < i THEN k ELSE k + 1]
    <2>1. Len(s) + Len(t) = Len(r) - 1 /\ Len(q) = Len(r) - 1
      BY <1>1, <1>2, <1>3, <1>4, <1>5
    <2> SUFFICES ASSUME NEW k \in 1..(Len(r) - 1)
                 PROVE  q[k] = r[IF k < i THEN k ELSE k + 1]
      BY <2>1
    <2>2. CASE k < i
      <3>1. k \in 1..(i - 1) /\ k <= Len(s)
        BY <1>1, <1>2, <1>3, <2>2
      <3>2. q[k] = s[k] /\ s[k] = r[k]
        BY <1>3, <1>5, <2>1, <3>1
      <3> QED
        BY <2>2, <3>2
    <2>3. CASE ~(k < i)
      <3>1. k - (i - 1) \in 1..(Len(r) - i) /\ i + (k - (i - 1)) = k + 1 /\ ~(k <= Len(s))
        BY <1>1, <1>2, <1>3, <2>3
      <3>2. q[k] = t[k - (i - 1)]
        BY <1>3, <1>5, <2>1, <3>1
      <3>3. t[k - (i - 1)] = r[k + 1]
        BY <1>4, <3>1
      <3> QED
        BY <2>3, <3>2, <3>3
    <2> QED
      BY <2>2, <2>3
  <1>7. Without(cfg, a).repos = q /\ Without(cfg, a).default = IF a = Default THEN None ELSE cfg.default
    BY DEF Without, Config, i, r, s, t, q
  <1>8. Without(cfg, a) \in Configs
    <2>1. Without(cfg, a) = [default |-> Without(cfg, a).default, repos |-> q]
      BY <1>7 DEF Without, Config
    <2>2. Without(cfg, a).default \in Repos \union {None}
      BY <1>7 DEF Configs
    <2> QED
      BY <1>5, <2>1, <2>2 DEF Configs, S
  <1> QED
    BY <1>6, <1>7, <1>8 DEF i, r

(* An alias stands for a repository. *)
LEMMA AliasOfRepo ==
  ASSUME FileOK, NEW a
  PROVE  UrlOf(file, a) \in Repos \union {None}
  <1>1. CASE file = Garbage
    BY <1>1 DEF UrlOf
  <1>2. CASE file # Garbage /\ file \in Configs /\ AliasExists(file, a)
    <2> DEFINE S == [url : Repos, alias : Aliases]
    <2>1. file.repos \in Seq(S) /\ FirstOf(file, a) \in 1..Len(file.repos)
      BY <1>2, FirstContext DEF Configs
    <2> HIDE DEF S
    <2>2. file.repos[FirstOf(file, a)] \in S
      BY <2>1
    <2> QED
      BY <1>2, <2>2 DEF UrlOf, Configs, S
  <1>3. CASE file # Garbage /\ file \in Configs /\ ~AliasExists(file, a)
    BY <1>3 DEF UrlOf, Configs
  <1> QED
    BY <1>1, <1>2, <1>3 DEF FileOK

-----------------------------------------------------------------------------
(* Commands *)

(* A command that has ended, *)
LEMMA IdleOK == CommandOK(Idle) /\ Idle.pc = "idle"
  <1>1. <<>> \in Seq(Tasks)
    OBVIOUS
  <1> QED
    BY <1>1 DEF CommandOK, Idle, InitPcs

(* one that begins, *)
LEMMA NewOK ==
  ASSUME NEW c, DOMAIN c = DOMAIN Idle, c.todo = <<>>, c.url \in Repos \union {None},
         c.alias \in Aliases,
         \/ c.pc = "register" /\ c.op = "register" /\ c.url \in Repos
         \/ c.pc = "unregister" /\ c.op = "unregister"
         \/ c.pc = "resolve" /\ c.op \in {"prepare", "create"} /\ c.at \in Dirs
  PROVE  /\ CommandOK(c) /\ c.op # "init"
         /\ c.pc \notin {"install", "create repo", "truncate", "store", "push"}
  <1>1. c.todo \in Seq(Tasks)
    OBVIOUS
  <1>2. c.pc \in {"register", "unregister", "resolve"}
    OBVIOUS
  <1>3. c.pc \notin InitPcs /\ c.pc \notin {"install", "create repo", "truncate", "store", "push"}
    BY <1>2 DEF InitPcs
  <1> QED
    BY <1>1, <1>2, <1>3 DEF CommandOK

(* and one that goes on with what it was a part of. *)
LEMMA AfterOK ==
  ASSUME NEW c, CommandOK(c), c.pc # "idle"
  PROVE  /\ CommandOK(After(c))
         /\ After(c).pc \in {"idle", "clear file", "register", "check", "add", "resolve", "report"}
         /\ After(c).pc # "idle" => After(c).op = c.op
  <1>1. CASE c.todo = <<>>
    BY <1>1, IdleOK DEF After
  <1>2. CASE c.todo # <<>>
    <2>1. Head(c.todo) \in Tasks /\ Tail(c.todo) \in Seq(Tasks)
      BY <1>2, HeadTailProperties DEF CommandOK
    <2>2. /\ DOMAIN After(c) = DOMAIN Idle /\ After(c).todo = Tail(c.todo)
          /\ After(c).pc = Head(c.todo).pc /\ After(c).at = Head(c.todo).at
          /\ After(c).url = Head(c.todo).url /\ After(c).alias = c.alias
          /\ After(c).op = c.op /\ c.op = "init"
      BY <1>2 DEF After, CommandOK, Idle
    <2>3. /\ After(c).pc \in {"clear file", "register", "check", "add", "resolve", "report"}
          /\ After(c).pc \in {"add", "resolve"} => After(c).at \in Dirs
          /\ After(c).url \in Repos
      BY <2>1, <2>2 DEF Tasks
    <2> HIDE DEF After
    <2> QED
      BY <2>1, <2>2, <2>3 DEF CommandOK, InitPcs
  <1> QED
    BY <1>1, <1>2

(* What an init has to do is a sequence of tasks. *)
LEMMA ToDoTasks ==
  ASSUME NEW r \in Repos, NEW examples \in BOOLEAN
  PROVE  ToDo(r, examples) \in Seq(Tasks)
  <1> DEFINE then(pc, d) == [pc |-> pc, at |-> d, url |-> r]
             first == <<then("clear file", None), then("register", None), then("check", None)>>
             each == [i \in 1..(2 * Len(Examples)) |->
                        then(IF i % 2 = 1 THEN "add" ELSE "resolve", Examples[(i + 1) \div 2])]
             last == <<then("report", None)>>
  <1>1. Len(Examples) \in Nat /\ \A j \in 1..Len(Examples) : Examples[j] \in Dirs
    BY InitializeAssumption
  <1>2. each \in Seq(Tasks)
    <2>1. ASSUME NEW i \in 1..(2 * Len(Examples)) PROVE each[i] \in Tasks
      <3>1. (i + 1) \div 2 \in 1..Len(Examples)
        BY <1>1
      <3> QED
        BY <1>1, <3>1 DEF Tasks
    <2>2. 2 * Len(Examples) \in Nat
      BY <1>1
    <2> HIDE DEF Tasks
    <2> QED
      BY <2>1, <2>2
  <1>3. first \in Seq(Tasks) /\ last \in Seq(Tasks) /\ <<>> \in Seq(Tasks)
    <2>1. /\ then("clear file", None) \in Tasks /\ then("register", None) \in Tasks
          /\ then("check", None) \in Tasks /\ then("report", None) \in Tasks
      BY DEF Tasks
    <2>2. \A S : \A a, b, c \in S : <<a, b, c>> \in Seq(S) /\ <<a>> \in Seq(S)
      OBVIOUS
    <2> HIDE DEF Tasks
    <2> QED
      BY <2>1, <2>2, EmptySeq
  <1>4. ToDo(r, examples) = (IF examples THEN first \o each ELSE <<>>) \o last
    BY DEF ToDo
  <1> HIDE DEF first, each, last
  <1> QED
    BY <1>2, <1>3, <1>4, ConcatProperties

(* u alone goes on, with c. *)
LEMMA GotoOnly ==
  ASSUME DOMAIN cmd = Users, NEW u \in Users, NEW c, Goto(u, c)
  PROVE  DOMAIN cmd' = Users /\ cmd'[u] = c /\ \A v \in Users \ {u} : cmd'[v] = cmd[v]
  BY DEF Goto

(* Most steps change no command but their own.                             *)
LEMMA StepKinds ==
  ASSUME NEW u \in Users, Step(u)
  PROVE  (\E c : Goto(u, c)) \/ ClearFile(u) \/ (Push(u) /\ cmd[u].current)
  BY DEF Step, ContextStep, TemplateStep, Register, LoadToRegister, CreateRepo, Unregister,
     LoadToUnregister, Truncate, Store, PrepareGit, CreateManifest, Resolve, Prepare, Write,
     Push, Initialize, LookForArgo, ApplyArgo, LookForKarlon, Login, Install, InstallCapi,
     Report, Check, Add, CutOff, Interrupt, Issue, End, To, Commit

Alike(c, d) ==
  /\ DOMAIN d = DOMAIN c
  /\ d.pc = c.pc /\ d.op = c.op /\ d.alias = c.alias /\ d.url = c.url /\ d.cfg = c.cfg
  /\ d.at = c.at /\ d.with = c.with /\ d.files = c.files /\ d.seen = c.seen
  /\ d.prep = c.prep /\ d.todo = c.todo

(* u's step leaves the others' commands as they are, but that their clone, *)
(* or their file, may be no longer the current one.                        *)
LEMMA OthersAlike ==
  ASSUME Shape, NEW u \in Users, Step(u)
  PROVE  DOMAIN cmd' = Users /\ \A v \in Users \ {u} : Alike(cmd[v], cmd'[v])
  <1>0. DOMAIN cmd = Users /\ \A v \in Users : DOMAIN cmd[v] = DOMAIN Idle
    BY DEF Shape, CommandOK
  <1>1. CASE \E c : Goto(u, c)
    BY <1>0, <1>1 DEF Goto, Alike
  <1>2. CASE ClearFile(u)
    BY <1>0, <1>2 DEF ClearFile, Alike, Idle
  <1>3. CASE Push(u) /\ cmd[u].current
    BY <1>0, <1>3 DEF Push, Stale, Alike, Idle
  <1> QED
    BY <1>1, <1>2, <1>3, StepKinds

(* How a command comes to the calls that the invariants are about. *)
Entry(u) ==
  /\ cmd'[u].pc = "install" => Login(u) \/ Install(u)
  /\ cmd'[u].pc \in {"create repo", "truncate", "store"}
       => LoadToRegister(u) \/ LoadToUnregister(u) \/ CreateRepo(u) \/ Truncate(u)
  /\ cmd'[u].pc = "push" => Prepare(u) \/ Write(u) \/ Check(u) \/ Add(u)
  /\ cmd'[u].op = "init" /\ cmd'[u].pc # "idle"
       => Initialize(u) \/ (cmd[u].op = "init" /\ cmd[u].pc # "idle")

Own(u) == CommandOK(cmd'[u]) /\ Entry(u)

(* u's command ends, or goes on with what it was a part of. *)
LEMMA EndsOwn ==
  ASSUME Shape, NEW u \in Users, cmd[u].pc # "idle",
         End(u) \/ Goto(u, After(cmd[u]))
  PROVE  Own(u)
  <1>1. CommandOK(cmd[u])
    BY DEF Shape
  <1>2. cmd'[u] = Idle \/ cmd'[u] = After(cmd[u])
    BY DEF Shape, End, Goto
  <1>3. CASE cmd'[u] = Idle
    BY <1>3, IdleOK DEF Own, Entry
  <1>4. CASE cmd'[u] = After(cmd[u])
    BY <1>1, <1>4, AfterOK DEF Own, Entry
  <1> QED
    BY <1>2, <1>3, <1>4

(* The commands on the file of contexts. *)
LEMMA ContextOwn ==
  ASSUME Shape, NEW u \in Users, ContextStep(u)
  PROVE  Own(u)
  <1> DEFINE c == cmd[u]
  <1>0. DOMAIN cmd = Users /\ CommandOK(c) /\ FileOK /\ <<>> \in Seq(Tasks)
    BY DEF Shape
  <1>1. CASE Register(u)
    <2>1. PICK r \in Repos, a \in Aliases :
            cmd'[u] = [Idle EXCEPT !.pc = "register", !.op = "register", !.url = r, !.alias = a]
      BY <1>0, <1>1 DEF Register, Issue, Goto
    <2> DEFINE new == cmd'[u]
    <2>2. /\ DOMAIN new = DOMAIN Idle /\ new.pc = "register" /\ new.op = "register" /\ new.alias = a
         /\ new.todo = <<>> /\ new.url = r
      BY <2>1 DEF Idle
    <2> HIDE DEF new
    <2>3. CommandOK(new) /\ new.op # "init" /\ new.pc \notin {"install", "create repo", "truncate", "store", "push"}
      BY <2>2, NewOK
    <2> QED
      BY <2>3 DEF Own, Entry, new
  <1>2. CASE LoadToRegister(u)
    <2>1. \/ cmd'[u] = Idle \/ cmd'[u] = After(c)
          \/ /\ file \in Configs
             /\ cmd'[u] = [c EXCEPT !.pc = "create repo", !.cfg = file, !.linked = TRUE]
      BY <1>0, <1>2 DEF LoadToRegister, Goto, FileOK
    <2>2. c.pc = "register"
      BY <1>2 DEF LoadToRegister
    <2>3. CASE cmd'[u] = Idle \/ cmd'[u] = After(c)
      BY <1>0, <2>2, <2>3, IdleOK, AfterOK DEF Own, Entry
    <2>4. CASE /\ file \in Configs
               /\ cmd'[u] = [c EXCEPT !.pc = "create repo", !.cfg = file, !.linked = TRUE]
      BY <1>0, <1>2, <2>2, <2>4 DEF Own, Entry, CommandOK, Idle, InitPcs
    <2> QED
      BY <2>1, <2>3, <2>4
  <1>3. CASE CreateRepo(u)
    <2> DEFINE w == With(c.cfg, c.url, c.alias)
    <2>1. c.pc = "create repo" /\ cmd'[u] = [c EXCEPT !.pc = "truncate", !.cfg = w]
      BY <1>0, <1>3 DEF CreateRepo, Goto
    <2>2. w \in Configs
      BY <1>0, <2>1, WithConfig DEF CommandOK
    <2> HIDE DEF w
    <2> QED
      BY <1>0, <1>3, <2>1, <2>2 DEF Own, Entry, CommandOK, Idle, InitPcs
  <1>4. CASE Unregister(u)
    <2>1. PICK a \in Aliases :
            cmd'[u] = [Idle EXCEPT !.pc = "unregister", !.op = "unregister", !.alias = a]
      BY <1>0, <1>4 DEF Unregister, Issue, Goto
    <2> DEFINE new == cmd'[u]
    <2>2. /\ DOMAIN new = DOMAIN Idle /\ new.pc = "unregister" /\ new.op = "unregister" /\ new.alias = a
         /\ new.todo = <<>> /\ new.url = None
      BY <2>1 DEF Idle
    <2> HIDE DEF new
    <2>3. CommandOK(new) /\ new.op # "init" /\ new.pc \notin {"install", "create repo", "truncate", "store", "push"}
      BY <2>2, NewOK
    <2> QED
      BY <2>3 DEF Own, Entry, new
  <1>5. CASE LoadToUnregister(u)
    <2> DEFINE w == Without(file, c.alias)
    <2>1. \/ cmd'[u] = Idle
          \/ /\ file \in Configs /\ AliasExists(file, c.alias)
             /\ cmd'[u] = [c EXCEPT !.pc = "truncate", !.cfg = w, !.linked = TRUE]
      BY <1>0, <1>5 DEF LoadToUnregister, Goto, FileOK
    <2>2. CASE cmd'[u] = Idle
      BY <2>2, IdleOK DEF Own, Entry
    <2>3. CASE /\ file \in Configs /\ AliasExists(file, c.alias)
               /\ cmd'[u] = [c EXCEPT !.pc = "truncate", !.cfg = w, !.linked = TRUE]
      <3>1. w \in Configs
        BY <2>3, WithoutConfig
      <3>2. c.pc = "unregister"
        BY <1>5 DEF LoadToUnregister
      <3> HIDE DEF w
      <3> QED
        BY <1>0, <1>5, <2>3, <3>1, <3>2 DEF Own, Entry, CommandOK, Idle, InitPcs
    <2> QED
      BY <2>1, <2>2, <2>3
  <1>6. CASE Truncate(u)
    <2>1. c.pc = "truncate" /\ cmd'[u] = [c EXCEPT !.pc = "store"]
      BY <1>0, <1>6 DEF Truncate, Goto
    <2> QED
      BY <1>0, <1>6, <2>1 DEF Own, Entry, CommandOK, Idle, InitPcs
  <1>7. CASE Store(u)
    BY <1>7, EndsOwn DEF Store
  <1> QED
    BY <1>1, <1>2, <1>3, <1>4, <1>5, <1>6, <1>7 DEF ContextStep

(* The commands on the cluster templates. *)
LEMMA TemplateOwn ==
  ASSUME Shape, NEW u \in Users, TemplateStep(u)
  PROVE  Own(u)
  <1> DEFINE c == cmd[u]
  <1>0. DOMAIN cmd = Users /\ CommandOK(c) /\ FileOK /\ <<>> \in Seq(Tasks)
    BY DEF Shape
  <1>1. CASE PrepareGit(u)
    <2>1. PICK a \in Aliases, d \in Dirs, b \in AllBounds :
            Issue(u, [Idle EXCEPT !.pc = "resolve", !.op = "prepare", !.alias = a, !.at = d, !.with = b])
      BY <1>1 DEF PrepareGit
    <2>2. cmd'[u] = [Idle EXCEPT !.pc = "resolve", !.op = "prepare", !.alias = a, !.at = d, !.with = b]
      BY <1>0, <2>1 DEF Issue, Goto
    <2> DEFINE new == cmd'[u]
    <2>3. /\ DOMAIN new = DOMAIN Idle /\ new.pc = "resolve" /\ new.op = "prepare" /\ new.alias = a
         /\ new.todo = <<>> /\ new.url = None /\ new.at = d
      BY <2>2 DEF Idle
    <2> HIDE DEF new
    <2>4. CommandOK(new) /\ new.op # "init" /\ new.pc \notin {"install", "create repo", "truncate", "store", "push"}
      BY <2>3, NewOK
    <2> QED
      BY <2>4 DEF Own, Entry, new
  <1>2. CASE CreateManifest(u)
    <2>1. PICK a \in Aliases, d \in Dirs :
            cmd'[u] = [Idle EXCEPT !.pc = "resolve", !.op = "create", !.alias = a, !.at = d]
      BY <1>0, <1>2 DEF CreateManifest, Issue, Goto
    <2> DEFINE new == cmd'[u]
    <2>2. /\ DOMAIN new = DOMAIN Idle /\ new.pc = "resolve" /\ new.op = "create" /\ new.alias = a
         /\ new.todo = <<>> /\ new.url = None /\ new.at = d
      BY <2>1 DEF Idle
    <2> HIDE DEF new
    <2>3. CommandOK(new) /\ new.op # "init" /\ new.pc \notin {"install", "create repo", "truncate", "store", "push"}
      BY <2>2, NewOK
    <2> QED
      BY <2>3 DEF Own, Entry, new
  <1>3. CASE Resolve(u)
    <2> DEFINE r == UrlOf(file, c.alias)
    <2>1. \/ cmd'[u] = Idle
          \/ /\ r # None
             /\ cmd'[u] = [c EXCEPT !.pc = IF c.op = "create" THEN "write" ELSE "prepare", !.url = r]
      BY <1>0, <1>3 DEF Resolve, Goto, End
    <2>2. r \in Repos \union {None} /\ c.pc = "resolve"
      BY <1>0, <1>3, AliasOfRepo DEF Resolve
    <2> HIDE DEF r
    <2>3. CASE cmd'[u] = Idle
      BY <2>3, IdleOK DEF Own, Entry
    <2>4. CASE r # None /\ cmd'[u] = [c EXCEPT !.pc = IF c.op = "create" THEN "write" ELSE "prepare",
                                               !.url = r]
      BY <1>0, <2>2, <2>4 DEF Own, Entry, CommandOK, Idle, InitPcs
    <2> QED
      BY <2>1, <2>3, <2>4
  <1>4. ASSUME NEW files, NEW prep, Commit(u, files, prep), DOMAIN files \subseteq Dirs,
               c.pc \in {"prepare", "write"}, c.url \in Repos, Prepare(u) \/ Write(u)
        PROVE  Own(u)
    <2>1. cmd'[u] = [c EXCEPT !.pc = "push", !.files = files, !.prep = prep, !.current = TRUE,
                              !.seen = [d \in DOMAIN files |-> dir[c.url][d]]]
      BY <1>0, <1>4 DEF Commit, Goto
    <2> QED
      BY <1>0, <1>4, <2>1 DEF Own, Entry, CommandOK, Idle, InitPcs
  <1>5. CASE Prepare(u)
    <2>1. c.pc = "prepare" /\ c.url \in Repos /\ c.at \in Dirs
      BY <1>0, <1>5 DEF Prepare, CommandOK
    <2>2. \/ End(u) \/ Goto(u, After(c))
          \/ Commit(u, Only(c.at, PreparedDir(dir[c.url][c.at], c.with)), TRUE)
      BY <1>5 DEF Prepare
    <2>3. DOMAIN Only(c.at, PreparedDir(dir[c.url][c.at], c.with)) \subseteq Dirs
      BY <2>1 DEF Only
    <2> QED
      BY <1>4, <1>5, <2>1, <2>2, <2>3, EndsOwn
  <1>6. CASE Write(u)
    <2>1. c.pc = "write" /\ c.url \in Repos /\ c.at \in Dirs
      BY <1>0, <1>6 DEF Write, CommandOK
    <2>2. End(u) \/ Commit(u, Only(c.at, Holding(dir[c.url][c.at], Generated, Manifest)), FALSE)
      BY <1>6 DEF Write
    <2>3. DOMAIN Only(c.at, Holding(dir[c.url][c.at], Generated, Manifest)) \subseteq Dirs
      BY <2>1 DEF Only
    <2> QED
      BY <1>4, <1>6, <2>1, <2>2, <2>3, EndsOwn
  <1>7. CASE Push(u)
    <2>1. c.pc = "push" /\ (cmd'[u] = Idle \/ cmd'[u] = After(c))
      BY <1>0, <1>7 DEF Push, End, Goto
    <2> QED
      BY <1>0, <2>1, IdleOK, AfterOK DEF Own, Entry
  <1> QED
    BY <1>1, <1>2, <1>3, <1>5, <1>6, <1>7 DEF TemplateStep

(* init: the installation. *)
LEMMA InstallOwn ==
  ASSUME Shape, NEW u \in Users,
         \/ Initialize(u) \/ LookForArgo(u) \/ ApplyArgo(u) \/ LookForKarlon(u) \/ Login(u)
         \/ Install(u) \/ InstallCapi(u) \/ Report(u)
  PROVE  Own(u)
  <1> DEFINE c == cmd[u]
  <1>0. DOMAIN cmd = Users /\ CommandOK(c)
    BY DEF Shape
  <1>1. CASE Initialize(u)
    <2> DEFINE new(r, examples) ==
                 [Idle EXCEPT !.pc = "argo?", !.op = "init", !.url = r, !.alias = Default,
                              !.with = DefaultBounds, !.todo = ToDo(r, examples)]
    <2>1. PICK r \in Repos, examples \in BOOLEAN : Issue(u, new(r, examples))
      BY <1>1 DEF Initialize
    <2>2. cmd'[u] = new(r, examples)
      BY <1>0, <2>1 DEF Issue, Goto
    <2>3. ToDo(r, examples) \in Seq(Tasks) /\ Default \in Aliases
      BY ToDoTasks, RepoContextsAssumption
    <2> HIDE DEF ToDo
    <2> QED
      BY <1>1, <2>2, <2>3 DEF Own, Entry, CommandOK, Idle, InitPcs
  <1>2. ASSUME NEW pc \in {"argo?", "argo", "karlon?", "login", "install", "capi"}, NEW n,
               To(u, pc, n), c.pc \in InitPcs,
               pc = "argo" => n \in {Server, AllOfArgo},
               pc = "install" => n \in 1..Len(Parts) /\ (Login(u) \/ Install(u))
        PROVE  Own(u)
    <2>1. cmd'[u] = [c EXCEPT !.pc = pc, !.at = n]
      BY <1>0, <1>2 DEF To, Goto
    <2> QED
      BY <1>0, <1>2, <2>1 DEF Own, Entry, CommandOK, Idle, InitPcs
  <1>3. CASE LookForArgo(u)
    <2>1. c.pc \in InitPcs /\ (To(u, "karlon?", None) \/ To(u, "argo", Server))
      BY <1>3 DEF LookForArgo, At, InitPcs
    <2> QED
      BY <1>2, <2>1
  <1>4. CASE ApplyArgo(u)
    <2>1. c.pc = "argo" /\ c.at \in {Server, AllOfArgo}
      BY <1>0, <1>4 DEF ApplyArgo, At, CommandOK
    <2>2. \/ To(u, "karlon?", None)
          \/ c.at # AllOfArgo /\ To(u, "argo", c.at + 1)
      BY <1>4 DEF ApplyArgo
    <2>3. c.at # AllOfArgo => c.at + 1 = AllOfArgo
      BY <2>1 DEF Server, AllOfArgo
    <2> QED
      BY <1>2, <2>1, <2>2, <2>3 DEF InitPcs
  <1>5. CASE LookForKarlon(u)
    <2>1. c.pc \in InitPcs /\ (To(u, "capi", None) \/ To(u, "login", None))
      BY <1>5 DEF LookForKarlon, At, InitPcs
    <2> QED
      BY <1>2, <2>1
  <1>6. CASE Login(u)
    <2>1. c.pc = "login" /\ (End(u) \/ To(u, "install", 1)) /\ 1 \in 1..Len(Parts)
      BY <1>6 DEF Login, At, Parts
    <2> QED
      BY <1>2, <1>6, <2>1, EndsOwn DEF InitPcs
  <1>7. CASE Install(u)
    <2>1. c.pc = "install" /\ c.at \in 1..Len(Parts) /\ Len(Parts) \in Nat
      BY <1>0, <1>7 DEF Install, At, CommandOK, Parts
    <2>2. \/ End(u) \/ To(u, "capi", None)
          \/ c.at < Len(Parts) /\ To(u, "install", c.at + 1)
      BY <1>7 DEF Install
    <2>3. c.at < Len(Parts) => c.at + 1 \in 1..Len(Parts)
      BY <2>1
    <2> QED
      BY <1>2, <1>7, <2>1, <2>2, <2>3, EndsOwn DEF InitPcs
  <1>8. CASE InstallCapi(u)
    BY <1>8, EndsOwn DEF InstallCapi, At
  <1>9. CASE Report(u)
    BY <1>9, EndsOwn DEF Report, At
  <1> QED
    BY <1>1, <1>3, <1>4, <1>5, <1>6, <1>7, <1>8, <1>9

(* init: the examples; and the end of a command that is cut off. *)
LEMMA ExampleOwn ==
  ASSUME Shape, NEW u \in Users, ClearFile(u) \/ Check(u) \/ Add(u) \/ CutOff(u)
  PROVE  Own(u)
  <1> DEFINE c == cmd[u]
  <1>0. DOMAIN cmd = Users /\ CommandOK(c)
    BY DEF Shape
  <1>1. CASE ClearFile(u)
    <2>1. c.pc # "idle" /\ cmd'[u] = After(c)
      BY <1>0, <1>1 DEF ClearFile, At
    <2> QED
      BY <1>0, <2>1, AfterOK DEF Own, Entry
  <1>2. ASSUME NEW files, Commit(u, files, FALSE), DOMAIN files \subseteq Dirs,
               c.pc \in {"check", "add"}, c.url \in Repos, Check(u) \/ Add(u)
        PROVE  Own(u)
    <2>1. cmd'[u] = [c EXCEPT !.pc = "push", !.files = files, !.prep = FALSE, !.current = TRUE,
                              !.seen = [d \in DOMAIN files |-> dir[c.url][d]]]
      BY <1>0, <1>2 DEF Commit, Goto
    <2> QED
      BY <1>0, <1>2, <2>1 DEF Own, Entry, CommandOK, Idle, InitPcs
  <1>3. CASE Check(u)
    <2> DEFINE found == {Examples[i] : i \in DOMAIN Examples}
                          \intersect {d \in Dirs : IsThere(dir[c.url][d])}
               files == [d \in found |-> Nothing]
    <2>1. c.pc = "check" /\ c.url \in Repos
      BY <1>0, <1>3 DEF Check, At, CommandOK
    <2>2. End(u) \/ Commit(u, files, FALSE)
      BY <1>3 DEF Check
    <2>3. DOMAIN files \subseteq Dirs
      OBVIOUS
    <2> QED
      BY <1>2, <1>3, <2>1, <2>2, <2>3, EndsOwn
  <1>4. CASE Add(u)
    <2> DEFINE new == Holding(dir[c.url][c.at], TemplateFile, Template)
    <2>1. c.pc = "add" /\ c.url \in Repos /\ c.at \in Dirs
      BY <1>0, <1>4 DEF Add, At, CommandOK
    <2>2. Goto(u, After(c)) \/ Commit(u, Only(c.at, new), FALSE)
      BY <1>4 DEF Add
    <2>3. DOMAIN Only(c.at, new) \subseteq Dirs
      BY <2>1 DEF Only
    <2> QED
      BY <1>2, <1>4, <2>1, <2>2, <2>3, EndsOwn
  <1>5. CASE CutOff(u)
    BY <1>5, EndsOwn DEF CutOff, Interrupt
  <1> QED
    BY <1>1, <1>3, <1>4, <1>5

(* Each step leaves its command with what its next call needs. *)
LEMMA OwnOK == ASSUME Shape, NEW u \in Users, Step(u) PROVE Own(u)
  BY ContextOwn, TemplateOwn, InstallOwn, ExampleOwn DEF Step

-----------------------------------------------------------------------------
(* The world: the file, ArgoCD's repositories, the branches *)

(* The empty file is a configuration without contexts. *)
LEMMA EmptyConfig == Empty \in Configs /\ ContextsOf(Empty) = {}
  <1>1. <<>> \in Seq([url : Repos, alias : Aliases])
    OBVIOUS
  <1> QED
    BY <1>1 DEF Empty, Config, Configs, ContextsOf

(* A step leaves the file alone, empties it or stores what u has prepared; *)
(* ArgoCD forgets no repository.                                           *)
LEMMA FileStep ==
  ASSUME NEW u \in Users, Step(u)
  PROVE  /\ \/ file' \in {file, Empty, Garbage}
            \/ cmd[u].pc = "store" /\ file' = cmd[u].cfg
         /\ known' = known \/ (CreateRepo(u) /\ known' = known \union {cmd[u].url})
  <1>1. CASE ContextStep(u)
    BY <1>1 DEF ContextStep, Register, LoadToRegister, CreateRepo, Unregister, LoadToUnregister,
       Truncate, Store, Overwritten
  <1>2. CASE TemplateStep(u)
    BY <1>2 DEF TemplateStep, PrepareGit, CreateManifest, Resolve, Prepare, Write, Push
  <1>3. CASE \/ Initialize(u) \/ LookForArgo(u) \/ ApplyArgo(u) \/ LookForKarlon(u) \/ Login(u)
             \/ Install(u) \/ InstallCapi(u) \/ Report(u)
             \/ ClearFile(u) \/ Check(u) \/ Add(u) \/ CutOff(u)
    BY <1>3 DEF Initialize, LookForArgo, ApplyArgo, LookForKarlon, Login, Install, InstallCapi,
       Report, ClearFile, Check, Add, CutOff, Interrupt, repoVars
  <1> QED
    BY <1>1, <1>2, <1>3 DEF Step

(* Only two steps touch the branches and what is known of them. *)
LEMMA TreeStep ==
  ASSUME NEW u \in Users, Step(u)
  PROVE  UNCHANGED gitVars \/ Prepare(u) \/ Push(u)
  <1>1. CASE ContextStep(u) /\ UNCHANGED <<gitVars, installVars>>
    BY <1>1
  <1>2. CASE TemplateStep(u)
    BY <1>2 DEF TemplateStep, PrepareGit, CreateManifest, Resolve, Write
  <1>3. CASE \/ Initialize(u) \/ LookForArgo(u) \/ ApplyArgo(u) \/ LookForKarlon(u) \/ Login(u)
             \/ Install(u) \/ InstallCapi(u) \/ Report(u)
             \/ ClearFile(u) \/ Check(u) \/ Add(u) \/ CutOff(u)
    BY <1>3 DEF Initialize, LookForArgo, ApplyArgo, LookForKarlon, Login, Install, InstallCapi,
       Report, ClearFile, Check, Add, CutOff, repoVars
  <1> QED
    BY <1>1, <1>2, <1>3 DEF Step

(* A push changes the directories it is about, and keeps the tree one.     *)
LEMMA PushedTrees ==
  ASSUME Shape, NEW u \in Users, Push(u), cmd[u].current,
         NEW r, r = cmd[u].url, NEW files, files = cmd[u].files
  PROVE  /\ r \in Repos /\ DOMAIN files \subseteq Dirs
         /\ DOMAIN dir' = Repos /\ \A q \in Repos : DOMAIN dir'[q] = Dirs
         /\ \A q \in Repos \ {r} : dir'[q] = dir[q]
         /\ \A d \in Dirs : dir'[r][d] = IF d \in DOMAIN files THEN files[d] ELSE dir[r][d]
  <1>1. r \in Repos /\ DOMAIN files \subseteq Dirs
    BY DEF Shape, CommandOK, Push
  <1>2. dir' = [dir EXCEPT ![r] = Changed(dir[r], files)]
    BY DEF Push
  <1>3. DOMAIN dir = Repos /\ \A q \in Repos : DOMAIN dir[q] = Dirs
    BY DEF Shape, TreesOK
  <1>4. dir'[r] = Changed(dir[r], files) /\ DOMAIN Changed(dir[r], files) = Dirs
    BY <1>1, <1>2, <1>3 DEF Changed
  <1>5. \A d \in Dirs : Changed(dir[r], files)[d] = IF d \in DOMAIN files THEN files[d] ELSE dir[r][d]
    BY <1>1, <1>3 DEF Changed
  <1> HIDE DEF Changed
  <1> QED
    BY <1>1, <1>2, <1>3, <1>4, <1>5

(* A commit of somebody else's is about one directory. *)
LEMMA EditedTrees ==
  ASSUME Shape, NEW r \in Repos, NEW d \in Dirs, Edit(r, d)
  PROVE  /\ DOMAIN dir' = Repos /\ \A q \in Repos : DOMAIN dir'[q] = Dirs
         /\ \A q \in Repos, e \in Dirs : <<q, e>> # <<r, d>> => dir'[q][e] = dir[q][e]
         /\ ready' = ready \ {<<r, d>>}
  <1>1. DOMAIN dir = Repos /\ \A q \in Repos : DOMAIN dir[q] = Dirs
    BY DEF Shape, TreesOK
  <1>2. PICK D : dir' = [dir EXCEPT ![r][d] = D]
    BY DEF Edit
  <1> QED
    BY <1>1, <1>2 DEF Edit

(* Everybody's commands are as they were, but for their clones. *)
LEMMA EditAlike ==
  ASSUME Shape, NEW r \in Repos, NEW d \in Dirs, Edit(r, d)
  PROVE  /\ DOMAIN cmd' = Users /\ \A v \in Users : Alike(cmd[v], cmd'[v])
         /\ UNCHANGED <<file, known>>
  BY DEF Edit, Stale, Alike, Shape, CommandOK, Idle

(* What a command needs does not depend on whether its clone is current. *)
LEMMA AlikeOK ==
  ASSUME NEW c, NEW d, CommandOK(c), Alike(c, d)
  PROVE  CommandOK(d)
  BY DEF CommandOK, Alike

(* Every step keeps the shape of the state, ... *)
LEMMA ShapeStep == Shape /\ [Next]_vars => Shape'
  <1> SUFFICES ASSUME Shape, [Next]_vars PROVE Shape'
    OBVIOUS
  <1>1. CASE UNCHANGED vars
    BY <1>1 DEF Shape, FileOK, TreesOK, CommandOK, vars, contextVars, gitVars
  <1>2. ASSUME NEW u \in Users, Step(u) PROVE Shape'
    <2>1. DOMAIN cmd' = Users /\ \A v \in Users : CommandOK(cmd'[v])
      BY <1>2, OthersAlike, OwnOK, AlikeOK DEF Own, Shape
    <2>2. FileOK'
      <3>1. cmd[u].pc = "store" => cmd[u].cfg \in Configs
        BY DEF Shape, CommandOK
      <3> QED
        BY <1>2, <3>1, FileStep, EmptyConfig DEF FileOK, Shape, Configs
    <2>3. known' \subseteq Repos
      <3>1. CreateRepo(u) => cmd[u].url \in Repos
        BY DEF Shape, CommandOK, CreateRepo
      <3> QED
        BY <1>2, <3>1, FileStep DEF Shape
    <2>4. TreesOK'
      <3>1. CASE UNCHANGED gitVars
        BY <3>1 DEF TreesOK, Shape, gitVars
      <3>2. CASE Prepare(u)
        <4>1. cmd[u].url \in Repos /\ cmd[u].at \in Dirs
          BY <3>2 DEF Prepare, Shape, CommandOK
        <4>2. UNCHANGED dir /\ ready' \subseteq ready \union {<<cmd[u].url, cmd[u].at>>}
          BY <3>2 DEF Prepare
        <4> QED
          BY <4>1, <4>2 DEF TreesOK, Shape
      <3>3. CASE Push(u) /\ ~cmd[u].current
        BY <3>3 DEF Push, TreesOK, Shape, gitVars
      <3>4. CASE Push(u) /\ cmd[u].current
        <4>1. ready' \subseteq ready \union ({cmd[u].url} \X DOMAIN cmd[u].files)
          BY <3>4 DEF Push, Touched
        <4> QED
          BY <3>4, <4>1, PushedTrees DEF TreesOK, Shape
      <3> QED
        BY <1>2, <3>1, <3>2, <3>3, <3>4, TreeStep
    <2> QED
      BY <2>1, <2>2, <2>3, <2>4 DEF Shape, CommandOK
  <1>3. ASSUME NEW r \in Repos, NEW d \in Dirs, Edit(r, d) PROVE Shape'
    <2>1. DOMAIN cmd' = Users /\ \A v \in Users : CommandOK(cmd'[v])
      BY <1>3, EditAlike, AlikeOK DEF Shape
    <2>2. FileOK' /\ known' \subseteq Repos
      BY <1>3, EditAlike DEF Shape, FileOK, Configs
    <2>3. TreesOK'
      BY <1>3, EditedTrees DEF TreesOK, Shape
    <2> QED
      BY <2>1, <2>2, <2>3 DEF Shape, CommandOK
  <1> QED
    BY <1>1, <1>2, <1>3 DEF Next

(* ... which it has at first. *)
LEMMA ShapeInit == Init => Shape
  <1> SUFFICES ASSUME Init PROVE Shape
    OBVIOUS
  <1>1. DOMAIN cmd = Users /\ \A u \in Users : CommandOK(cmd[u])
    BY IdleOK DEF Init, TemplateInit, ContextInit
  <1>2. FileOK
    BY EmptyConfig, WithConfig DEF Init, TemplateInit, ContextInit, FileOK
  <1>3. known \subseteq Repos
    <2>1. \A x \in ContextsOf(file) : x.url \in Repos
      BY EmptyConfig, WithConfig DEF Init, TemplateInit, ContextInit, Context
    <2> QED
      BY <2>1 DEF Init, TemplateInit, ContextInit
  <1>4. TreesOK
    BY DEF Init, TemplateInit, TreesOK
  <1> QED
    BY <1>1, <1>2, <1>3, <1>4 DEF Shape

-----------------------------------------------------------------------------
(* The installation: nothing before what comes before it *)

UpTo(n) == {Parts[i] : i \in 1..n}

InstallOK ==
  /\ argo \in NoArgo..AllOfArgo
  /\ \E n \in 0..Len(Parts) :
       /\ karlon = UpTo(n)
       /\ \A u \in Users : cmd[u].pc = "install" => cmd[u].at <= n + 1

(* An install goes on to the next part only when it has applied one: no    *)
(* step leaves a gap in what is installed, ...                             *)
LEMMA InstallStep == Shape /\ InstallOK /\ [Next]_vars => InstallOK'
  <1> SUFFICES ASSUME Shape, InstallOK, [Next]_vars PROVE InstallOK'
    OBVIOUS
  <1>1. CASE UNCHANGED vars
    BY <1>1 DEF InstallOK, vars, contextVars, installVars
  <1>2. PICK n \in 0..Len(Parts) :
          /\ karlon = UpTo(n)
          /\ \A u \in Users : cmd[u].pc = "install" => cmd[u].at <= n + 1
    BY DEF InstallOK
  <1>3. Len(Parts) = 5
    BY DEF Parts
  <1>4. ASSUME NEW u \in Users, Step(u) PROVE InstallOK'
    <2>1. \A v \in Users \ {u} : cmd'[v].pc = cmd[v].pc /\ cmd'[v].at = cmd[v].at
      BY <1>4, OthersAlike DEF Alike
    <2>2. argo' \in NoArgo..AllOfArgo /\ (karlon' = karlon \/ Install(u))
      <3>1. CASE \/ ContextStep(u) /\ UNCHANGED <<gitVars, installVars>>
                 \/ TemplateStep(u) /\ UNCHANGED installVars
        BY <3>1 DEF installVars, InstallOK
      <3>2. CASE ApplyArgo(u)
        <4>1. cmd[u].at \in {Server, AllOfArgo}
          BY <3>2 DEF ApplyArgo, At, Shape, CommandOK
        <4> QED
          BY <3>2, <4>1 DEF ApplyArgo, InstallOK, NoArgo, Server, AllOfArgo
      <3>3. CASE \/ Initialize(u) \/ LookForArgo(u) \/ LookForKarlon(u) \/ Login(u)
                 \/ Install(u) \/ InstallCapi(u) \/ Report(u)
                 \/ ClearFile(u) \/ Check(u) \/ Add(u) \/ CutOff(u)
        BY <3>3 DEF Initialize, LookForArgo, LookForKarlon, Login, Install, InstallCapi, Report,
           ClearFile, Check, Add, CutOff, installVars, InstallOK
      <3> QED
        BY <1>4, <3>1, <3>2, <3>3 DEF Step
    <2>3. CASE Install(u)
      <3> DEFINE k == cmd[u].at
                 m == IF k = n + 1 THEN n + 1 ELSE n
      <3>1. k \in 1..Len(Parts) /\ k <= n + 1 /\ karlon' = karlon \union {Parts[k]}
        BY <1>2, <2>3 DEF Install, At, Shape, CommandOK
      <3>2. cmd'[u].pc = "install" => cmd'[u].at = k + 1
        <4>1. CommandOK(cmd[u]) /\ DOMAIN cmd = Users
          BY DEF Shape
        <4>2. \/ cmd'[u] = Idle
              \/ cmd'[u] = [cmd[u] EXCEPT !.pc = "install", !.at = k + 1]
              \/ cmd'[u] = [cmd[u] EXCEPT !.pc = "capi", !.at = None]
          BY <2>3, <4>1 DEF Install, To, End, Goto
        <4> QED
          BY <4>1, <4>2, IdleOK DEF CommandOK, Idle
      <3> HIDE DEF k
      <3>3. m \in 0..Len(Parts) /\ n <= m /\ k + 1 <= m + 1
        BY <1>3, <3>1
      <3>4. karlon' = UpTo(m)
        <4>1. CASE k = n + 1
          <5>1. 1..m = 1..n \union {k}
            BY <1>3, <3>1, <4>1
          <5> QED
            BY <1>2, <3>1, <4>1, <5>1 DEF UpTo
        <4>2. CASE k # n + 1
          <5>1. k \in 1..n
            BY <1>3, <3>1, <4>2
          <5> QED
            BY <1>2, <3>1, <4>2, <5>1 DEF UpTo
        <4> QED
          BY <4>1, <4>2
      <3> HIDE DEF m
      <3>5. \A v \in Users : cmd'[v].pc = "install" => cmd'[v].at <= m + 1
        <4>1. ASSUME NEW v \in Users \ {u}, cmd'[v].pc = "install" PROVE cmd'[v].at <= m + 1
          <5>1. cmd[v].at \in 1..Len(Parts) /\ cmd[v].at <= n + 1
            BY <1>2, <2>1, <4>1 DEF Shape, CommandOK
          <5> QED
            BY <1>3, <2>1, <3>3, <4>1, <5>1
        <4> QED
          BY <3>2, <3>3, <4>1
      <3> QED
        BY <2>2, <3>3, <3>4, <3>5 DEF InstallOK, UpTo
    <2>4. CASE ~Install(u)
      <3>1. cmd'[u].pc = "install" => Login(u)
        BY <1>4, <2>4, OwnOK DEF Own, Entry
      <3>2. cmd'[u].pc = "install" => cmd'[u].at = 1
        <4>1. CommandOK(cmd[u]) /\ DOMAIN cmd = Users
          BY DEF Shape
        <4>2. Login(u) => cmd'[u] = Idle \/ cmd'[u] = [cmd[u] EXCEPT !.pc = "install", !.at = 1]
          BY <4>1 DEF Login, To, End, Goto
        <4> QED
          BY <3>1, <4>1, <4>2, IdleOK DEF CommandOK, Idle
      <3>3. \A v \in Users : cmd'[v].pc = "install" => cmd'[v].at <= n + 1
        BY <1>2, <1>3, <2>1, <3>2
      <3> QED
        BY <1>2, <2>2, <2>4, <3>3 DEF InstallOK, UpTo
    <2> QED
      BY <2>3, <2>4
  <1>5. ASSUME NEW r \in Repos, NEW d \in Dirs, Edit(r, d), UNCHANGED installVars PROVE InstallOK'
    <2>1. \A v \in Users : cmd'[v].pc = cmd[v].pc /\ cmd'[v].at = cmd[v].at
      BY <1>5, EditAlike DEF Alike
    <2> QED
      BY <1>2, <1>5, <2>1 DEF InstallOK, installVars, UpTo
  <1> QED
    BY <1>1, <1>4, <1>5 DEF Next

(* ... and there is none at first. *)
LEMMA InstallInitially == Init => InstallOK
  <1> SUFFICES ASSUME Init PROVE InstallOK
    OBVIOUS
  <1>1. UpTo(0) = {} /\ 0 \in 0..Len(Parts)
    BY DEF UpTo, Parts
  <1> QED
    BY <1>1, IdleOK DEF Init, TemplateInit, ContextInit, InstallInit, InstallOK, NoArgo, AllOfArgo

-----------------------------------------------------------------------------
(* The installation: what a success means *)

EarlyPcs == {"argo?", "argo", "karlon?", "login", "install", "capi"}

(* What an init has behind it has begun: ArgoCD's server is there, karlon's *)
(* namespace, and Cluster API.                                             *)
Stage(c, a, k, i) ==
  /\ c.pc \notin {"argo?", "argo"} \/ (c.pc = "argo" /\ c.at = AllOfArgo) => a >= Server
  /\ c.pc \notin {"argo?", "argo", "karlon?", "login"} /\ ~(c.pc = "install" /\ c.at = 1)
       => "namespace" \in k
  /\ c.pc \notin EarlyPcs => i

(* As long as no init was cut off or told to leave something out, what has *)
(* begun and is not done is being done by one that goes on.                *)
BusyOK ==
  /\ argo = Server => \E u \in Users : cmd[u].pc = "argo" /\ cmd[u].at = AllOfArgo
  /\ \A n \in 1..4 : karlon = UpTo(n) =>
       \E u \in Users : cmd[u].pc = "install" /\ cmd[u].at = n + 1

InstalledOK ==
  ~partial =>
    /\ \A u \in Users : cmd[u].op = "init" /\ cmd[u].pc # "idle" => Stage(cmd[u], argo, karlon, capi)
    /\ reported => argo >= Server /\ "namespace" \in karlon /\ capi
    /\ BusyOK

(* The prefixes of the order of installation are distinct. *)
LEMMA PrefixesDiffer ==
  ASSUME NEW m \in 0..5, NEW n \in 0..5, UpTo(m) = UpTo(n)
  PROVE  m = n
  <1>1. \A i, j \in 1..5 : Parts[i] = Parts[j] => i = j
    BY DEF Parts
  <1>2. ASSUME NEW i \in 0..5, NEW j \in 0..5, i < j, UpTo(i) = UpTo(j) PROVE FALSE
    <2>1. j \in 1..j /\ j \in 1..5
      BY <1>2
    <2>2. Parts[j] \in UpTo(i)
      BY <1>2, <2>1 DEF UpTo
    <2>3. PICK k \in 1..i : Parts[j] = Parts[k]
      BY <2>2 DEF UpTo
    <2>4. k \in 1..5 /\ k # j
      BY <1>2, <2>3
    <2> QED
      BY <1>1, <2>1, <2>3, <2>4
  <1> QED
    BY <1>2

(* How an init goes on that is installing. *)
LEMMA EarlyExit ==
  ASSUME NEW u \in Users, Step(u), cmd[u].pc \in EarlyPcs
  PROVE  \/ LookForArgo(u) \/ ApplyArgo(u) \/ LookForKarlon(u) \/ Login(u)
         \/ Install(u) \/ InstallCapi(u) \/ CutOff(u)
  BY DEF EarlyPcs, Step, ContextStep, TemplateStep, Register, LoadToRegister, CreateRepo,
     Unregister, LoadToUnregister, Truncate, Store, PrepareGit, CreateManifest, Resolve, Prepare,
     Write, Push, Initialize, Report, ClearFile, Check, Add, Issue, At

(* Which steps concern the installation. *)
LEMMA InstallQuiet ==
  ASSUME NEW u \in Users, Step(u)
  PROVE  \/ LookForArgo(u) \/ ApplyArgo(u) \/ LookForKarlon(u) \/ Login(u)
         \/ Install(u) \/ InstallCapi(u) \/ Report(u) \/ CutOff(u)
         \/ UNCHANGED installVars
  BY DEF Step, Initialize, ClearFile, Check, Add

(* What the others have behind them remains; so it is enough to look at    *)
(* the command that takes the step.                                        *)
LEMMA InstalledByOne ==
  ASSUME Shape, InstallOK, InstalledOK, NEW u \in Users, Step(u), ~partial,
         argo' \in {argo, Server, AllOfArgo}, argo' >= argo,
         karlon \subseteq karlon', capi => capi',
         cmd'[u].op = "init" /\ cmd'[u].pc # "idle" => Stage(cmd'[u], argo', karlon', capi'),
         reported' => argo' >= Server /\ "namespace" \in karlon' /\ capi',
         BusyOK'
  PROVE  InstalledOK'
  <1>1. ASSUME NEW v \in Users \ {u}, cmd'[v].op = "init" /\ cmd'[v].pc # "idle"
        PROVE  Stage(cmd'[v], argo', karlon', capi')
    <2>1. Alike(cmd[v], cmd'[v])
      BY OthersAlike
    <2>2. Stage(cmd[v], argo, karlon, capi)
      BY <1>1, <2>1 DEF InstalledOK, Alike
    <2>3. argo >= Server => argo' >= Server
      BY DEF InstallOK, NoArgo, Server, AllOfArgo
    <2> QED
      BY <2>1, <2>2, <2>3 DEF Stage, Alike
  <1>2. \A v \in Users : cmd'[v].op = "init" /\ cmd'[v].pc # "idle" =>
          Stage(cmd'[v], argo', karlon', capi')
    BY <1>1
  <1> QED
    BY <1>2 DEF InstalledOK

(* Who is busy is so still, if it is not u. *)
LEMMA OthersBusy ==
  ASSUME Shape, InstalledOK, ~partial, NEW u \in Users, Step(u)
  PROVE  /\ argo' = argo /\ (argo = Server => ~(cmd[u].pc = "argo" /\ cmd[u].at = AllOfArgo))
              => (argo' = Server =>
                    \E v \in Users : cmd'[v].pc = "argo" /\ cmd'[v].at = AllOfArgo)
         /\ karlon' = karlon => \A n \in 1..4 :
              karlon' = UpTo(n) /\ ~(cmd[u].pc = "install" /\ cmd[u].at = n + 1)
                => \E v \in Users : cmd'[v].pc = "install" /\ cmd'[v].at = n + 1
  <1>1. \A v \in Users \ {u} : cmd'[v].pc = cmd[v].pc /\ cmd'[v].at = cmd[v].at
    BY OthersAlike DEF Alike
  <1>2. BusyOK
    BY DEF InstalledOK
  <1> QED
    BY <1>1, <1>2 DEF BusyOK

(* Every step of an init that goes on, however many there are, keeps it;   *)
(* one that is cut off makes partial.                                      *)
LEMMA InstalledStep == Shape /\ InstallOK /\ InstalledOK /\ [Next]_vars => InstalledOK'
  <1> SUFFICES ASSUME Shape, InstallOK, InstalledOK, [Next]_vars PROVE InstalledOK'
    OBVIOUS
  <1>0. argo \in {0, 1, 2} /\ NoArgo = 0 /\ Server = 1 /\ AllOfArgo = 2
    BY DEF InstallOK, NoArgo, Server, AllOfArgo
  <1>1. CASE UNCHANGED vars
    BY <1>1 DEF InstalledOK, BusyOK, UpTo, Stage, vars, contextVars, installVars
  <1>2. ASSUME NEW r \in Repos, NEW d \in Dirs, Edit(r, d), UNCHANGED installVars PROVE InstalledOK'
    <2>1. \A v \in Users : /\ cmd'[v].pc = cmd[v].pc /\ cmd'[v].at = cmd[v].at
                           /\ cmd'[v].op = cmd[v].op
      BY <1>2, EditAlike DEF Alike
    <2> QED
      BY <1>2, <2>1 DEF InstalledOK, BusyOK, UpTo, Stage, installVars
  <1>3. ASSUME NEW u \in Users, Step(u), ~partial' PROVE InstalledOK'
    <2> DEFINE c == cmd[u]
    <2>0. DOMAIN cmd = Users /\ CommandOK(c) /\ DOMAIN c = DOMAIN Idle /\ Idle.pc = "idle"
      BY IdleOK DEF Shape, CommandOK
    <2>1. ~partial
      <3>1. partial => partial'
        BY <1>3, InstallQuiet DEF LookForArgo, ApplyArgo, LookForKarlon, Login, Install, InstallCapi,
           Report, CutOff, installVars
      <3> QED
        BY <1>3, <3>1
    <2>2. c.pc \in EarlyPcs \union {"report"} =>
            /\ Stage(c, argo, karlon, capi) /\ c.op = "init" /\ c.pc # "idle"
      BY <2>0, <2>1 DEF CommandOK, InitPcs, EarlyPcs, InstalledOK
    <2>3. reported => argo >= Server /\ "namespace" \in karlon /\ capi
      BY <2>1 DEF InstalledOK
    <2>4. ASSUME NEW p, NEW n, To(u, p, n)
          PROVE  cmd'[u].pc = p /\ cmd'[u].at = n /\ cmd'[u].op = c.op
      BY <2>0, <2>4 DEF To, Goto, Idle
    <2>5. CASE LookForArgo(u)
      <3>1. c.pc = "argo?" /\ UNCHANGED installVars
        BY <1>3, <2>1, <2>5 DEF LookForArgo, At, installVars
      <3>2. \/ argo >= Server /\ cmd'[u].pc = "karlon?"
            \/ cmd'[u].pc = "argo" /\ cmd'[u].at = Server
        BY <1>3, <2>1, <2>4, <2>5 DEF LookForArgo
      <3>3. Stage(cmd'[u], argo', karlon', capi')
        BY <1>0, <3>1, <3>2 DEF Stage, EarlyPcs, installVars
      <3>4. BusyOK'
        BY <1>3, <2>1, <3>1, OthersBusy DEF BusyOK, UpTo, installVars
      <3> QED
        BY <1>0, <1>3, <2>1, <2>3, <3>1, <3>3, <3>4, InstalledByOne DEF installVars
    <2>6. CASE ApplyArgo(u)
      <3>1. /\ c.pc = "argo" /\ c.at \in {1, 2} /\ UNCHANGED <<karlon, capi, reported>>
            /\ argo' = IF c.at > argo THEN c.at ELSE argo
        BY <1>0, <2>0, <2>6 DEF ApplyArgo, At, CommandOK
      <3>2. argo' \in {1, 2} /\ argo' >= argo /\ argo' >= Server
        BY <1>0, <3>1
      <3>3. \/ cmd'[u].pc = "karlon?" /\ c.at = 2
            \/ cmd'[u].pc = "argo" /\ cmd'[u].at = 2 /\ c.at = 1
        BY <1>0, <2>4, <2>6, <3>1 DEF ApplyArgo
      <3>4. Stage(cmd'[u], argo', karlon', capi')
        BY <1>0, <3>2, <3>3 DEF Stage, EarlyPcs
      <3>5. argo' = Server => \E v \in Users : cmd'[v].pc = "argo" /\ cmd'[v].at = AllOfArgo
        BY <1>0, <3>1, <3>3
      <3>6. BusyOK'
        BY <1>3, <2>1, <3>1, <3>5, OthersBusy DEF BusyOK, UpTo
      <3> QED
        BY <1>0, <1>3, <2>1, <2>3, <3>1, <3>2, <3>4, <3>6, InstalledByOne
    <2>7. CASE LookForKarlon(u)
      <3>1. c.pc = "karlon?" /\ UNCHANGED installVars
        BY <1>3, <2>1, <2>7 DEF LookForKarlon, At, installVars
      <3>2. \/ "namespace" \in karlon /\ cmd'[u].pc = "capi"
            \/ cmd'[u].pc = "login"
        BY <1>3, <2>1, <2>4, <2>7 DEF LookForKarlon
      <3>3. Stage(cmd'[u], argo', karlon', capi')
        BY <2>2, <3>1, <3>2 DEF Stage, EarlyPcs, installVars
      <3>4. BusyOK'
        BY <1>3, <2>1, <3>1, OthersBusy DEF BusyOK, UpTo, installVars
      <3> QED
        BY <1>0, <1>3, <2>1, <2>3, <3>1, <3>3, <3>4, InstalledByOne DEF installVars
    <2>8. CASE Login(u)
      <3>1. c.pc = "login" /\ UNCHANGED installVars /\ argo >= Server
        BY <2>2, <2>8 DEF Login, At, installVars, Stage, EarlyPcs
      <3>2. cmd'[u].pc = "install" /\ cmd'[u].at = 1
        BY <2>4, <2>8, <3>1 DEF Login
      <3>3. Stage(cmd'[u], argo', karlon', capi')
        BY <3>1, <3>2 DEF Stage, EarlyPcs, installVars
      <3>4. BusyOK'
        BY <1>3, <2>1, <3>1, OthersBusy DEF BusyOK, UpTo, installVars
      <3> QED
        BY <1>0, <1>3, <2>1, <2>3, <3>1, <3>3, <3>4, InstalledByOne DEF installVars
    <2>9. CASE Install(u)
      <3> DEFINE k == c.at
      <3>1. /\ c.pc = "install" /\ k \in 1..5 /\ karlon' = karlon \union {Parts[k]}
            /\ UNCHANGED <<argo, capi, reported>>
        BY <2>0, <2>9 DEF Install, At, CommandOK, Parts
      <3>2. PICK n \in 0..5 : karlon = UpTo(n) /\ k <= n + 1
        <4>1. Len(Parts) = 5
          BY DEF Parts
        <4> QED
          BY <3>1, <4>1 DEF InstallOK
      <3>3. \/ Parts[k] = "credentials" /\ Parts[k] \in karlon /\ cmd'[u] = Idle
            \/ /\ ~(Parts[k] = "credentials" /\ Parts[k] \in karlon)
               /\ \/ k < 5 /\ cmd'[u].pc = "install" /\ cmd'[u].at = k + 1
                  \/ k = 5 /\ cmd'[u].pc = "capi"
        <4>1. Len(Parts) = 5
          BY DEF Parts
        <4>2. End(u) => cmd'[u] = Idle
          BY <2>0 DEF End, Goto
        <4>3. \/ Parts[k] = "credentials" /\ Parts[k] \in karlon /\ End(u)
              \/ /\ ~(Parts[k] = "credentials" /\ Parts[k] \in karlon)
                 /\ \/ k < 5 /\ To(u, "install", k + 1)
                    \/ ~(k < 5) /\ To(u, "capi", None)
          BY <2>9, <4>1 DEF Install
        <4> QED
          BY <2>4, <3>1, <4>2, <4>3
      <3> HIDE DEF k
      <3>4. "namespace" \in karlon'
        <4>1. CASE k = 1
          BY <3>1, <4>1 DEF Parts
        <4>2. CASE k # 1
          BY <2>2, <3>1, <4>2 DEF Stage, EarlyPcs, k
        <4> QED
          BY <4>1, <4>2
      <3>5. argo >= Server
        BY <2>2, <3>1 DEF Stage, EarlyPcs
      <3>6. cmd'[u].pc # "idle" => Stage(cmd'[u], argo', karlon', capi')
        BY <2>0, <3>1, <3>3, <3>4, <3>5 DEF Stage, EarlyPcs
      <3>7. /\ argo' \in {argo, Server, AllOfArgo} /\ argo' >= argo
            /\ karlon \subseteq karlon' /\ (capi => capi')
            /\ reported' => argo' >= Server /\ "namespace" \in karlon' /\ capi'
        BY <1>0, <2>3, <3>1
      <3>8. CASE k = n + 1
        <4>1. karlon' = UpTo(k)
          <5>1. 1..k = 1..n \union {k}
            BY <3>1, <3>8
          <5> QED
            BY <3>1, <3>2, <5>1 DEF UpTo
        <4>2. ~(Parts[k] \in karlon)
          <5>1. ASSUME Parts[k] \in karlon PROVE FALSE
            <6>1. UpTo(k) = UpTo(n)
              BY <3>1, <3>2, <4>1, <5>1
            <6>2. k = n
              BY <3>1, <6>1, PrefixesDiffer
            <6> QED
              BY <3>8, <6>2
          <5> QED
            BY <5>1
        <4>3. ASSUME NEW m \in 1..4, karlon' = UpTo(m)
              PROVE  \E v \in Users : cmd'[v].pc = "install" /\ cmd'[v].at = m + 1
          <5>1. m \in 0..5 /\ k \in 0..5 /\ UpTo(m) = UpTo(k)
            BY <3>1, <4>1, <4>3
          <5>2. m = k
            BY <5>1, PrefixesDiffer
          <5> QED
            BY <3>3, <4>2, <5>2
        <4>4. BusyOK'
          BY <1>3, <2>1, <3>1, <4>3, OthersBusy DEF BusyOK, UpTo
        <4> QED
          BY <1>3, <2>1, <3>6, <3>7, <4>4, InstalledByOne
      <3>9. CASE k # n + 1
        <4>1. k \in 1..n
          BY <3>1, <3>2, <3>9
        <4>2. karlon' = karlon
          BY <3>1, <3>2, <4>1 DEF UpTo
        <4>3. ASSUME NEW m \in 1..4, karlon' = UpTo(m) PROVE c.at # m + 1
          <5>1. m \in 0..5 /\ UpTo(m) = UpTo(n)
            BY <3>2, <4>2, <4>3
          <5>2. m = n
            BY <5>1, PrefixesDiffer
          <5> QED
            BY <3>9, <5>2 DEF k
        <4>4. BusyOK'
          BY <1>3, <2>1, <3>1, <4>2, <4>3, OthersBusy DEF BusyOK, UpTo
        <4> QED
          BY <1>3, <2>1, <3>6, <3>7, <4>4, InstalledByOne
      <3> QED
        BY <3>8, <3>9
    <2>10. CASE InstallCapi(u)
      <3>1. c.pc = "capi" /\ UNCHANGED <<argo, karlon, reported>> /\ capi' = TRUE
        BY <2>10 DEF InstallCapi, At
      <3>2. argo >= Server /\ "namespace" \in karlon
        BY <2>2, <3>1 DEF Stage, EarlyPcs
      <3>3. cmd'[u].pc \notin EarlyPcs
        <4>1. cmd'[u] = Idle \/ cmd'[u] = After(c)
          BY <2>0, <2>10 DEF InstallCapi, End, Goto
        <4> QED
          BY <2>0, <3>1, <4>1, AfterOK DEF EarlyPcs
      <3>4. Stage(cmd'[u], argo', karlon', capi')
        BY <3>1, <3>2 DEF Stage
      <3>5. BusyOK'
        BY <1>3, <2>1, <3>1, OthersBusy DEF BusyOK, UpTo
      <3>6. /\ argo' \in {argo, Server, AllOfArgo} /\ argo' >= argo
            /\ karlon \subseteq karlon' /\ (capi => capi')
            /\ reported' => argo' >= Server /\ "namespace" \in karlon' /\ capi'
        BY <1>0, <2>3, <3>1
      <3> QED
        BY <1>3, <2>1, <3>4, <3>5, <3>6, InstalledByOne
    <2>11. CASE Report(u)
      <3>1. c.pc = "report" /\ UNCHANGED <<argo, karlon, capi>> /\ cmd'[u] = Idle
        BY <2>0, <2>11 DEF Report, At, End, Goto
      <3>2. argo >= Server /\ "namespace" \in karlon /\ capi
        BY <2>2, <3>1 DEF Stage, EarlyPcs
      <3>3. BusyOK'
        BY <1>3, <2>1, <3>1, OthersBusy DEF BusyOK, UpTo
      <3>4. /\ argo' \in {argo, Server, AllOfArgo} /\ argo' >= argo
            /\ karlon \subseteq karlon' /\ (capi => capi')
            /\ reported' => argo' >= Server /\ "namespace" \in karlon' /\ capi'
        BY <1>0, <3>1, <3>2
      <3> QED
        BY <1>3, <2>0, <2>1, <3>1, <3>3, <3>4, InstalledByOne
    <2>12. CASE CutOff(u)
      <3>1. c.op # "init" /\ UNCHANGED <<argo, karlon, capi, reported>> /\ cmd'[u] = Idle
        BY <1>3, <2>0, <2>12 DEF CutOff, Interrupt, End, Goto
      <3>2. c.pc \notin EarlyPcs
        BY <2>2, <3>1
      <3>3. BusyOK'
        BY <1>3, <2>1, <3>1, <3>2, OthersBusy DEF BusyOK, UpTo, EarlyPcs
      <3> QED
        BY <1>0, <1>3, <2>0, <2>1, <2>3, <3>1, <3>3, InstalledByOne
    <2>13. CASE /\ UNCHANGED installVars
                /\ ~(\/ LookForArgo(u) \/ ApplyArgo(u) \/ LookForKarlon(u) \/ Login(u)
                     \/ Install(u) \/ InstallCapi(u) \/ CutOff(u))
      <3>1. c.pc \notin EarlyPcs
        BY <1>3, <2>13, EarlyExit
      <3>2. ASSUME cmd'[u].op = "init", cmd'[u].pc # "idle"
            PROVE  Stage(cmd'[u], argo', karlon', capi')
        <4>1. Initialize(u) \/ (c.op = "init" /\ c.pc # "idle")
          BY <1>3, <3>2, OwnOK DEF Own, Entry
        <4>2. CASE Initialize(u)
          <5>1. cmd'[u].pc = "argo?"
            BY <2>0, <4>2 DEF Initialize, Issue, Goto, Idle
          <5> QED
            BY <5>1 DEF Stage, EarlyPcs
        <4>3. CASE c.op = "init" /\ c.pc # "idle"
          <5>1. Stage(c, argo, karlon, capi)
            BY <2>1, <4>3 DEF InstalledOK
          <5>2. argo >= Server /\ "namespace" \in karlon /\ capi
            BY <3>1, <5>1 DEF Stage, EarlyPcs
          <5> QED
            BY <2>13, <5>2 DEF Stage, installVars
        <4> QED
          BY <4>1, <4>2, <4>3
      <3>3. BusyOK'
        BY <1>3, <2>1, <2>13, <3>1, OthersBusy DEF BusyOK, UpTo, EarlyPcs, installVars
      <3> QED
        BY <1>0, <1>3, <2>1, <2>3, <2>13, <3>2, <3>3, InstalledByOne DEF installVars
    <2> QED
      BY <1>3, <2>5, <2>6, <2>7, <2>8, <2>9, <2>10, <2>11, <2>12, <2>13, InstallQuiet
  <1>4. partial' => InstalledOK'
    BY DEF InstalledOK
  <1> QED
    BY <1>1, <1>2, <1>3, <1>4 DEF Next

(* At first nothing is installed, and nobody at it. *)
LEMMA InstalledInitially == Init => InstalledOK
  <1> SUFFICES ASSUME Init PROVE InstalledOK
    OBVIOUS
  <1>1. \A n \in 1..4 : UpTo(n) # {}
    BY DEF UpTo
  <1>2. argo # Server /\ karlon = {} /\ ~reported
    BY DEF Init, InstallInit, NoArgo, Server
  <1>3. \A u \in Users : cmd[u].pc = "idle"
    BY IdleOK DEF Init, TemplateInit, ContextInit
  <1> QED
    BY <1>1, <1>2, <1>3 DEF InstalledOK, BusyOK

-----------------------------------------------------------------------------
(* Contexts: consistent, and backed *)

Agrees(cfg) ==
  /\ \A i, j \in DOMAIN cfg.repos : cfg.repos[i].alias = cfg.repos[j].alias => i = j
  /\ IF AliasExists(cfg, Default)
     THEN Context(cfg.default, Default) \in ContextsOf(cfg)
     ELSE cfg.default = None

Good(cfg, repos) == Agrees(cfg) /\ \A x \in ContextsOf(cfg) : x.url \in repos

FilePcs == {"create repo", "truncate", "store"}

(* What is in the file, or will be, is consistent, and of repositories     *)
(* that ArgoCD knows.                                                      *)
ContextsOK ==
  /\ file # Garbage => Good(file, known)
  /\ \A u \in Users :
       /\ cmd[u].pc \in FilePcs => Good(cmd[u].cfg, known)
       /\ cmd[u].pc = "create repo" => ~AliasExists(cmd[u].cfg, cmd[u].alias)

(* A file that was truncated is consistent. *)
LEMMA EmptyAgrees == Agrees(Empty)
  BY DEF Agrees, Empty, Config, AliasExists, ContextsOf

(* A context under a new alias keeps the contexts consistent, ... *)
LEMMA WithAgrees ==
  ASSUME NEW cfg \in Configs, Agrees(cfg), NEW r \in Repos, NEW a \in Aliases, ~AliasExists(cfg, a)
  PROVE  Agrees(With(cfg, r, a))
  <1> DEFINE w == With(cfg, r, a)
             n == Len(cfg.repos)
  <1>1. /\ w \in Configs /\ ContextsOf(w) = ContextsOf(cfg) \union {Context(r, a)}
        /\ w.default = IF a = Default THEN r ELSE cfg.default
    BY WithConfig DEF With, Config
  <1>2. /\ n \in Nat /\ DOMAIN cfg.repos = 1..n /\ DOMAIN w.repos = 1..(n + 1)
        /\ \A k \in 1..n : w.repos[k] = cfg.repos[k]
        /\ w.repos[n + 1] = Context(r, a)
    <2> DEFINE S == [url : Repos, alias : Aliases]
    <2>1. cfg.repos \in Seq(S) /\ Context(r, a) \in S /\ w.repos = Append(cfg.repos, Context(r, a))
      BY DEF Configs, Context, With, Config
    <2> HIDE DEF S, w
    <2>2. w.repos \in Seq(S) /\ Len(w.repos) = n + 1 /\ n \in Nat
          /\ (\A k \in 1..n : w.repos[k] = cfg.repos[k]) /\ w.repos[n + 1] = Context(r, a)
      BY <2>1, AppendProperties
    <2> QED
      BY <2>1, <2>2
  <1> HIDE DEF w, n
  <1>3. \A k \in 1..n : cfg.repos[k].alias # a
    BY <1>2 DEF AliasExists, ContextsOf
  <1>4. \A i, j \in DOMAIN w.repos : w.repos[i].alias = w.repos[j].alias => i = j
    <2>1. Context(r, a).alias = a
      BY DEF Context
    <2>2. \A k \in 1..(n + 1) : k \in 1..n \/ k = n + 1
      BY <1>2
    <2>3. \A i, j \in 1..n : cfg.repos[i].alias = cfg.repos[j].alias => i = j
      BY <1>2 DEF Agrees
    <2> QED
      BY <1>2, <1>3, <2>1, <2>2, <2>3
  <1>5. CASE a = Default
    <2>1. Context(w.default, Default) \in ContextsOf(w)
      BY <1>1, <1>5
    <2>2. Context(w.default, Default).alias = Default
      BY DEF Context
    <2>3. AliasExists(w, Default)
      BY <2>1, <2>2 DEF AliasExists
    <2> QED
      BY <1>4, <2>1, <2>3 DEF Agrees, w
  <1>6. CASE a # Default
    <2>1. AliasExists(w, Default) <=> AliasExists(cfg, Default)
      BY <1>1, <1>6 DEF AliasExists, Context
    <2>2. IF AliasExists(w, Default) THEN Context(w.default, Default) \in ContextsOf(w)
          ELSE w.default = None
      BY <1>1, <1>6, <2>1 DEF Agrees
    <2> QED
      BY <1>4, <2>2 DEF Agrees, w
  <1> QED
    BY <1>5, <1>6

(* ... and so does taking one out. *)
LEMMA WithoutAgrees ==
  ASSUME NEW cfg \in Configs, Agrees(cfg), NEW a, AliasExists(cfg, a)
  PROVE  /\ Agrees(Without(cfg, a))
         /\ ContextsOf(Without(cfg, a)) = {x \in ContextsOf(cfg) : x.alias # a}
  <1> DEFINE w == Without(cfg, a)
             n == Len(cfg.repos)
             f == FirstOf(cfg, a)
             g(k) == IF k < f THEN k ELSE k + 1
  <1>1. f \in 1..n /\ cfg.repos[f].alias = a
    BY FirstContext
  <1>2. n \in Nat /\ DOMAIN cfg.repos = 1..n
    BY DEF Configs
  <1>3. /\ w \in Configs /\ w.default = IF a = Default THEN None ELSE cfg.default
        /\ Len(w.repos) = n - 1
        /\ \A k \in 1..(n - 1) : w.repos[k] = cfg.repos[g(k)]
    BY WithoutConfig
  <1>4. DOMAIN w.repos = 1..(n - 1)
    <2>1. w.repos \in Seq([url : Repos, alias : Aliases])
      BY <1>3 DEF Configs
    <2> QED
      BY <1>3, <2>1
  <1> HIDE DEF w, n, f
  <1>5. \A k \in 1..(n - 1) : g(k) \in 1..n /\ g(k) # f
    BY <1>1, <1>2
  <1>6. \A j \in 1..n : j # f => \E k \in 1..(n - 1) : g(k) = j
    <2> SUFFICES ASSUME NEW j \in 1..n, j # f PROVE \E k \in 1..(n - 1) : g(k) = j
      OBVIOUS
    <2>1. CASE j < f
      <3>1. j \in 1..(n - 1) /\ g(j) = j
        BY <1>1, <1>2, <2>1
      <3> QED
        BY <3>1
    <2>2. CASE j > f
      <3>1. j - 1 \in 1..(n - 1) /\ g(j - 1) = j
        BY <1>1, <1>2, <2>2
      <3> QED
        BY <3>1
    <2> QED
      BY <1>1, <1>2, <2>1, <2>2
  <1>7. \A i, j \in 1..(n - 1) : g(i) = g(j) => i = j
    BY <1>1, <1>2
  <1> HIDE DEF g
  <1>8. \A i, j \in 1..n : cfg.repos[i].alias = cfg.repos[j].alias => i = j
    BY <1>2 DEF Agrees
  <1>9. \A i, j \in DOMAIN w.repos : w.repos[i].alias = w.repos[j].alias => i = j
    BY <1>3, <1>4, <1>5, <1>7, <1>8
  <1>10. ContextsOf(w) = {x \in ContextsOf(cfg) : x.alias # a}
    <2>1. ASSUME NEW x \in ContextsOf(w) PROVE x \in ContextsOf(cfg) /\ x.alias # a
      <3>1. PICK k \in 1..(n - 1) : x = cfg.repos[g(k)]
        BY <1>3, <1>4 DEF ContextsOf
      <3> QED
        BY <1>1, <1>2, <1>5, <1>8, <3>1 DEF ContextsOf
    <2>2. ASSUME NEW x \in ContextsOf(cfg), x.alias # a PROVE x \in ContextsOf(w)
      <3>1. PICK j \in 1..n : x = cfg.repos[j]
        BY <1>2 DEF ContextsOf
      <3>2. j # f
        BY <1>1, <2>2, <3>1
      <3>3. PICK k \in 1..(n - 1) : g(k) = j
        BY <1>6, <3>2
      <3> QED
        BY <1>3, <1>4, <3>1, <3>3 DEF ContextsOf
    <2> QED
      BY <2>1, <2>2
  <1>11. IF AliasExists(w, Default) THEN Context(w.default, Default) \in ContextsOf(w)
         ELSE w.default = None
    <2>1. AliasExists(w, Default) <=> a # Default /\ AliasExists(cfg, Default)
      BY <1>10 DEF AliasExists
    <2>2. Context(cfg.default, Default).alias = Default
      BY DEF Context
    <2> QED
      BY <1>3, <1>10, <2>1, <2>2 DEF Agrees
  <1> QED
    BY <1>9, <1>10, <1>11 DEF Agrees, w

(* Every step keeps the file, and what commands will write to it, good: a  *)
(* command stores what it loaded with its own change, whatever the others  *)
(* have done to the file since.                                            *)
LEMMA ContextsStep == Shape /\ ContextsOK /\ [Next]_vars => ContextsOK'
  <1> SUFFICES ASSUME Shape, ContextsOK, [Next]_vars PROVE ContextsOK'
    OBVIOUS
  <1>1. CASE UNCHANGED vars
    BY <1>1 DEF ContextsOK, Good, vars, contextVars
  <1>2. ASSUME NEW u \in Users, Step(u) PROVE ContextsOK'
    <2> DEFINE c == cmd[u]
    <2>1. known \subseteq known' /\ \A x : Good(x, known) => Good(x, known')
      BY <1>2, FileStep DEF Good
    <2>2. ASSUME NEW v \in Users \ {u}
          PROVE  /\ cmd'[v].pc \in FilePcs => Good(cmd'[v].cfg, known')
                 /\ cmd'[v].pc = "create repo" => ~AliasExists(cmd'[v].cfg, cmd'[v].alias)
      <3>1. cmd'[v].pc = cmd[v].pc /\ cmd'[v].cfg = cmd[v].cfg /\ cmd'[v].alias = cmd[v].alias
        BY <1>2, OthersAlike DEF Alike
      <3>2. /\ cmd[v].pc \in FilePcs => Good(cmd[v].cfg, known)
            /\ cmd[v].pc = "create repo" => ~AliasExists(cmd[v].cfg, cmd[v].alias)
        BY DEF ContextsOK
      <3> QED
        BY <2>1, <3>1, <3>2 DEF Good
    <2>3. file' # Garbage => Good(file', known')
      <3>1. Good(Empty, known)
        BY EmptyAgrees, EmptyConfig DEF Good
      <3>2. c.pc = "store" => Good(c.cfg, known)
        BY DEF ContextsOK, FilePcs
      <3>3. file # Garbage => Good(file, known)
        BY DEF ContextsOK
      <3>4. \/ file' = file \/ file' = Empty \/ file' = Garbage
            \/ (c.pc = "store" /\ file' = c.cfg)
        BY <1>2, FileStep
      <3> QED
        BY <2>1, <3>1, <3>2, <3>3, <3>4 DEF Good
    <2>4. /\ cmd'[u].pc \in FilePcs => Good(cmd'[u].cfg, known')
          /\ cmd'[u].pc = "create repo" => ~AliasExists(cmd'[u].cfg, cmd'[u].alias)
      <3>0. DOMAIN cmd = Users /\ CommandOK(c) /\ FileOK
        BY DEF Shape
      <3>1. CASE cmd'[u].pc \notin FilePcs
        BY <3>1 DEF FilePcs
      <3>2. CASE LoadToRegister(u) /\ cmd'[u].pc \in FilePcs
        <4>1. /\ file # Garbage /\ ~AliasExists(file, c.alias)
              /\ cmd'[u] = [c EXCEPT !.pc = "create repo", !.cfg = file, !.linked = TRUE]
          <5>1. c.pc # "idle"
            BY <3>2 DEF LoadToRegister
          <5>2. Idle.pc \notin FilePcs /\ After(c).pc \notin FilePcs
            BY <3>0, <5>1, IdleOK, AfterOK DEF FilePcs
          <5> QED
            BY <3>0, <3>2, <5>2 DEF LoadToRegister, Goto
        <4>2. cmd'[u].cfg = file /\ cmd'[u].alias = c.alias
          BY <3>0, <4>1 DEF CommandOK, Idle
        <4>3. Good(file, known)
          BY <4>1 DEF ContextsOK
        <4> QED
          BY <2>1, <4>1, <4>2, <4>3 DEF Good
      <3>3. CASE LoadToUnregister(u) /\ cmd'[u].pc \in FilePcs
        <4> DEFINE w == Without(file, c.alias)
        <4>1. /\ file # Garbage /\ AliasExists(file, c.alias)
              /\ cmd'[u] = [c EXCEPT !.pc = "truncate", !.cfg = w, !.linked = TRUE]
          BY <3>0, <3>3, IdleOK DEF LoadToUnregister, Goto, FilePcs
        <4>2. cmd'[u].cfg = w /\ cmd'[u].pc = "truncate"
          BY <3>0, <4>1 DEF CommandOK, Idle
        <4>3. Good(file, known) /\ file \in Configs
          BY <3>0, <4>1 DEF ContextsOK, FileOK
        <4>4. Good(w, known)
          BY <4>1, <4>3, WithoutAgrees DEF Good
        <4> QED
          BY <2>1, <4>2, <4>4 DEF Good
      <3>4. CASE CreateRepo(u)
        <4> DEFINE w == With(c.cfg, c.url, c.alias)
        <4>1. c.pc = "create repo" /\ cmd'[u] = [c EXCEPT !.pc = "truncate", !.cfg = w]
              /\ known' = known \union {c.url}
          BY <3>0, <3>4 DEF CreateRepo, Goto
        <4>2. cmd'[u].cfg = w /\ cmd'[u].pc = "truncate"
          BY <3>0, <4>1 DEF CommandOK, Idle
        <4>3. /\ c.cfg \in Configs /\ c.url \in Repos /\ c.alias \in Aliases
              /\ Good(c.cfg, known) /\ ~AliasExists(c.cfg, c.alias)
          BY <3>0, <4>1 DEF CommandOK, ContextsOK, FilePcs
        <4>4. Agrees(w) /\ ContextsOf(w) = ContextsOf(c.cfg) \union {Context(c.url, c.alias)}
          BY <4>3, WithAgrees, WithConfig DEF Good
        <4> HIDE DEF w
        <4>5. \A x \in ContextsOf(w) : x.url \in known'
          <5>1. Context(c.url, c.alias).url = c.url
            BY DEF Context
          <5>2. \A x \in ContextsOf(c.cfg) : x.url \in known
            BY <4>3 DEF Good
          <5> QED
            BY <4>1, <4>4, <5>1, <5>2
        <4> QED
          BY <4>2, <4>4, <4>5 DEF Good
      <3>5. CASE Truncate(u)
        <4>1. c.pc = "truncate" /\ cmd'[u] = [c EXCEPT !.pc = "store"]
          BY <3>0, <3>5 DEF Truncate, Goto
        <4>2. cmd'[u].cfg = c.cfg /\ cmd'[u].pc = "store"
          BY <3>0, <4>1 DEF CommandOK, Idle
        <4>3. Good(c.cfg, known)
          BY <4>1 DEF ContextsOK, FilePcs
        <4> QED
          BY <2>1, <4>2, <4>3 DEF Good
      <3> QED
        BY <1>2, <3>1, <3>2, <3>3, <3>4, <3>5, OwnOK DEF Own, Entry, FilePcs
    <2> QED
      BY <2>2, <2>3, <2>4 DEF ContextsOK, Good
  <1>3. ASSUME NEW r \in Repos, NEW d \in Dirs, Edit(r, d) PROVE ContextsOK'
    BY <1>3, EditAlike DEF ContextsOK, Good, Alike
  <1> QED
    BY <1>1, <1>2, <1>3 DEF Next

(* At first there is at most one context, of a repository that is known. *)
LEMMA ContextsInitially == Init => ContextsOK
  <1> SUFFICES ASSUME Init PROVE ContextsOK
    OBVIOUS
  <1>1. Agrees(file)
    <2>1. ASSUME NEW r \in Repos, NEW a \in Aliases PROVE Agrees(With(Empty, r, a))
      <3>1. ~AliasExists(Empty, a)
        BY EmptyConfig DEF AliasExists
      <3> QED
        BY <3>1, EmptyConfig, EmptyAgrees, WithAgrees
    <2> QED
      BY <2>1, EmptyAgrees DEF Init, TemplateInit, ContextInit
  <1>2. \A x \in ContextsOf(file) : x.url \in known
    BY DEF Init, TemplateInit, ContextInit
  <1> QED
    BY <1>1, <1>2, IdleOK DEF Init, TemplateInit, ContextInit, ContextsOK, Good, FilePcs

-----------------------------------------------------------------------------
(* Contexts: what is lost, and when *)

(* The contexts there will be when c has stored what it has in mind. *)
Outcome(c, all) ==
  IF c.op = "unregister" THEN all \ {x \in all : x.alias = c.alias}
  ELSE all \union {Context(c.url, c.alias)}

(* What a command that has the file open goes by. *)
Pending(c, f, all) ==
  /\ c.linked
  /\ c.pc = "create repo" => c.cfg = f /\ c.op # "unregister"
  /\ c.pc \in {"truncate", "store"} => ContextsOf(c.cfg) = Outcome(c, all)
  /\ c.pc = "store" => f = Empty

(* When no two commands have met at the file, one at most has it open, and *)
(* goes by what is so; but for the time between truncating and writing it, *)
(* the file holds what it should.                                          *)
KeptOK ==
  ~suspect =>
    /\ \A u, v \in Users : cmd[u].pc \in FilePcs /\ cmd[v].pc \in FilePcs => u = v
    /\ \A u \in Users : cmd[u].pc \in FilePcs => Pending(cmd[u], file, contexts)
    /\ (\A u \in Users : cmd[u].pc # "store") => file # Garbage /\ ContextsOf(file) = contexts

(* Whether a handle is on the file of that name is changed only for the    *)
(* file, or by who has just opened it.                                     *)
LEMMA OthersLinked ==
  ASSUME Shape, NEW u \in Users, Step(u), ~ClearFile(u), NEW v \in Users \ {u}
  PROVE  cmd'[v].linked = cmd[v].linked
  <1>0. DOMAIN cmd = Users /\ DOMAIN cmd[v] = DOMAIN Idle
    BY DEF Shape, CommandOK
  <1>1. CASE \E c : Goto(u, c)
    BY <1>0, <1>1 DEF Goto
  <1>2. CASE Push(u) /\ cmd[u].current
    BY <1>0, <1>2 DEF Push, Stale, Idle
  <1> QED
    BY <1>1, <1>2, StepKinds

(* How a command goes on that has the file open. *)
LEMMA FileExit ==
  ASSUME NEW u \in Users, Step(u), cmd[u].pc \in FilePcs
  PROVE  CreateRepo(u) \/ Truncate(u) \/ Store(u) \/ CutOff(u)
  BY DEF FilePcs, Step, ContextStep, TemplateStep, Register, LoadToRegister, Unregister,
     LoadToUnregister, PrepareGit, CreateManifest, Resolve, Prepare, Write,
     Push, Initialize, LookForArgo, ApplyArgo, LookForKarlon, Login, Install, InstallCapi,
     Report, ClearFile, Check, Add, Issue, At

(* Which steps concern the file. *)
LEMMA FileQuiet ==
  ASSUME NEW u \in Users, Step(u)
  PROVE  \/ LoadToRegister(u) \/ LoadToUnregister(u) \/ CreateRepo(u) \/ Truncate(u) \/ Store(u)
         \/ ClearFile(u) \/ CutOff(u)
         \/ UNCHANGED <<file, contexts, suspect>>
  BY DEF Step, ContextStep, TemplateStep, Register, Unregister,
     PrepareGit, CreateManifest, Resolve, Prepare, Write,
     Push, Initialize, LookForArgo, ApplyArgo, LookForKarlon, Login, Install, InstallCapi,
     Report, Check, Add, repoVars

(* A command that has only become another copy goes by the same. *)
LEMMA PendingAlike ==
  ASSUME NEW c, NEW d, Alike(c, d), d.linked = c.linked, NEW f, NEW all, Pending(c, f, all)
  PROVE  Pending(d, f, all)
  BY DEF Alike, Pending, Outcome

(* What the others go by is as it was, if the file and what it should hold *)
(* are; so it is enough to look at the command that takes the step.        *)
LEMMA KeptByOne ==
  ASSUME Shape, KeptOK, NEW u \in Users, Step(u), ~suspect, ~ClearFile(u),
         \A v \in Users \ {u} : cmd[v].pc \in FilePcs =>
            cmd'[u].pc \notin FilePcs /\ UNCHANGED <<file, contexts>>,
         cmd'[u].pc \in FilePcs => Pending(cmd'[u], file', contexts'),
         (\A v \in Users : cmd'[v].pc # "store") => file' # Garbage /\ ContextsOf(file') = contexts'
  PROVE  KeptOK'
  <1>1. ASSUME NEW v \in Users \ {u}
        PROVE  Alike(cmd[v], cmd'[v]) /\ cmd'[v].linked = cmd[v].linked
    BY <1>1, OthersAlike, OthersLinked
  <1>2. \A v, w \in Users : cmd'[v].pc \in FilePcs /\ cmd'[w].pc \in FilePcs => v = w
    BY <1>1 DEF KeptOK, Alike
  <1>3. ASSUME NEW v \in Users, cmd'[v].pc \in FilePcs
        PROVE  Pending(cmd'[v], file', contexts')
    <2>1. CASE v = u
      BY <1>3, <2>1
    <2>2. CASE v # u
      <3>1. Alike(cmd[v], cmd'[v]) /\ cmd'[v].linked = cmd[v].linked /\ cmd[v].pc \in FilePcs
        BY <1>1, <1>3, <2>2 DEF Alike
      <3>2. Pending(cmd[v], file, contexts) /\ UNCHANGED <<file, contexts>>
        BY <2>2, <3>1 DEF KeptOK
      <3> QED
        BY <3>1, <3>2, PendingAlike
    <2> QED
      BY <2>1, <2>2
  <1> QED
    BY <1>2, <1>3 DEF KeptOK, Pending, Outcome

(* Every step keeps it: a command that finds another at the file, or is    *)
(* cut off between truncating and writing it, makes suspect; ...           *)
LEMMA KeptStep == Shape /\ ContextsOK /\ KeptOK /\ [Next]_vars => KeptOK'
  <1> SUFFICES ASSUME Shape, ContextsOK, KeptOK, [Next]_vars PROVE KeptOK'
    OBVIOUS
  <1>1. CASE UNCHANGED vars
    BY <1>1 DEF KeptOK, Pending, Outcome, vars, contextVars
  <1>2. ASSUME NEW r \in Repos, NEW d \in Dirs, Edit(r, d) PROVE KeptOK'
    <2>1. \A v \in Users : Alike(cmd[v], cmd'[v]) /\ cmd'[v].linked = cmd[v].linked
      BY <1>2, EditAlike DEF Edit, Stale, Shape, CommandOK, Idle
    <2>2. UNCHANGED <<file, contexts, suspect>>
      BY <1>2 DEF Edit
    <2>3. \A v \in Users : cmd'[v].pc = cmd[v].pc
      BY <2>1 DEF Alike
    <2>4. ASSUME ~suspect, NEW v \in Users, cmd'[v].pc \in FilePcs
          PROVE  Pending(cmd'[v], file', contexts')
      BY <2>1, <2>2, <2>3, <2>4, PendingAlike DEF KeptOK
    <2> QED
      BY <2>2, <2>3, <2>4 DEF KeptOK, Pending, Outcome
  <1>3. ASSUME NEW u \in Users, Step(u), ~suspect' PROVE KeptOK'
    <2> DEFINE c == cmd[u]
    <2>0. /\ DOMAIN cmd = Users /\ CommandOK(c) /\ FileOK
          /\ \A v \in Users \ {u} : cmd'[v].pc = cmd[v].pc
      BY <1>3, OthersAlike DEF Shape, Alike
    <2>1. CASE ClearFile(u)
      <3>1. \A v \in Users : cmd'[v].pc \notin FilePcs
        <4>1. \A v \in Users \ {u} : cmd[v].pc \notin FilePcs
          BY <1>3, <2>1 DEF ClearFile, OtherWriter, FilePcs
        <4>2. cmd'[u] = After(c) /\ c.pc # "idle"
          BY <2>0, <2>1 DEF ClearFile, At
        <4>3. cmd'[u].pc \notin FilePcs
          BY <2>0, <4>2, AfterOK DEF FilePcs
        <4> QED
          BY <2>0, <4>1, <4>3
      <3>2. file' = Empty /\ contexts' = {} /\ Empty # Garbage
        BY <2>1, EmptyConfig, GarbageAssumption DEF ClearFile
      <3> QED
        BY <3>1, <3>2, EmptyConfig DEF KeptOK
    <2>2. ~ClearFile(u) => ~suspect
      <3>1. CASE UNCHANGED <<file, contexts, suspect>>
        BY <1>3, <3>1
      <3>2. CASE LoadToRegister(u) \/ LoadToUnregister(u) \/ CreateRepo(u) \/ Truncate(u) \/ Store(u)
                 \/ CutOff(u)
        BY <1>3, <3>2 DEF LoadToRegister, LoadToUnregister, CreateRepo, Truncate, Store, CutOff, Interrupt
      <3> QED
        BY <1>3, <3>1, <3>2, FileQuiet
    <2>3. c.pc \in FilePcs /\ ~suspect => \A v \in Users \ {u} : cmd[v].pc \notin FilePcs
      BY DEF KeptOK
    <2>4. c.pc \in FilePcs /\ c.pc # "store" /\ ~suspect =>
            file # Garbage /\ ContextsOf(file) = contexts
      BY <2>3 DEF KeptOK, FilePcs
    <2>5. CASE LoadToRegister(u)
      <3>1. c.pc = "register" /\ UNCHANGED <<file, contexts>> /\ ~suspect /\ ~ClearFile(u)
        BY <1>3, <2>5 DEF LoadToRegister, ClearFile, At
      <3>2. \A v \in Users \ {u} : cmd[v].pc \notin FilePcs
        BY <1>3, <2>5 DEF LoadToRegister, OtherWriter, FilePcs
      <3>3. file # Garbage /\ ContextsOf(file) = contexts
        BY <3>1, <3>2 DEF KeptOK, FilePcs
      <3>4. \/ cmd'[u] = Idle \/ cmd'[u] = After(c)
            \/ cmd'[u] = [c EXCEPT !.pc = "create repo", !.cfg = file, !.linked = TRUE]
        BY <2>0, <2>5 DEF LoadToRegister, Goto
      <3>5. cmd'[u].pc \in FilePcs => Pending(cmd'[u], file', contexts')
        <4>1. Idle.pc \notin FilePcs /\ After(c).pc \notin FilePcs
          BY <2>0, <3>1, IdleOK, AfterOK DEF FilePcs
        <4>2. ASSUME cmd'[u] = [c EXCEPT !.pc = "create repo", !.cfg = file, !.linked = TRUE]
              PROVE  Pending(cmd'[u], file, contexts)
          <5>1. c.op # "unregister"
            BY <2>0, <3>1 DEF CommandOK
          <5> QED
            BY <2>0, <4>2, <5>1 DEF CommandOK, Idle, Pending
        <4> QED
          BY <3>1, <3>4, <4>1, <4>2 DEF Pending, Outcome
      <3> QED
        BY <1>3, <3>1, <3>2, <3>3, <3>5, KeptByOne
    <2>6. CASE LoadToUnregister(u)
      <3>1. c.pc = "unregister" /\ UNCHANGED <<file, contexts>> /\ ~suspect /\ ~ClearFile(u)
        BY <1>3, <2>6 DEF LoadToUnregister, ClearFile, At
      <3>2. \A v \in Users \ {u} : cmd[v].pc \notin FilePcs
        BY <1>3, <2>6 DEF LoadToUnregister, OtherWriter, FilePcs
      <3>3. file # Garbage /\ ContextsOf(file) = contexts
        BY <3>1, <3>2 DEF KeptOK, FilePcs
      <3> DEFINE w == Without(file, c.alias)
      <3>4. \/ cmd'[u] = Idle
            \/ /\ AliasExists(file, c.alias)
               /\ cmd'[u] = [c EXCEPT !.pc = "truncate", !.cfg = w, !.linked = TRUE]
        BY <2>0, <2>6 DEF LoadToUnregister, Goto
      <3>5. AliasExists(file, c.alias) => ContextsOf(w) = {x \in ContextsOf(file) : x.alias # c.alias}
        BY <2>0, <3>3, WithoutAgrees DEF FileOK, ContextsOK, Good
      <3> HIDE DEF w
      <3>6. cmd'[u].pc \in FilePcs => Pending(cmd'[u], file', contexts')
        <4>1. Idle.pc \notin FilePcs
          BY IdleOK DEF FilePcs
        <4>2. ASSUME AliasExists(file, c.alias),
                     cmd'[u] = [c EXCEPT !.pc = "truncate", !.cfg = w, !.linked = TRUE]
              PROVE  Pending(cmd'[u], file, contexts)
          <5>1. /\ cmd'[u].pc = "truncate" /\ cmd'[u].cfg = w /\ cmd'[u].linked
                /\ cmd'[u].op = c.op /\ cmd'[u].alias = c.alias /\ c.op = "unregister"
            BY <2>0, <3>1, <4>2 DEF CommandOK, Idle
          <5>2. ContextsOf(w) = contexts \ {x \in contexts : x.alias = c.alias}
            BY <3>3, <3>5, <4>2
          <5> QED
            BY <5>1, <5>2 DEF Pending, Outcome
        <4> QED
          BY <3>1, <3>4, <4>1, <4>2 DEF Pending, Outcome
      <3> QED
        BY <1>3, <3>1, <3>2, <3>3, <3>6, KeptByOne
    <2>7. CASE CreateRepo(u)
      <3>1. c.pc = "create repo" /\ UNCHANGED <<file, contexts>> /\ ~suspect /\ ~ClearFile(u)
        BY <1>3, <2>7 DEF CreateRepo, ClearFile, At
      <3>2. /\ \A v \in Users \ {u} : cmd[v].pc \notin FilePcs
            /\ file # Garbage /\ ContextsOf(file) = contexts
            /\ c.linked /\ c.cfg = file /\ c.op # "unregister"
        BY <2>3, <2>4, <3>1 DEF FilePcs, KeptOK, Pending
      <3> DEFINE w == With(c.cfg, c.url, c.alias)
      <3>3. cmd'[u] = [c EXCEPT !.pc = "truncate", !.cfg = w]
        BY <2>0, <2>7 DEF CreateRepo, Goto
      <3>4. ContextsOf(w) = ContextsOf(file) \union {Context(c.url, c.alias)}
        BY <2>0, <3>1, <3>2, WithConfig DEF CommandOK
      <3> HIDE DEF w
      <3>5. /\ cmd'[u].pc = "truncate" /\ cmd'[u].cfg = w /\ cmd'[u].linked = c.linked
            /\ cmd'[u].op = c.op /\ cmd'[u].alias = c.alias /\ cmd'[u].url = c.url
        BY <2>0, <3>3 DEF CommandOK, Idle
      <3>6. Pending(cmd'[u], file', contexts')
        BY <3>1, <3>2, <3>4, <3>5 DEF Pending, Outcome
      <3> QED
        BY <1>3, <3>1, <3>2, <3>6, KeptByOne
    <2>8. CASE Truncate(u)
      <3>1. c.pc = "truncate" /\ UNCHANGED contexts /\ ~suspect /\ ~ClearFile(u)
        BY <1>3, <2>8 DEF Truncate, ClearFile, At
      <3>2. (\A v \in Users \ {u} : cmd[v].pc \notin FilePcs) /\ Pending(c, file, contexts)
        BY <2>3, <3>1 DEF FilePcs, KeptOK
      <3>3. file' = Empty /\ cmd'[u] = [c EXCEPT !.pc = "store"]
        BY <2>0, <2>8, <3>2 DEF Truncate, Goto, Pending
      <3>4. /\ cmd'[u].pc = "store" /\ cmd'[u].cfg = c.cfg /\ cmd'[u].linked = c.linked
            /\ cmd'[u].op = c.op /\ cmd'[u].alias = c.alias /\ cmd'[u].url = c.url
        BY <2>0, <3>3 DEF CommandOK, Idle
      <3>5. Pending(cmd'[u], file', contexts')
        BY <3>1, <3>2, <3>3, <3>4 DEF Pending, Outcome
      <3> QED
        BY <1>3, <3>1, <3>2, <3>4, <3>5, KeptByOne
    <2>9. CASE Store(u)
      <3>1. c.pc = "store" /\ ~suspect /\ ~ClearFile(u)
        BY <1>3, <2>9 DEF Store, ClearFile, At
      <3>2. (\A v \in Users \ {u} : cmd[v].pc \notin FilePcs) /\ Pending(c, file, contexts)
        BY <2>3, <3>1 DEF FilePcs, KeptOK
      <3>3. file' = c.cfg /\ contexts' = Outcome(c, contexts)
        BY <2>9, <3>1, <3>2 DEF Store, Pending, Overwritten, Outcome
      <3>4. cmd'[u].pc \notin FilePcs
        <4>1. cmd'[u] = After(c)
          BY <2>0, <2>9 DEF Store, Goto
        <4> QED
          BY <2>0, <3>1, <4>1, AfterOK DEF FilePcs
      <3>5. file' # Garbage /\ ContextsOf(file') = contexts'
        BY <2>0, <3>1, <3>2, <3>3, GarbageAssumption DEF CommandOK, Pending
      <3> QED
        BY <1>3, <3>1, <3>2, <3>4, <3>5, KeptByOne
    <2>10. CASE CutOff(u)
      <3>1. c.pc # "store" /\ UNCHANGED <<file, contexts>> /\ ~suspect
        BY <1>3, <2>10 DEF CutOff, Interrupt
      <3>2. cmd'[u] = Idle /\ cmd'[u].pc \notin FilePcs
        BY <2>0, <2>10, IdleOK DEF CutOff, Interrupt, End, Goto, FilePcs
      <3>3. (\A v \in Users : cmd'[v].pc # "store") => file' # Garbage /\ ContextsOf(file') = contexts'
        BY <2>0, <3>1 DEF KeptOK
      <3> QED
        BY <1>3, <2>1, <3>1, <3>2, <3>3, KeptByOne
    <2>11. CASE /\ UNCHANGED <<file, contexts, suspect>>
                /\ ~(\/ LoadToRegister(u) \/ LoadToUnregister(u) \/ CreateRepo(u) \/ Truncate(u)
                     \/ Store(u) \/ ClearFile(u) \/ CutOff(u))
      <3>1. ~suspect /\ c.pc \notin FilePcs
        BY <1>3, <2>11, FileExit
      <3>2. cmd'[u].pc \notin FilePcs
        BY <1>3, <2>11, OwnOK DEF Own, Entry, FilePcs
      <3>3. (\A v \in Users : cmd'[v].pc # "store") => file' # Garbage /\ ContextsOf(file') = contexts'
        BY <2>0, <2>11, <3>1 DEF KeptOK, FilePcs
      <3> QED
        BY <1>3, <2>11, <3>1, <3>2, <3>3, KeptByOne
    <2> QED
      BY <1>3, <2>1, <2>5, <2>6, <2>7, <2>8, <2>9, <2>10, <2>11, FileQuiet
  <1>4. suspect' => KeptOK'
    BY DEF KeptOK
  <1> QED
    BY <1>1, <1>2, <1>3, <1>4 DEF Next

(* ... and at first the file holds what was registered. *)
LEMMA KeptInitially == Init => KeptOK
  <1> SUFFICES ASSUME Init PROVE KeptOK
    OBVIOUS
  <1>1. file \in Configs /\ contexts = ContextsOf(file)
    BY EmptyConfig, WithConfig DEF Init, TemplateInit, ContextInit
  <1>2. \A u \in Users : cmd[u].pc \notin FilePcs
    BY IdleOK DEF Init, TemplateInit, ContextInit, FilePcs
  <1> QED
    BY <1>1, <1>2, GarbageAssumption DEF KeptOK

-----------------------------------------------------------------------------
(* Templates: what is pushed *)

(* What is on its way to the branch t: what its directories were and will  *)
(* be.                                                                     *)
PushOK(c, t) ==
  /\ \A d \in DOMAIN c.files : IsDirectory(c.files[d])
  /\ c.prep => \A d \in DOMAIN c.files : Valid(c.files[d])
  /\ c.current => \A d \in DOMAIN c.files : c.seen[d] = t[d]
  /\ c.current /\ c.prep =>
       \A d \in DOMAIN c.files : HasManifest(t[d]) /\ c.files[d] = PreparedDir(t[d], c.with)

TemplatesOK ==
  /\ \A r \in Repos, d \in Dirs : IsDirectory(dir[r][d])
  /\ \A r \in Repos, d \in Dirs : <<r, d>> \in ready => Valid(dir[r][d])
  /\ \A u \in Users : cmd[u].pc = "push" => PushOK(cmd[u], dir[cmd[u].url])

(* The manifest of a directory that has one. *)
LEMMA ManifestThere ==
  ASSUME NEW D, HasManifest(D)
  PROVE  TheManifest(D) \in DOMAIN D.files
  <1>1. DOMAIN D.files # {}
    BY FS_EmptySet DEF HasManifest
  <1> QED
    BY <1>1 DEF TheManifest

(* Preparation keeps what a resource is, and the bounds that it has. *)
LEMMA BoundedResource ==
  ASSUME NEW r, DOMAIN r = {"kind", "ns", "max", "min"}, NEW b
  PROVE  LET q == Bounded([r EXCEPT !.ns = FALSE], b)
         IN  /\ DOMAIN q = {"kind", "ns", "max", "min"} /\ q.kind = r.kind /\ ~q.ns
             /\ r.max \in {None, q.max} /\ r.min \in {None, q.min}
  BY DEF Bounded

(* Preparation changes the one manifest and keeps its name. *)
LEMMA PreparedFiles ==
  ASSUME NEW D, IsDirectory(D), HasManifest(D), NEW b, NEW f, f = TheManifest(D)
  PROVE  /\ f \in DOMAIN D.files /\ DOMAIN PreparedDir(D, b).files = DOMAIN D.files
         /\ PreparedDir(D, b).files[f] = PreparedManifest(D.files[f], b)
         /\ \A g \in DOMAIN D.files \ {f} : PreparedDir(D, b).files[g] = D.files[g]
         /\ ~PreparedDir(D, b).sub /\ PreparedDir(D, b).kust # None /\ PreparedDir(D, b).conf
         /\ DOMAIN PreparedDir(D, b) = {"sub", "kust", "conf", "files"}
  <1>1. f \in DOMAIN D.files /\ f # None
    BY ManifestThere DEF IsDirectory
  <1> QED
    BY <1>1 DEF PreparedDir, Directory

(* A directory with a manifest is valid once it is prepared. *)
LEMMA PreparedValid ==
  ASSUME NEW D, IsDirectory(D), HasManifest(D), NEW b
  PROVE  IsDirectory(PreparedDir(D, b)) /\ Valid(PreparedDir(D, b))
  <1> DEFINE P == PreparedDir(D, b)
             f == TheManifest(D)
             m == D.files[f]
             p == PreparedManifest(m, b)
  <1>1. /\ f \in DOMAIN D.files /\ DOMAIN P.files = DOMAIN D.files /\ P.files[f] = p
        /\ \A g \in DOMAIN D.files \ {f} : P.files[g] = D.files[g]
        /\ ~P.sub /\ P.kust # None /\ P.conf /\ DOMAIN P = {"sub", "kust", "conf", "files"}
    BY PreparedFiles
  <1>2. TheManifest(P) = f
    BY <1>1 DEF TheManifest
  <1>3. /\ DOMAIN p = DOMAIN m
        /\ \A i \in DOMAIN m : /\ DOMAIN p[i] = {"kind", "ns", "max", "min"}
                               /\ p[i].kind = m[i].kind /\ ~p[i].ns
    <2>1. \A i \in DOMAIN m : DOMAIN m[i] = {"kind", "ns", "max", "min"}
      BY <1>1 DEF IsDirectory, IsManifest
    <2>2. DOMAIN p = DOMAIN m /\ \A i \in DOMAIN m : p[i] = Bounded([m[i] EXCEPT !.ns = FALSE], b)
      BY DEF PreparedManifest
    <2> HIDE DEF p, m
    <2>3. ASSUME NEW i \in DOMAIN m
          PROVE  DOMAIN p[i] = {"kind", "ns", "max", "min"} /\ p[i].kind = m[i].kind /\ ~p[i].ns
      <3> DEFINE r == m[i]
      <3>1. DOMAIN r = {"kind", "ns", "max", "min"} /\ p[i] = Bounded([r EXCEPT !.ns = FALSE], b)
        BY <2>1, <2>2
      <3> HIDE DEF r
      <3>2. DOMAIN p[i] = {"kind", "ns", "max", "min"} /\ p[i].kind = r.kind /\ ~p[i].ns
        BY <3>1, BoundedResource
      <3> QED
        BY <3>2 DEF r
    <2> QED
      BY <2>2, <2>3
  <1> HIDE DEF P, f, p, m
  <1>4. IsDirectory(P)
    <2>1. IsManifest(p)
      BY <1>3 DEF IsManifest
    <2> QED
      BY <1>1, <2>1 DEF IsDirectory
  <1>5. OneCluster(p) /\ NoNamespace(p)
    <2>1. {i \in DOMAIN p : p[i].kind = "Cluster"} = {i \in DOMAIN m : m[i].kind = "Cluster"}
      BY <1>3
    <2>2. OneCluster(m)
      BY DEF HasManifest, m, f
    <2> QED
      BY <1>3, <2>1, <2>2 DEF OneCluster, NoNamespace
  <1>6. Cardinality(DOMAIN P.files) = 1
    BY <1>1 DEF HasManifest
  <1> QED
    BY <1>1, <1>2, <1>4, <1>5, <1>6 DEF Valid, HasManifest, P

(* A manifest added makes a directory again. *)
LEMMA HoldingDirectory ==
  ASSUME NEW D, IsDirectory(D), NEW f, f # None, NEW m, IsManifest(m)
  PROVE  IsDirectory(Holding(D, f, m))
  <1> DEFINE F == [g \in DOMAIN D.files \union {f} |-> IF g = f THEN m ELSE D.files[g]]
  <1>1. /\ DOMAIN Holding(D, f, m) = {"sub", "kust", "conf", "files"}
        /\ Holding(D, f, m).files = F
    BY DEF Holding, IsDirectory
  <1>2. None \notin DOMAIN F /\ \A g \in DOMAIN F : IsManifest(F[g])
    BY DEF IsDirectory
  <1> HIDE DEF F
  <1> QED
    BY <1>1, <1>2 DEF IsDirectory

(* An example that was removed is a directory too. *)
LEMMA NothingDirectory == IsDirectory(Nothing)
  BY DEF Nothing, Directory, NoFiles, IsDirectory

(* A commit is of directories that are still as the clone has them. *)
LEMMA CommitPush ==
  ASSUME Shape, NEW u \in Users, NEW files, NEW prep \in BOOLEAN, Commit(u, files, prep),
         UNCHANGED dir, NEW t, t = dir[cmd[u].url],
         \A d \in DOMAIN files : IsDirectory(files[d]) /\ IsDirectory(t[d]),
         prep => \A d \in DOMAIN files :
                   HasManifest(t[d]) /\ files[d] = PreparedDir(t[d], cmd[u].with)
  PROVE  PushOK(cmd'[u], t) /\ dir'[cmd'[u].url] = t
  <1> DEFINE c == cmd[u]
             seen == [d \in DOMAIN files |-> t[d]]
  <1>1. cmd'[u] = [c EXCEPT !.pc = "push", !.files = files, !.prep = prep, !.current = TRUE,
                            !.seen = seen]
    BY DEF Commit, Goto, Shape
  <1>2. DOMAIN c = DOMAIN Idle
    BY DEF Shape, CommandOK
  <1>3. \A d \in DOMAIN files : seen[d] = t[d]
    OBVIOUS
  <1> HIDE DEF seen, c
  <1>4. /\ cmd'[u].files = files /\ cmd'[u].prep = prep /\ cmd'[u].seen = seen
        /\ cmd'[u].with = c.with /\ cmd'[u].url = c.url
    BY <1>1, <1>2 DEF Idle
  <1>5. prep => \A d \in DOMAIN files : Valid(files[d])
    BY PreparedValid
  <1> QED
    BY <1>3, <1>4, <1>5 DEF PushOK, c

(* Whose clone stays current has seen no push to its branch. *)
LEMMA OthersCurrent ==
  ASSUME Shape, NEW u \in Users, Step(u), NEW v \in Users \ {u}, cmd[v].url \in Repos,
         cmd'[v].current
  PROVE  cmd[v].current /\ dir'[cmd[v].url] = dir[cmd[v].url]
  <1>0. DOMAIN cmd = Users /\ DOMAIN cmd[v] = DOMAIN Idle
    BY DEF Shape, CommandOK
  <1>1. CASE Push(u) /\ cmd[u].current
    <2>1. cmd'[v] = [cmd[v] EXCEPT !.current = @ /\ cmd[v].url # cmd[u].url]
      BY <1>1 DEF Push, Stale
    <2>2. cmd[v].current /\ cmd[v].url # cmd[u].url
      BY <1>0, <2>1 DEF Idle
    <2> QED
      BY <1>1, <2>2, PushedTrees
  <1>2. CASE ~(Push(u) /\ cmd[u].current)
    <2>1. UNCHANGED dir
      BY <1>2, TreeStep DEF Prepare, Push, gitVars
    <2>2. cmd'[v] = cmd[v] \/ cmd'[v] = [cmd[v] EXCEPT !.linked = FALSE]
      <3>1. CASE \E c : Goto(u, c)
        BY <1>0, <3>1 DEF Goto
      <3>2. CASE ClearFile(u)
        BY <3>2 DEF ClearFile
      <3> QED
        BY <1>2, <3>1, <3>2, StepKinds
    <2> QED
      BY <1>0, <2>1, <2>2 DEF Idle
  <1> QED
    BY <1>1, <1>2

(* How a command comes to push. *)
LEMMA OwnPush ==
  ASSUME Shape, TemplatesOK, NEW u \in Users, Step(u), cmd'[u].pc = "push"
  PROVE  PushOK(cmd'[u], dir'[cmd'[u].url])
  <1> DEFINE c == cmd[u]
  <1>0. /\ DOMAIN cmd = Users /\ CommandOK(c)
        /\ \A r \in Repos, d \in Dirs : IsDirectory(dir[r][d])
    BY DEF Shape, TemplatesOK
  <1>1. c.pc # "idle" => Idle.pc # "push" /\ After(c).pc # "push"
    BY <1>0, IdleOK, AfterOK
  <1>2. ASSUME c.pc # "idle" PROVE ~End(u) /\ ~Goto(u, After(c))
    BY <1>0, <1>1, <1>2 DEF End, Goto
  <1>3. CASE Prepare(u)
    <2> DEFINE D == dir[c.url][c.at]
    <2>1. c.pc = "prepare" /\ c.url \in Repos /\ c.at \in Dirs
      BY <1>0, <1>3 DEF Prepare, CommandOK
    <2>2. HasManifest(D) /\ Commit(u, Only(c.at, PreparedDir(D, c.with)), TRUE) /\ UNCHANGED dir
      BY <1>2, <1>3, <2>1 DEF Prepare
    <2> DEFINE files == Only(c.at, PreparedDir(D, c.with))
    <2>3. DOMAIN files = {c.at} /\ files[c.at] = PreparedDir(D, c.with)
      BY DEF Only
    <2>4. IsDirectory(D) /\ IsDirectory(PreparedDir(D, c.with))
      BY <1>0, <2>1, <2>2, PreparedValid
    <2> HIDE DEF files
    <2>5. Commit(u, files, TRUE)
      BY <2>2 DEF files
    <2> QED
      BY <2>2, <2>3, <2>4, <2>5, CommitPush
  <1>4. ASSUME NEW f, f # None, NEW m, IsManifest(m), c.url \in Repos, c.at \in Dirs, UNCHANGED dir,
               Commit(u, Only(c.at, Holding(dir[c.url][c.at], f, m)), FALSE)
        PROVE  PushOK(cmd'[u], dir'[cmd'[u].url])
    <2> DEFINE D == dir[c.url][c.at]
               files == Only(c.at, Holding(D, f, m))
    <2>1. DOMAIN files = {c.at} /\ files[c.at] = Holding(D, f, m)
      BY DEF Only
    <2>2. IsDirectory(D) /\ IsDirectory(Holding(D, f, m))
      BY <1>0, <1>4, HoldingDirectory
    <2>3. Commit(u, files, FALSE)
      BY <1>4
    <2> HIDE DEF files
    <2> QED
      BY <1>4, <2>1, <2>2, <2>3, CommitPush
  <1>5. CASE Write(u)
    <2>1. c.pc = "write" /\ c.url \in Repos /\ c.at \in Dirs /\ UNCHANGED dir
      BY <1>0, <1>5 DEF Write, CommandOK, gitVars
    <2>2. Commit(u, Only(c.at, Holding(dir[c.url][c.at], Generated, Manifest)), FALSE)
      BY <1>2, <1>5, <2>1 DEF Write
    <2> QED
      BY <1>4, <2>1, <2>2, TemplatesAssumption
  <1>6. CASE Add(u)
    <2>1. c.pc = "add" /\ c.url \in Repos /\ c.at \in Dirs /\ UNCHANGED dir
      BY <1>0, <1>6 DEF Add, At, CommandOK, gitVars, repoVars
    <2>2. Commit(u, Only(c.at, Holding(dir[c.url][c.at], TemplateFile, Template)), FALSE)
      BY <1>2, <1>6, <2>1 DEF Add
    <2> QED
      BY <1>4, <2>1, <2>2, InitializeAssumption
  <1>7. CASE Check(u)
    <2> DEFINE found == {Examples[i] : i \in DOMAIN Examples}
                          \intersect {d \in Dirs : IsThere(dir[c.url][d])}
               files == [d \in found |-> Nothing]
    <2>1. c.pc = "check" /\ c.url \in Repos /\ UNCHANGED dir
      BY <1>0, <1>7 DEF Check, At, CommandOK, gitVars, repoVars
    <2>2. Commit(u, files, FALSE)
      BY <1>2, <1>7, <2>1 DEF Check
    <2>3. DOMAIN files \subseteq Dirs /\ \A d \in DOMAIN files : IsDirectory(files[d])
      BY NothingDirectory
    <2> HIDE DEF files
    <2> QED
      BY <1>0, <2>1, <2>2, <2>3, CommitPush
  <1> QED
    BY <1>3, <1>5, <1>6, <1>7, OwnOK DEF Own, Entry

(* Every step keeps the directories, and what is on its way to them,       *)
(* well-formed, and the directories reported as prepared valid.            *)
LEMMA TemplatesStep == Shape /\ TemplatesOK /\ [Next]_vars => TemplatesOK'
  <1> SUFFICES ASSUME Shape, TemplatesOK, [Next]_vars PROVE TemplatesOK'
    OBVIOUS
  <1>1. CASE UNCHANGED vars
    BY <1>1 DEF TemplatesOK, vars, contextVars, gitVars
  <1>2. ASSUME NEW u \in Users, Step(u) PROVE TemplatesOK'
    <2> DEFINE c == cmd[u]
    <2>1. ASSUME NEW v \in Users, cmd'[v].pc = "push"
          PROVE  PushOK(cmd'[v], dir'[cmd'[v].url])
      <3>1. CASE v = u
        BY <1>2, <2>1, <3>1, OwnPush
      <3>2. CASE v # u
        <4>1. Alike(cmd[v], cmd'[v])
          BY <1>2, <3>2, OthersAlike
        <4>2. cmd[v].url \in Repos /\ PushOK(cmd[v], dir[cmd[v].url])
          BY <2>1, <4>1 DEF Alike, Shape, CommandOK, TemplatesOK
        <4>3. cmd'[v].current => cmd[v].current /\ dir'[cmd[v].url] = dir[cmd[v].url]
          BY <1>2, <3>2, <4>2, OthersCurrent
        <4> QED
          BY <4>1, <4>2, <4>3 DEF PushOK, Alike
      <3> QED
        BY <3>1, <3>2
    <2>2. /\ \A r \in Repos, d \in Dirs : IsDirectory(dir'[r][d])
          /\ \A r \in Repos, d \in Dirs : <<r, d>> \in ready' => Valid(dir'[r][d])
      <3>1. CASE UNCHANGED gitVars
        BY <3>1 DEF TemplatesOK, gitVars
      <3>2. CASE Prepare(u)
        <4>1. c.url \in Repos /\ c.at \in Dirs
          BY <3>2 DEF Prepare, Shape, CommandOK
        <4>2. /\ UNCHANGED dir
              /\ \/ ready' = ready
                 \/ /\ ready' = ready \union {<<c.url, c.at>>}
                    /\ HasManifest(dir[c.url][c.at])
                    /\ PreparedDir(dir[c.url][c.at], c.with) = dir[c.url][c.at]
          BY <3>2 DEF Prepare
        <4>3. CASE ready' = ready
          BY <4>2, <4>3 DEF TemplatesOK
        <4>4. CASE /\ ready' = ready \union {<<c.url, c.at>>}
                   /\ HasManifest(dir[c.url][c.at])
                   /\ PreparedDir(dir[c.url][c.at], c.with) = dir[c.url][c.at]
          <5>1. Valid(dir[c.url][c.at])
            <6>1. IsDirectory(dir[c.url][c.at])
              BY <4>1 DEF TemplatesOK
            <6>2. Valid(PreparedDir(dir[c.url][c.at], c.with))
              BY <4>4, <6>1, PreparedValid
            <6> QED
              BY <4>4, <6>2
          <5> QED
            BY <4>2, <4>4, <5>1 DEF TemplatesOK
        <4> QED
          BY <4>2, <4>3, <4>4
      <3>3. CASE Push(u) /\ ~c.current
        BY <3>3 DEF Push, TemplatesOK, gitVars
      <3>4. CASE Push(u) /\ c.current
        <4> DEFINE q == c.url
                   files == c.files
        <4>1. /\ q \in Repos /\ DOMAIN files \subseteq Dirs
              /\ \A r \in Repos \ {q} : dir'[r] = dir[r]
              /\ \A d \in Dirs : dir'[q][d] = IF d \in DOMAIN files THEN files[d] ELSE dir[q][d]
          BY <3>4, PushedTrees
        <4>2. /\ \A d \in DOMAIN files : IsDirectory(files[d])
              /\ c.prep => \A d \in DOMAIN files : Valid(files[d])
          BY <3>4 DEF Push, TemplatesOK, PushOK
        <4>3. ready' = IF c.prep THEN ready \union ({q} \X DOMAIN files)
                       ELSE ready \ ({q} \X DOMAIN files)
          BY <3>4 DEF Push, Touched
        <4> HIDE DEF q, files
        <4>4. ASSUME NEW r \in Repos, NEW d \in Dirs
              PROVE  IsDirectory(dir'[r][d]) /\ (<<r, d>> \in ready' => Valid(dir'[r][d]))
          <5>1. CASE r = q /\ d \in DOMAIN files
            BY <4>1, <4>2, <4>3, <5>1
          <5>2. CASE ~(r = q /\ d \in DOMAIN files)
            <6>1. dir'[r][d] = dir[r][d] /\ (<<r, d>> \in ready' => <<r, d>> \in ready)
              BY <4>1, <4>3, <5>2
            <6> QED
              BY <6>1 DEF TemplatesOK
          <5> QED
            BY <5>1, <5>2
        <4> QED
          BY <4>4
      <3> QED
        BY <1>2, <3>1, <3>2, <3>3, <3>4, TreeStep
    <2> QED
      BY <1>2, <2>1, <2>2, OthersAlike DEF TemplatesOK
  <1>3. ASSUME NEW r \in Repos, NEW d \in Dirs, Edit(r, d) PROVE TemplatesOK'
    <2>1. /\ \A q \in Repos, e \in Dirs : <<q, e>> # <<r, d>> => dir'[q][e] = dir[q][e]
          /\ ready' = ready \ {<<r, d>>}
      BY <1>3, EditedTrees
    <2>2. IsDirectory(dir'[r][d]) /\ \A q \in Repos \ {r} : dir'[q] = dir[q]
      <3>1. PICK D \in Contents : dir' = [dir EXCEPT ![r][d] = D]
        BY <1>3 DEF Edit
      <3>2. DOMAIN dir = Repos /\ DOMAIN dir[r] = Dirs
        BY DEF Shape, TreesOK
      <3> QED
        BY <3>1, <3>2, TemplatesAssumption
    <2>3. ASSUME NEW v \in Users, cmd'[v].pc = "push"
          PROVE  PushOK(cmd'[v], dir'[cmd'[v].url])
      <3>1. Alike(cmd[v], cmd'[v])
        BY <1>3, EditAlike
      <3>2. cmd[v].url \in Repos /\ PushOK(cmd[v], dir[cmd[v].url])
        BY <2>3, <3>1 DEF Alike, Shape, CommandOK, TemplatesOK
      <3>3. cmd'[v].current => cmd[v].current /\ cmd[v].url # r
        BY <1>3 DEF Edit, Stale, Shape, CommandOK, Idle
      <3> QED
        BY <2>2, <3>1, <3>2, <3>3 DEF PushOK, Alike
    <2> QED
      BY <2>1, <2>2, <2>3 DEF TemplatesOK
  <1> QED
    BY <1>1, <1>2, <1>3 DEF Next

(* At first no directory has been reported. *)
LEMMA TemplatesInitially == Init => TemplatesOK
  <1> SUFFICES ASSUME Init PROVE TemplatesOK
    OBVIOUS
  <1> QED
    BY TemplatesAssumption, IdleOK DEF Init, TemplateInit, ContextInit, TemplatesOK

(* A push that changes a branch is a push of a current clone.              *)
LEMMA PushesCurrent ==
  ASSUME Shape, [Next]_vars, NEW u \in Users, Pushes(u)
  PROVE  Push(u) /\ cmd[u].current
  <1>1. CASE UNCHANGED vars
    BY <1>1 DEF Pushes, vars, gitVars
  <1>2. ASSUME NEW v \in Users \ {u}, Step(v) PROVE FALSE
    BY <1>2, OthersAlike DEF Alike, Pushes
  <1>3. CASE Step(u)
    BY <1>3, TreeStep DEF Pushes, gitVars, Prepare, Push
  <1>4. ASSUME NEW r \in Repos, NEW d \in Dirs, Edit(r, d) PROVE FALSE
    BY <1>4, EditAlike DEF Alike, Pushes
  <1> QED
    BY <1>1, <1>2, <1>3, <1>4 DEF Next

(* What a push of a prepared directory does to the bounds in it. *)
LEMMA PreparedBounds ==
  ASSUME NEW D, IsDirectory(D), HasManifest(D), NEW b, NEW f, f = TheManifest(D),
         NEW i \in DOMAIN D.files[f]
  PROVE  /\ D.files[f][i].max \in {None, PreparedDir(D, b).files[f][i].max}
         /\ D.files[f][i].min \in {None, PreparedDir(D, b).files[f][i].min}
  <1>1. f \in DOMAIN D.files /\ PreparedDir(D, b).files[f] = PreparedManifest(D.files[f], b)
    BY PreparedFiles
  <1> DEFINE m == D.files[f]
             r == m[i]
             q == Bounded([r EXCEPT !.ns = FALSE], b)
  <1>2. PreparedManifest(m, b)[i] = q
    BY DEF PreparedManifest
  <1>3. DOMAIN r = {"kind", "ns", "max", "min"}
    BY <1>1 DEF IsDirectory, IsManifest
  <1> HIDE DEF r
  <1>4. r.max \in {None, q.max} /\ r.min \in {None, q.min}
    BY <1>3, BoundedResource
  <1> QED
    BY <1>1, <1>2, <1>4 DEF r

-----------------------------------------------------------------------------
(* The theorems *)

SetupInv == Shape /\ InstallOK /\ InstalledOK /\ ContextsOK /\ KeptOK /\ TemplatesOK

(* What the properties rest on holds in every state. *)
LEMMA SetupCorrect == Spec => []SetupInv
<1>1. Init => SetupInv
  BY ShapeInit, InstallInitially, InstalledInitially, ContextsInitially, KeptInitially,
     TemplatesInitially DEF SetupInv
<1>2. SetupInv /\ [Next]_vars => SetupInv'
  BY ShapeStep, InstallStep, InstalledStep, ContextsStep, KeptStep, TemplatesStep DEF SetupInv
<1> QED
  BY <1>1, <1>2, PTL DEF Spec

(* Every variable keeps its type. *)
THEOREM SetupTypeCorrect == Spec => []TypeOK
<1>1. SetupInv => TypeOK
  <2> SUFFICES ASSUME SetupInv PROVE TypeOK
    OBVIOUS
  <2>1. ASSUME NEW u \in Users
        PROVE  /\ cmd[u].url \in Repos \union {None} /\ cmd[u].alias \in Aliases \union {None}
               /\ At(u, "store") => DOMAIN cmd[u].cfg = {"default", "repos"}
               /\ At(u, "push") => DOMAIN cmd[u].files \subseteq Dirs /\ cmd[u].url \in Repos
    <3>1. CommandOK(cmd[u])
      BY DEF SetupInv, Shape
    <3>2. \A cfg \in Configs : DOMAIN cfg = {"default", "repos"}
      BY DEF Configs
    <3> QED
      BY <3>1, <3>2 DEF CommandOK, At
  <2>2. file = Garbage \/ file.default \in Repos \union {None}
    BY DEF SetupInv, Shape, FileOK, Configs
  <2>3. known \subseteq Repos /\ ready \subseteq Repos \X Dirs
    BY DEF SetupInv, Shape, TreesOK
  <2>4. argo \in NoArgo..AllOfArgo /\ \E n \in 0..Len(Parts) : karlon = {Parts[i] : i \in 1..n}
    BY DEF SetupInv, InstallOK, UpTo
  <2> QED
    BY <2>1, <2>2, <2>3, <2>4 DEF TypeOK
<1> QED
  BY <1>1, SetupCorrect, PTL

(* However many inits run at once, and wherever they are cut off, the      *)
(* controllers come after what they need.                                  *)
THEOREM ControllersLastCorrect == Spec => []ControllersLast
<1>1. SetupInv => ControllersLast
  <2> SUFFICES ASSUME SetupInv, "controllers" \in karlon
               PROVE  {"accounts", "credentials", "crds"} \subseteq karlon
    BY DEF ControllersLast
  <2>1. PICK n \in 0..5 : karlon = {Parts[i] : i \in 1..n}
    BY DEF SetupInv, InstallOK, UpTo, Parts
  <2>2. /\ Parts[1] = "namespace" /\ Parts[2] = "accounts" /\ Parts[3] = "credentials"
        /\ Parts[4] = "crds"
    BY DEF Parts
  <2>3. PICK i \in 1..n : Parts[i] = "controllers"
    BY <2>1
  <2>4. i = 5
    BY <2>1, <2>2, <2>3
  <2>5. 2 \in 1..n /\ 3 \in 1..n /\ 4 \in 1..n
    BY <2>1, <2>3, <2>4
  <2> QED
    BY <2>1, <2>2, <2>5
<1> QED
  BY <1>1, SetupCorrect, PTL

(* An init that reports success has everything installed, also what        *)
(* another had begun, as soon as none runs any more.                       *)
THEOREM SuccessCorrect == Spec => []SuccessMeansInstalled
<1>1. SetupInv => SuccessMeansInstalled
  <2> SUFFICES ASSUME SetupInv, reported, ~InitRuns, ~partial
               PROVE  argo = AllOfArgo /\ karlon = PartNames /\ capi
    BY DEF SuccessMeansInstalled
  <2>1. argo >= Server /\ "namespace" \in karlon /\ capi /\ BusyOK
    BY DEF SetupInv, InstalledOK
  <2>2. \A u \in Users : cmd[u].pc \notin {"argo", "install"}
    BY DEF InitRuns, SetupInv, Shape, CommandOK, InitPcs
  <2>3. argo = AllOfArgo
    BY <2>1, <2>2 DEF BusyOK, SetupInv, InstallOK, NoArgo, Server, AllOfArgo
  <2>4. Len(Parts) = 5 /\ DOMAIN Parts = 1..5
    BY DEF Parts
  <2>5. PICK n \in 0..5 : karlon = UpTo(n)
    BY <2>4 DEF SetupInv, InstallOK
  <2>6. n \notin 1..4
    BY <2>1, <2>2, <2>5 DEF BusyOK
  <2>7. n # 0
    <3>1. UpTo(0) = {}
      BY DEF UpTo
    <3> QED
      BY <2>1, <2>5, <3>1
  <2>8. n = 5
    BY <2>5, <2>6, <2>7
  <2>9. karlon = PartNames
    BY <2>4, <2>5, <2>8 DEF UpTo, PartNames
  <2> QED
    BY <2>1, <2>3, <2>9
<1> QED
  BY <1>1, SetupCorrect, PTL

(* A file that can be read is consistent, whatever the commands on it did  *)
(* to each other.                                                          *)
THEOREM AgreeCorrect == Spec => []ContextsAgree
<1>1. SetupInv => ContextsAgree
  BY DEF SetupInv, ContextsOK, Good, Agrees, ContextsAgree
<1> QED
  BY <1>1, SetupCorrect, PTL

(* Commands on the file that do not meet there lose nothing, also when     *)
(* they fail.                                                              *)
THEOREM KeptCorrect == Spec => []ContextsKept
<1>1. SetupInv => ContextsKept
  BY DEF SetupInv, KeptOK, ContextsKept
<1> QED
  BY <1>1, SetupCorrect, PTL

(* No context is of a repository that ArgoCD has not taken in. *)
THEOREM BackedCorrect == Spec => []ContextsBacked
<1>1. SetupInv => ContextsBacked
  BY DEF SetupInv, ContextsOK, Good, ContextsBacked
<1> QED
  BY <1>1, SetupCorrect, PTL

(* What preparegit reports as prepared passes validategit. *)
THEOREM PreparedCorrect == Spec => []PreparedIsValid
<1>1. SetupInv => PreparedIsValid
  <2> SUFFICES ASSUME SetupInv, NEW p \in ready PROVE Valid(dir[p[1]][p[2]])
    BY DEF PreparedIsValid
  <2>1. PICK r \in Repos, d \in Dirs : p = <<r, d>>
    BY DEF SetupInv, Shape, TreesOK
  <2> QED
    BY <2>1 DEF SetupInv, TemplatesOK
<1> QED
  BY <1>1, SetupCorrect, PTL

(* A push that goes through finds the directories as its clone had them. *)
THEOREM NothingUndoneCorrect == Spec => NothingUndone
<1>1. ASSUME SetupInv, [Next]_vars, NEW u \in Users, Pushes(u), NEW d \in DOMAIN cmd[u].files
      PROVE  cmd[u].seen[d] = dir[cmd[u].url][d]
  <2>1. Push(u) /\ cmd[u].current
    BY <1>1, PushesCurrent DEF SetupInv
  <2>2. PushOK(cmd[u], dir[cmd[u].url])
    BY <1>1, <2>1 DEF SetupInv, TemplatesOK, Push
  <2> QED
    BY <1>1, <2>1, <2>2 DEF PushOK
<1>2. SetupInv /\ [Next]_vars =>
        [\A u \in Users : Pushes(u) =>
           \A d \in DOMAIN cmd[u].files : cmd[u].seen[d] = dir[cmd[u].url][d]]_<<dir, cmd>>
  BY <1>1
<1> QED
  BY <1>2, SetupCorrect, PTL DEF Spec, NothingUndone

(* The bounds of the autoscaler that a directory has survive its           *)
(* preparation: what is pushed was made from what is there.                *)
THEOREM BoundsKeptCorrect == Spec => BoundsKept
<1> DEFINE Kept(u) ==
             \A d \in DOMAIN cmd[u].files :
               LET D == dir[cmd[u].url][d]
                   f == TheManifest(D)
               IN \A i \in DOMAIN D.files[f] :
                    /\ D.files[f][i].max \in {None, dir'[cmd[u].url][d].files[f][i].max}
                    /\ D.files[f][i].min \in {None, dir'[cmd[u].url][d].files[f][i].min}
<1>1. ASSUME SetupInv, [Next]_vars, NEW u \in Users, Pushes(u), cmd[u].prep
      PROVE  Kept(u)
  <2> SUFFICES ASSUME NEW d \in DOMAIN cmd[u].files,
                      NEW D, D = dir[cmd[u].url][d], NEW f, f = TheManifest(D),
                      NEW i \in DOMAIN D.files[f]
               PROVE  /\ D.files[f][i].max \in {None, dir'[cmd[u].url][d].files[f][i].max}
                      /\ D.files[f][i].min \in {None, dir'[cmd[u].url][d].files[f][i].min}
    OBVIOUS
  <2>1. Push(u) /\ cmd[u].current
    BY <1>1, PushesCurrent DEF SetupInv
  <2>2. /\ cmd[u].url \in Repos /\ d \in Dirs
        /\ dir'[cmd[u].url][d] = cmd[u].files[d]
    BY <1>1, <2>1, PushedTrees DEF SetupInv
  <2>3. PushOK(cmd[u], dir[cmd[u].url])
    BY <1>1, <2>1 DEF SetupInv, TemplatesOK, Push
  <2>4. HasManifest(D) /\ cmd[u].files[d] = PreparedDir(D, cmd[u].with)
    BY <1>1, <2>1, <2>3 DEF PushOK
  <2>5. IsDirectory(D)
    BY <1>1, <2>2 DEF SetupInv, TemplatesOK
  <2> DEFINE P == PreparedDir(D, cmd[u].with)
  <2>6. dir'[cmd[u].url][d] = P
    BY <2>2, <2>4
  <2>7. D.files[f][i].max \in {None, P.files[f][i].max} /\ D.files[f][i].min \in {None, P.files[f][i].min}
    BY <2>4, <2>5, PreparedBounds
  <2> HIDE DEF P
  <2> QED
    BY <2>6, <2>7
<1>2. SetupInv /\ [Next]_vars => [\A u \in Users : Pushes(u) /\ cmd[u].prep => Kept(u)]_<<dir, cmd>>
  BY <1>1
<1> QED
  BY <1>2, SetupCorrect, PTL DEF Spec, BoundsKept
=============================================================================
