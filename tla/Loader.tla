------------------------------- MODULE Loader -------------------------------
(***************************************************************************)
(* Loading addons: src/wowless/modules/loader.lua from loadAddons on.      *)
(*                                                                         *)
(* Loading an addon loads what it depends on first, then runs its files;   *)
(* the Lua code of a file, or a handler of ADDON_LOADED, may ask for       *)
(* another addon in the middle of it.  doLoadAddon and doBootstrap are     *)
(* recursive: their calls in progress are the stack.  An addon a secure    *)
(* addon depends on is loaded a second time, into the secure environment   *)
(* (`forceSecure').                                                        *)
(***************************************************************************)
EXTENDS Naturals, Sequences, FiniteSets

CONSTANTS
  Addon,              \* the addons that can be loaded
  Rank,               \* the order of their names
  Files,              \* the files of an addon, the same for each
  Bootstrap,          \* files with Bootstrap
  Xml,                \* XML files
  GlobalOnly,         \* files with AllowLoadEnvironment = global
  IntoGlobal, IntoSecure, \* files with LoadIntoEnvironment
  MaxCalls            \* bound: LoadAddOn calls by Lua code

ASSUME AddonAssumption ==
  /\ Rank \in [Addon -> Nat]
  /\ \A a, b \in Addon : Rank[a] = Rank[b] => a = b
  /\ MaxCalls \in Nat

File == {Files[i] : i \in DOMAIN Files}

\* A file stands for its line of the .toc: no two are the same.
ASSUME FilesAssumption ==
  /\ Files \in Seq(File)
  /\ \A i, j \in DOMAIN Files : Files[i] = Files[j] => i = j

VARIABLES
  toc,                \* what initAddons found, see Toc
  loadattempted, loaded,              \* the addons so marked, when
  secdeploadattempted, secdeploaded,  \* loaded without and with forceSecure
  bootstrapping, bootstrapped,
  stack,              \* the calls in progress, the innermost last
  phase, left,        \* the loop of loadAddons, the addons it has to come to
  calls,
  ran,                \* history: [addon, file, env] of every file run,
  again               \* those run a second time

marks == <<loadattempted, loaded, secdeploadattempted, secdeploaded,
           bootstrapping, bootstrapped>>
vars == <<toc, marks, stack, phase, left, calls, ran, again>>

\* The dependencies, required and optional; the addons with a LoadWith on
\* this one; signed and the flags that follow from the .toc.
Toc == [deps : [Addon -> SUBSET Addon], revwiths : [Addon -> SUBSET Addon],
        signed : SUBSET Addon, onlysecure : SUBSET Addon,
        loadfirst : SUBSET Addon, loadondemand : SUBSET Addon]

\* Only signed addons are onlysecure, and those are loaded first.
Sensible(t) == t.onlysecure \subseteq t.loadfirst /\ t.loadfirst \subseteq t.signed

Init ==
  /\ toc \in Toc /\ Sensible(toc)
  /\ loadattempted = {} /\ loaded = {} /\ secdeploadattempted = {} /\ secdeploaded = {}
  /\ bootstrapping = {} /\ bootstrapped = {}
  /\ stack = <<>> /\ phase = "loadfirst" /\ left = Addon
  /\ calls = 0 /\ ran = {} /\ again = {}

-----------------------------------------------------------------------------
(* Calls in progress.  `at' is where one is, `todo' the addons its present  *)
(* loop has to come to, `next' its next file; `lua' says that Lua code runs *)
(* on its behalf.                                                           *)

LoadOf(a, secure) ==
  [addon |-> a, what |-> "load", secure |-> secure, at |-> "enter",
   todo |-> {}, next |-> 1, lua |-> FALSE]
BootOf(a) ==
  [addon |-> a, what |-> "boot", secure |-> FALSE, at |-> "enter",
   todo |-> {}, next |-> 1, lua |-> FALSE]

Top == stack[Len(stack)]
Below == SubSeq(stack, 1, Len(stack) - 1)
Goto(c) == stack' = Append(Below, c)
Push(c, new) == stack' = Below \o <<c, new>>

\* The call at the top is a load, or a bootstrap, at this place.
At(what, at) == stack # <<>> /\ Top.what = what /\ Top.at = at /\ ~Top.lua

\* Whether the addon of a load is loaded into the secure environment.
UseSecureEnv(c) == c.secure \/ c.addon \in toc.onlysecure

-----------------------------------------------------------------------------
(* doLoadAddon *)

\* A variant with a slip in it: forceSecure does not load without first.
EnterLoadAtOnce ==
  /\ At("load", "enter")
  /\ Goto([Top EXCEPT !.at = "check"])
  /\ UNCHANGED <<toc, marks, phase, left, calls, ran, again>>

\* With forceSecure the addon is first loaded without.
EnterLoad ==
  /\ At("load", "enter")
  /\ IF Top.secure /\ Top.addon \notin loaded
     THEN Push([Top EXCEPT !.at = "check"], LoadOf(Top.addon, FALSE))
     ELSE Goto([Top EXCEPT !.at = "check"])
  /\ UNCHANGED <<toc, marks, phase, left, calls, ran, again>>

\* A variant with a slip in it: only a load that is over counts.
AttemptedDone(c) == c.addon \in IF c.secure THEN secdeploaded ELSE loaded

Attempted(c) ==
  c.addon \in IF c.secure THEN secdeploaded \cup secdeploadattempted
                          ELSE loaded \cup loadattempted

SkipLoad ==
  /\ At("load", "check") /\ Attempted(Top)
  /\ stack' = Below
  /\ UNCHANGED <<toc, marks, phase, left, calls, ran, again>>

BeginLoad ==
  /\ At("load", "check") /\ ~Attempted(Top)
  /\ IF Top.secure
     THEN /\ secdeploadattempted' = secdeploadattempted \cup {Top.addon}
          /\ UNCHANGED loadattempted
     ELSE /\ loadattempted' = loadattempted \cup {Top.addon}
          /\ UNCHANGED secdeploadattempted
  /\ Goto([Top EXCEPT !.at = "deps", !.todo = toc.deps[Top.addon]])
  /\ UNCHANGED <<toc, loaded, secdeploaded, bootstrapping, bootstrapped,
                 phase, left, calls, ran, again>>

\* A variant with a slip in it: dependencies are loaded as the addon itself is.
LoadDepAsSelf(d) ==
  /\ At("load", "deps") /\ d \in Top.todo
  /\ Push([Top EXCEPT !.todo = @ \ {d}], LoadOf(d, Top.secure))
  /\ UNCHANGED <<toc, marks, phase, left, calls, ran, again>>

\* The dependencies, in an order that depends on the .toc.
LoadDep(d) ==
  /\ At("load", "deps") /\ d \in Top.todo
  /\ Push([Top EXCEPT !.todo = @ \ {d}], LoadOf(d, UseSecureEnv(Top)))
  /\ UNCHANGED <<toc, marks, phase, left, calls, ran, again>>

EndDeps ==
  /\ At("load", "deps") /\ Top.todo = {}
  /\ Goto([Top EXCEPT !.at = "files"])
  /\ UNCHANGED <<toc, marks, phase, left, calls, ran, again>>

\* The file f of an addon is left out of this load.
Skipped(c, f) ==
  \/ c.secure /\ f \in Xml
  \/ UseSecureEnv(c) /\ f \in GlobalOnly
  \/ c.addon \in bootstrapped /\ f \in Bootstrap

\* The environment it runs in.
EnvOf(c, f) ==
  IF UseSecureEnv(c)
  THEN IF f \in IntoGlobal THEN "global" ELSE "secure"
  ELSE IF f \in IntoSecure THEN "secure" ELSE "global"

\* The file runs; so does what it calls until it returns.
Run(c, env) ==
  LET r == [addon |-> c.addon, file |-> Files[c.next], env |-> env] IN
    /\ ran' = ran \cup {r}
    /\ again' = again \cup ({r} \cap ran)
    /\ Goto([c EXCEPT !.next = @ + 1, !.lua = TRUE])

LoadFile ==
  /\ At("load", "files") /\ Top.next <= Len(Files)
  /\ IF Skipped(Top, Files[Top.next])
     THEN Goto([Top EXCEPT !.next = @ + 1]) /\ UNCHANGED <<ran, again>>
     ELSE Run(Top, EnvOf(Top, Files[Top.next]))
  /\ UNCHANGED <<toc, marks, phase, left, calls>>

\* Bindings, if any, with their event, and the saved variables: Lua again.
LoadVariables ==
  /\ At("load", "files") /\ Top.next > Len(Files)
  /\ Goto([Top EXCEPT !.at = "variables", !.lua = TRUE])
  /\ UNCHANGED <<toc, marks, phase, left, calls, ran, again>>

\* The addon is loaded, and ADDON_LOADED sent.
EndLoad ==
  /\ At("load", "variables")
  /\ IF Top.secure
     THEN secdeploaded' = secdeploaded \cup {Top.addon} /\ UNCHANGED loaded
     ELSE loaded' = loaded \cup {Top.addon} /\ UNCHANGED secdeploaded
  /\ Goto([Top EXCEPT !.at = "revwiths", !.todo = toc.revwiths[Top.addon], !.lua = TRUE])
  /\ UNCHANGED <<toc, loadattempted, secdeploadattempted, bootstrapping, bootstrapped,
                 phase, left, calls, ran, again>>

\* A variant with a slip in it: an addon leaves its reverse LoadWith to others.
LeaveEarly ==
  /\ At("load", "revwiths")
  /\ stack' = Below
  /\ UNCHANGED <<toc, marks, phase, left, calls, ran, again>>

LoadRevWith(d) ==
  /\ At("load", "revwiths") /\ d \in Top.todo
  /\ Push([Top EXCEPT !.todo = @ \ {d}], LoadOf(d, FALSE))
  /\ UNCHANGED <<toc, marks, phase, left, calls, ran, again>>

Leave ==
  /\ At("load", "revwiths") /\ Top.todo = {}
  /\ stack' = Below
  /\ UNCHANGED <<toc, marks, phase, left, calls, ran, again>>

-----------------------------------------------------------------------------
(* doBootstrap *)

NoBootstrap(a) ==
  a \notin toc.loadondemand \/ a \in loaded \cup bootstrapped \cup bootstrapping

SkipBootstrap ==
  /\ At("boot", "enter") /\ NoBootstrap(Top.addon)
  /\ stack' = Below
  /\ UNCHANGED <<toc, marks, phase, left, calls, ran, again>>

BeginBootstrap ==
  /\ At("boot", "enter") /\ ~NoBootstrap(Top.addon)
  /\ bootstrapping' = bootstrapping \cup {Top.addon}
  /\ Goto([Top EXCEPT !.at = "deps", !.todo = toc.deps[Top.addon]])
  /\ UNCHANGED <<toc, loadattempted, loaded, secdeploadattempted, secdeploaded,
                 bootstrapped, phase, left, calls, ran, again>>

BootstrapDep(d) ==
  /\ At("boot", "deps") /\ d \in Top.todo
  /\ Push([Top EXCEPT !.todo = @ \ {d}], BootOf(d))
  /\ UNCHANGED <<toc, marks, phase, left, calls, ran, again>>

EndBootstrapDeps ==
  /\ At("boot", "deps") /\ Top.todo = {}
  /\ Goto([Top EXCEPT !.at = "files"])
  /\ UNCHANGED <<toc, marks, phase, left, calls, ran, again>>

BootstrapFile ==
  /\ At("boot", "files") /\ Top.next <= Len(Files)
  /\ IF Files[Top.next] \in Bootstrap
     THEN Run(Top, "global")
     ELSE Goto([Top EXCEPT !.next = @ + 1]) /\ UNCHANGED <<ran, again>>
  /\ UNCHANGED <<toc, marks, phase, left, calls>>

EndBootstrap ==
  /\ At("boot", "files") /\ Top.next > Len(Files)
  /\ bootstrapped' = bootstrapped \cup {Top.addon}
  /\ stack' = Below
  /\ UNCHANGED <<toc, loadattempted, loaded, secdeploadattempted, secdeploaded,
                 bootstrapping, phase, left, calls, ran, again>>

-----------------------------------------------------------------------------
(* Lua code *)

\* LoadAddOn, from the Lua code at the top, or when nothing is being loaded.
LoadAddOn(a) ==
  /\ calls < MaxCalls /\ calls' = calls + 1
  /\ stack = <<>> => phase = "done"
  /\ stack # <<>> => Top.lua
  /\ stack' = Append(stack, LoadOf(a, FALSE))
  /\ UNCHANGED <<toc, marks, phase, left, ran, again>>

Return ==
  /\ stack # <<>> /\ Top.lua
  /\ Goto([Top EXCEPT !.lua = FALSE])
  /\ UNCHANGED <<toc, marks, phase, left, calls, ran, again>>

-----------------------------------------------------------------------------
(* loadAddons *)

\* A variant with a slip in it: the first loop leaves the onlysecure to the next.
ConcernsLater(a) ==
  CASE phase = "loadfirst" -> a \in toc.loadfirst \ toc.onlysecure
    [] phase = "signed"    -> a \in toc.signed /\ a \notin loaded
    [] phase = "unsigned"  -> a \notin loaded
    [] OTHER -> FALSE

\* The three loops, and what each has to do with an addon.
Concerns(a) ==
  CASE phase = "loadfirst" -> a \in toc.loadfirst
    [] phase = "signed"    -> a \in toc.signed /\ a \notin loaded
    [] phase = "unsigned"  -> a \notin loaded
    [] OTHER -> FALSE

\* The last loop goes by name, the others as the addons were found.
IsTurnOf(a) ==
  /\ a \in left
  /\ phase = "unsigned" => \A b \in left : Rank[a] <= Rank[b]

\* A variant with a slip in it: an addon stays in the loop until it is loaded.
VisitUntilLoaded(a) ==
  /\ stack = <<>> /\ IsTurnOf(a)
  /\ left' = IF a \in loaded THEN left \ {a} ELSE left
  /\ stack' = IF ~Concerns(a) THEN <<>>
              ELSE IF phase # "loadfirst" /\ a \in toc.loadondemand THEN <<BootOf(a)>>
              ELSE <<LoadOf(a, FALSE)>>
  /\ UNCHANGED <<toc, marks, phase, calls, ran, again>>

Visit(a) ==
  /\ stack = <<>> /\ IsTurnOf(a)
  /\ left' = left \ {a}
  /\ stack' = IF ~Concerns(a) THEN <<>>
              ELSE IF phase # "loadfirst" /\ a \in toc.loadondemand THEN <<BootOf(a)>>
              ELSE <<LoadOf(a, FALSE)>>
  /\ UNCHANGED <<toc, marks, phase, calls, ran, again>>

NextLoop ==
  /\ stack = <<>> /\ left = {} /\ phase # "done"
  /\ phase' = CASE phase = "loadfirst" -> "signed"
                [] phase = "signed"    -> "unsigned"
                [] phase = "unsigned"  -> "done"
  /\ left' = CASE phase' = "signed"   -> Addon
               [] phase' = "unsigned" -> Addon \ toc.signed
               [] phase' = "done"     -> {}
  /\ UNCHANGED <<toc, marks, stack, calls, ran, again>>

LoaderStep ==
  \/ EnterLoad \/ SkipLoad \/ BeginLoad \/ EndDeps \/ LoadFile \/ LoadVariables
  \/ EndLoad \/ Leave \/ SkipBootstrap \/ BeginBootstrap \/ EndBootstrapDeps
  \/ BootstrapFile \/ EndBootstrap \/ Return \/ NextLoop
  \/ \E a \in Addon : LoadDep(a) \/ LoadRevWith(a) \/ BootstrapDep(a) \/ Visit(a)

Next == LoaderStep \/ \E a \in Addon : LoadAddOn(a)

\* The code of a file or a handler returns.
Spec == Init /\ [][Next]_vars /\ WF_vars(LoaderStep)

-----------------------------------------------------------------------------
(* Properties *)

InProgress ==
  [addon : Addon, what : {"load", "boot"}, secure : BOOLEAN,
   at : {"enter", "check", "deps", "files", "variables", "revwiths"},
   todo : SUBSET Addon, next : 1 .. Len(Files) + 1, lua : BOOLEAN]

\* The types of the variables; what is done was begun.
TypeOK ==
  /\ toc \in Toc
  /\ loaded \subseteq loadattempted /\ loadattempted \subseteq Addon
  /\ secdeploaded \subseteq secdeploadattempted /\ secdeploadattempted \subseteq loadattempted
  /\ bootstrapped \subseteq bootstrapping /\ bootstrapping \subseteq toc.loadondemand
  /\ \A i \in DOMAIN stack : stack[i] \in InProgress
  /\ phase \in {"loadfirst", "signed", "unsigned", "done"} /\ left \subseteq Addon
  /\ calls \in 0 .. MaxCalls
  /\ again \subseteq ran
  /\ ran \subseteq [addon : Addon, file : File, env : {"global", "secure"}]

\* Whatever the dependencies and whatever Lua code loads in the middle, a
\* file runs once in an environment (loader.lua:212-236, 253).  There are
\* exceptions: an onlysecure addon that another secure addon depends on, the
\* files that have an environment of their own, and a file with Bootstrap
\* whose code loads its own addon before `bootstrapped' is set.
RunOnce ==
  \A r \in again :
    \/ r.addon \in toc.onlysecure
    \/ r.file \in IntoGlobal \cup IntoSecure \cup Bootstrap

\* The files of an addon run when what it depends on is loaded, in the secure
\* environment too if it goes there, except for what is itself in the middle
\* of being loaded: the addon, if it depends on itself, or one further out
\* (loader.lua:237-244).
DepsFirst ==
  \A i \in DOMAIN stack : LET c == stack[i] IN
    c.what = "load" /\ c.at \in {"files", "variables", "revwiths"} =>
      \A d \in toc.deps[c.addon] :
        \/ d \in IF UseSecureEnv(c) THEN secdeploaded ELSE loaded
        \/ \E j \in 1 .. i :
             /\ stack[j].what = "load" /\ stack[j].addon = d
             /\ stack[j].secure = UseSecureEnv(c)

\* Between two loads nothing is left half done, whatever cycles there are:
\* with an addon also its dependencies and what has a LoadWith on it are
\* loaded.  In the end every addon is loaded, or bootstrapped if it loads on
\* demand (loader.lua:335-365).
AllLoaded ==
  stack = <<>> =>
    /\ loadattempted = loaded /\ secdeploadattempted = secdeploaded
    /\ bootstrapping = bootstrapped
    /\ \A a \in loaded : toc.deps[a] \cup toc.revwiths[a] \subseteq loaded
    /\ \A a \in loaded \cap toc.onlysecure : toc.deps[a] \subseteq secdeploaded
    /\ phase = "done" => Addon = loaded \cup (bootstrapped \cap toc.loadondemand)

\* The assertion of loader.lua:300: no onlysecure addon is ever bootstrapped.
BootstrapNotSecure ==
  \A i \in DOMAIN stack :
    stack[i].what = "boot" /\ stack[i].at # "enter" => stack[i].addon \notin toc.onlysecure

\* Addons are loaded after what they depend on, and bootstrapped only if that
\* is what they are for.
InTurn == DepsFirst /\ BootstrapNotSecure

\* Every load comes to an end: cycles of dependencies and Lua code that loads
\* the addon it belongs to hold nothing up.
LoadEnds == []<>(phase = "done" /\ stack = <<>>)
=============================================================================
