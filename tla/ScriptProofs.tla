------------------------------ MODULE ScriptProofs -----------------------------
(***************************************************************************)
(* The scripts of the repository.  Backups that follow one another keep    *)
(* what is there and report what is true, for any number of targets, runs, *)
(* cleaners and batches.  The installer's reports are true and it loses    *)
(* neither a plugin nor a skill, for any command lines and any number of   *)
(* changes that users make meanwhile.                                      *)
(***************************************************************************)
EXTENDS Backup, Installer, FiniteSetTheorems, TLAPS

-----------------------------------------------------------------------------
\* The installer: its inductive invariant.

\* The types.
Markets == {"none", "ours", "other"}
PluginStates == {"none", "stale", "fresh", "other"}
Leaves == {"none", "old", "new", "part", "file", "link"}
Commands == {"register", "install", "update", "add", "uninstall"}
ClientOutcomes == {"none", "skipped", "failed", "ready", "planned", "absent", "installed",
             "applied", "removed"}
Replacing == {"copy", "aside", "publish", "restore", "tidy"}
Managing == {"list", "plan", "execute", "verify"}
Busy == Managing \cup {"skill"} \cup Replacing

\* c has still to be come to, in this phase.
InTodo(c) == \E i \in 1 .. Len(todo) : todo[i] = c
NoneTwice(s) == \A i, j \in 1 .. Len(s) : s[i] = s[j] => i = j

Typed ==
  /\ market \in [Clients -> Markets] /\ plugin \in [Clients -> PluginStates]
  /\ leaf \in [Clients -> Leaves] /\ staging \in [Clients -> {"none", "part", "new"}]
  /\ backup \in [Clients -> Leaves]
  /\ order \in OrderRecords /\ found \subseteq Clients
  /\ skill \in BOOLEAN /\ rooted \in BOOLEAN
  /\ pc \in Busy \cup {"select", "end"}
  /\ todo \in Seq(Clients) /\ plans \in [Clients -> Seq(Commands)]
  /\ outcome \in [Clients -> ClientOutcomes]
  /\ exit \in {"none", "0", "1", "crash", "killed"} /\ (exit # "none" <=> pc = "end")
  /\ had \in [plugin : [Clients -> PluginStates], leaf : [Clients -> Leaves]]
  /\ meddled \in [Clients -> Nat] /\ idle \subseteq Clients

\* What is under way is what was asked for.
Phase ==
  /\ pc \in Managing => order.asset = "plugin"
  /\ pc \in {"skill"} \cup Replacing => order.asset = "skill"
  /\ pc = "list" <=> pc \in Managing /\ order.command = "list"
  /\ pc = "verify" => ~OnlyShows /\ plans[Current] = << >>
  /\ pc \in Replacing => order.command = "apply" /\ ~order.dry

\* The targets that have still to be come to are those not yet reported on.
Queue ==
  /\ NoneTwice(todo)
  /\ pc \in Busy => /\ todo # << >>
                    /\ Missing => ~Explicit /\ ~order.strict
                    /\ \A c \in Clients : InTodo(c) => IsTarget(c)
  /\ \A c \in Clients :
       /\ pc \in {"select", "plan"} => outcome[c] \in {"none", "skipped"}
       /\ IsTarget(c) => outcome[c] # "skipped"
       /\ pc \in Busy /\ InTodo(c) => outcome[c] = "none"
       /\ pc \in Busy \ {"plan"} /\ IsTarget(c) /\ outcome[c] = "none" => InTodo(c)
  /\ exit = "0" => \A c \in Requested :
       IF IsTarget(c) THEN outcome[c] \notin {"none", "failed", "skipped"}
       ELSE ~Explicit /\ ~order.strict

\* A plugin of Claude or Codex is one from its marketplace.
Sourced ==
  /\ market["grok"] = "none"
  /\ \A c \in {"claude", "codex"} : plugin[c] # "none" =>
       market[c] = IF plugin[c] = "other" THEN "other" ELSE "ours"

\* The plugin is what it was when the script started, unless its user changed it.
Untouched(c) == meddled[c] = 0 => plugin[c] = had.plugin[c]

\* What may be left of a plan.
ClaudePlans ==
  {<<"register", "install">>, <<"register", "update">>, <<"install">>, <<"update">>, << >>}
CodexPlans == {<<"register", "add">>, <<"add">>, << >>}
GrokPlans == {<<"install">>, <<"update">>, <<"uninstall", "install">>, << >>}

\* Where the commands left to run will take a client that runs them all.
Headed(c) ==
  CASE c = "claude" ->
         /\ plans[c] \in ClaudePlans
         /\ meddled[c] = 0 /\ c \notin idle /\ plans[c] = << >> => plugin[c] # "stale"
    [] c = "codex" ->
         /\ plans[c] \in CodexPlans
         /\ meddled[c] = 0 /\ market[c] = "other" => Unnoticed(c)
         /\ meddled[c] = 0 /\ c \notin idle /\ plans[c] = << >> =>
              plugin[c] = "fresh" \/ market[c] = "other"
    [] c = "grok" ->
         /\ plans[c] \in GrokPlans
         /\ meddled[c] = 0 /\ plans[c] # << >> /\ Head(plans[c]) = "uninstall" =>
              had.plugin[c] = "other"
         /\ meddled[c] = 0 /\ c \notin idle =>
              /\ plans[c] # << >> /\ Head(plans[c]) = "update" => plugin[c] # "other"
              /\ plans[c] = << >> => plugin[c] = "fresh"

RemovalPlans == {<<"uninstall">>, << >>}

Planned(c) ==
  /\ order.command \in {"check", "apply"} => Headed(c)
  /\ order.command = "remove" => plans[c] \in RemovalPlans

\* What has not been come to is as it was; what has been planned is under way.
Waiting(c) ==
  /\ \/ pc \in {"select", "list", "plan"} \/ OnlyShows
     \/ order.command = "list" \/ order.asset = "skill"
     => Untouched(c)
  /\ order.command = "remove" /\ pc \in {"execute", "verify"} /\ InTodo(c)
       /\ (pc = "execute" \/ c # Current) => Untouched(c)
  /\ pc = "plan" /\ IsTarget(c) /\ ~InTodo(c) => Planned(c)
  /\ pc \in {"execute", "verify"} /\ InTodo(c) => Planned(c)

\* What was reported of a client is so, and no plugin is lost.
Truth(c) ==
  /\ outcome[c] = "applied" /\ order.asset = "plugin" /\ meddled[c] = 0 =>
       /\ plugin[c] # "none"
       /\ plugin[c] = "fresh" \/ c \in idle \/ (Unnoticed(c) /\ market[c] = "other")
  /\ outcome[c] = "removed" /\ order.asset = "plugin" /\ meddled[c] = 0 => plugin[c] = "none"
  /\ outcome[c] \in {"ready", "planned", "absent"} => Untouched(c)

Kept(c) ==
  order.command = "apply" /\ had.plugin[c] # "none" /\ meddled[c] = 0 =>
    plugin[c] # "none" \/ (c = "grok" /\ had.plugin[c] = "other")

Plugins == \A c \in Clients : Waiting(c) /\ Truth(c) /\ Kept(c)

USE DEF Unnoticed

\* A skill, and the directories beside it.
Was(c) == leaf[c] = had.leaf[c] /\ staging[c] = "none" /\ backup[c] = "none"
Step(c) ==
  CASE pc = "copy" -> leaf[c] = had.leaf[c] /\ backup[c] = "none"
    [] pc = "aside" -> leaf[c] = had.leaf[c] /\ backup[c] = "none"
    [] pc = "publish" -> leaf[c] = "none" /\ backup[c] = had.leaf[c]
    [] pc = "tidy" -> leaf[c] = "new" /\ staging[c] = "none" /\ backup[c] = had.leaf[c]
    [] pc = "restore" -> \/ leaf[c] = had.leaf[c] /\ backup[c] = "none"
                         \/ leaf[c] = "none" /\ backup[c] = had.leaf[c]

Skills ==
  \A c \in Clients :
    /\ order.asset = "plugin" => Was(c)
    /\ pc = "select" => Was(c)
    /\ pc \in Busy /\ InTodo(c) => IF pc \in Replacing /\ c = Current THEN Step(c) ELSE Was(c)
    /\ outcome[c] \in {"ready", "planned", "absent"} => Was(c)
    /\ outcome[c] = "applied" /\ order.asset = "skill" => leaf[c] = "new"
    /\ outcome[c] = "removed" /\ order.asset = "skill" => leaf[c] = "none"
    /\ order.command = "apply" =>
         /\ outcome[c] = "failed" => Was(c)
         /\ \/ leaf[c] \in {had.leaf[c], "new"}
            \/ /\ leaf[c] = "none" /\ backup[c] = had.leaf[c]
               /\ exit \in {"killed", "crash"} \/ (pc \in {"publish", "restore"} /\ Current = c)

\* The inductive invariant.
InstallInv == Typed /\ Phase /\ Queue /\ Sourced /\ Plugins /\ Skills

-----------------------------------------------------------------------------
\* Lemmas about the queue of clients.

\* c is one of the clients of the queue s.
ClientOf(s, c) == \E i \in 1 .. Len(s) : s[i] = c

(* The queue of the clients that the script has still to come to, none of  *)
(* them twice, is taken from its head.                                     *)
LEMMA TailLemma ==
  ASSUME NEW s \in Seq(Clients), s # << >>, NoneTwice(s)
  PROVE  /\ Head(s) \in Clients /\ ClientOf(s, Head(s))
         /\ Tail(s) \in Seq(Clients) /\ NoneTwice(Tail(s))
         /\ \A c \in Clients : ClientOf(Tail(s), c) <=> ClientOf(s, c) /\ c # Head(s)
         /\ Len(s) > 1 <=> Tail(s) # << >>
<1>1. /\ Len(s) \in Nat /\ Len(s) > 0 /\ Len(Tail(s)) = Len(s) - 1 /\ Head(s) = s[1]
      /\ Tail(s) \in Seq(Clients) /\ \A i \in 1 .. Len(s) - 1 : Tail(s)[i] = s[i + 1]
      /\ \A i \in 1 .. Len(s) : s[i] \in Clients
  OBVIOUS
<1> DEFINE t == Tail(s)
           n == Len(s)
<1>2. Len(s) > 1 <=> Tail(s) # << >>
  <2> DEFINE u == Tail(s)
  <2>1. u \in Seq(Clients)
    BY <1>1
  <2> HIDE DEF u
  <2>2. u = << >> <=> Len(u) = 0
    BY <2>1
  <2>3. Len(u) = Len(s) - 1 /\ Len(s) \in Nat
    BY <1>1 DEF u
  <2>4. Len(s) > 1 <=> u # << >>
    BY ONLY <1>1, <2>2, <2>3
  <2> QED
    BY <2>4 DEF u
<1> HIDE DEF t, n
<1>3. /\ n \in Nat /\ n > 0 /\ Len(t) = n - 1 /\ \A i \in 1 .. n - 1 : t[i] = s[i + 1]
  BY <1>1 DEF t, n
<1>4. \A i, j \in 1 .. n : s[i] = s[j] => i = j
  BY DEF NoneTwice, n
<1>5. NoneTwice(t)
  <2> SUFFICES ASSUME NEW i \in 1 .. n - 1, NEW j \in 1 .. n - 1, t[i] = t[j] PROVE i = j
    BY <1>3 DEF NoneTwice
  <2>1. i + 1 \in 1 .. n /\ j + 1 \in 1 .. n /\ s[i + 1] = s[j + 1]
    BY <1>3
  <2>2. i + 1 = j + 1
    BY <1>4, <2>1
  <2> QED
    BY <1>3, <2>2
<1>6. ASSUME NEW c \in Clients PROVE ClientOf(t, c) <=> ClientOf(s, c) /\ c # s[1]
  <2>1. ASSUME NEW i \in 1 .. n - 1, t[i] = c PROVE ClientOf(s, c) /\ c # s[1]
    <3>1. i + 1 \in 1 .. n /\ s[i + 1] = c /\ 1 \in 1 .. n /\ i + 1 # 1
      BY <1>3, <2>1
    <3> QED
      BY <1>4, <3>1 DEF ClientOf, n
  <2>2. ASSUME NEW i \in 1 .. n, s[i] = c, c # s[1] PROVE ClientOf(t, c)
    <3>1. i - 1 \in 1 .. n - 1 /\ (i - 1) + 1 = i
      BY <1>3, <2>2
    <3>2. t[i - 1] = c
      BY <1>3, <2>2, <3>1
    <3> QED
      BY <1>3, <3>1, <3>2 DEF ClientOf
  <2> QED
    BY <1>3, <2>1, <2>2 DEF ClientOf, n
<1>7. Head(s) \in Clients /\ ClientOf(s, Head(s))
  <2>1. 1 \in 1 .. Len(s)
    BY <1>1
  <2> QED
    BY <1>1, <2>1 DEF ClientOf
<1> QED
  BY <1>1, <1>2, <1>5, <1>6, <1>7 DEF t

(* A client is put in the queue when it is a target.                       *)
LEMMA AppendTargetLemma ==
  ASSUME NEW s \in Seq(Clients), NEW c \in Clients, NoneTwice(s), ~ClientOf(s, c)
  PROVE  /\ AppendTarget(s, c) \in Seq(Clients) /\ NoneTwice(AppendTarget(s, c))
         /\ \A d \in Clients : ClientOf(AppendTarget(s, c), d) <=>
                                 ClientOf(s, d) \/ (d = c /\ IsTarget(c))
<1>1. CASE ~IsTarget(c)
  BY <1>1 DEF AppendTarget
<1>2. CASE IsTarget(c)
  <2> DEFINE t == Append(s, c)
             n == Len(s)
  <2>1. /\ n \in Nat /\ t \in Seq(Clients) /\ Len(t) = n + 1 /\ t[n + 1] = c
        /\ \A i \in 1 .. n : t[i] = s[i]
        /\ AppendTarget(s, c) = t
    BY <1>2 DEF AppendTarget
  <2>2. (\A i \in 1 .. n : s[i] # c) /\ \A i, j \in 1 .. n : s[i] = s[j] => i = j
    BY DEF NoneTwice, ClientOf
  <2>3. \A d \in Clients : ClientOf(s, d) <=> \E i \in 1 .. n : s[i] = d
    BY DEF ClientOf
  <2> HIDE DEF t, n
  <2>4. \A i \in 1 .. n + 1 : i \in 1 .. n \/ i = n + 1
    BY <2>1
  <2>5. n + 1 \in 1 .. n + 1 /\ \A i \in 1 .. n : i \in 1 .. n + 1
    BY <2>1
  <2>6. NoneTwice(t)
    BY <2>1, <2>2, <2>4 DEF NoneTwice
  <2>7. ASSUME NEW d \in Clients PROVE ClientOf(t, d) <=> ClientOf(s, d) \/ d = c
    BY <2>1, <2>3, <2>4, <2>5 DEF ClientOf
  <2> QED
    BY <1>2, <2>1, <2>6, <2>7
<1> QED
  BY <1>1, <1>2

(* Each target is in the queue that a phase begins with, once.             *)
LEMMA InstallTargetsLemma ==
  /\ InstallTargets \in Seq(Clients) /\ NoneTwice(InstallTargets)
  /\ \A c \in Clients : ClientOf(InstallTargets, c) <=> IsTarget(c)
<1> DEFINE a == AppendTarget(<< >>, "claude")
           b == AppendTarget(a, "codex")
<1>1. /\ << >> \in Seq(Clients) /\ NoneTwice(<< >>) /\ \A c \in Clients : ~ClientOf(<< >>, c)
      /\ "claude" \in Clients /\ "codex" \in Clients /\ "grok" \in Clients
      /\ \A d \in Clients : d \in {"claude", "codex", "grok"}
  BY DEF NoneTwice, ClientOf, Clients
<1>2. /\ a \in Seq(Clients) /\ NoneTwice(a)
      /\ \A d \in Clients : ClientOf(a, d) <=> (d = "claude" /\ IsTarget(d))
  BY <1>1, AppendTargetLemma
<1> HIDE DEF a
<1>3. /\ b \in Seq(Clients) /\ NoneTwice(b)
      /\ \A d \in Clients : ClientOf(b, d) <=> (d \in {"claude", "codex"} /\ IsTarget(d))
  <2>1. ~ClientOf(a, "codex")
    BY <1>1, <1>2
  <2> QED
    BY <1>1, <1>2, <2>1, AppendTargetLemma
<1> HIDE DEF b
<1>4. /\ InstallTargets \in Seq(Clients) /\ NoneTwice(InstallTargets)
      /\ \A d \in Clients : ClientOf(InstallTargets, d) <=>
                              (ClientOf(b, d) \/ (d = "grok" /\ IsTarget("grok")))
  <2>1. ~ClientOf(b, "grok")
    BY <1>1, <1>3
  <2>2. InstallTargets = AppendTarget(b, "grok")
    BY DEF InstallTargets, a, b
  <2> QED
    BY <1>1, <1>3, <2>1, <2>2, AppendTargetLemma
<1> QED
  BY <1>1, <1>3, <1>4

\* What a report does to the queue and to what is reported.
Reported(o) ==
  /\ outcome' \in [Clients -> ClientOutcomes] /\ outcome'[Current] = o
  /\ todo' \in Seq(Clients) /\ exit' \in {"none", "0", "1"}
  /\ \A c \in Clients \ {Current} : outcome'[c] = outcome[c]
  /\ \A c \in Clients : InTodo(c)' <=> InTodo(c) /\ c # Current

(* A report takes the client out of the queue, and when it was the last of *)
(* them ends the script with the exit code that all the reports add up to. *)
LEMMA ReportLemma ==
  ASSUME Typed, Queue, pc \in Busy \ {"plan"}, NEW phase \in Busy \ {"plan"},
         NEW o \in ClientOutcomes \ {"none", "skipped"}, Report(Current, o, phase),
         UNCHANGED given
  PROVE  /\ Queue' /\ Reported(o) /\ Current \in Clients /\ InTodo(Current) /\ todo # << >>
         /\ outcome[Current] = "none"
         /\ \/ pc' = phase /\ exit' = "none"
            \/ pc' = "end" /\ exit' # "none"
<1>1. /\ todo \in Seq(Clients) /\ todo # << >> /\ NoneTwice(todo)
      /\ outcome' = [outcome EXCEPT ![Current] = o] /\ todo' = Tail(todo)
      /\ order' = order /\ found' = found /\ exit = "none"
  BY DEF Typed, Queue, Report, NextClient, given, Busy, Managing, Replacing
<1>2. /\ Current \in Clients /\ InTodo(Current) /\ todo' \in Seq(Clients) /\ NoneTwice(todo')
      /\ \A c \in Clients : InTodo(c)' <=> InTodo(c) /\ c # Current
      /\ Len(todo) > 1 <=> todo' # << >>
  BY <1>1, TailLemma DEF Current, InTodo, ClientOf
<1>3. /\ outcome' \in [Clients -> ClientOutcomes] /\ outcome'[Current] = o
      /\ \A c \in Clients \ {Current} : outcome'[c] = outcome[c]
  BY <1>1, <1>2 DEF Typed
<1>4. \/ Len(todo) > 1 /\ pc' = phase /\ exit' = "none"
      \/ ~(Len(todo) > 1) /\ pc' = "end" /\ exit' = "1"
      \/ /\ ~(Len(todo) > 1) /\ pc' = "end" /\ exit' = "0"
         /\ \A c \in Clients : outcome'[c] # "failed"
  BY <1>1 DEF Report, NextClient, ExitWith
<1>5. /\ IsTarget(Current) /\ outcome[Current] = "none"
      /\ \A c \in Clients : IsTarget(c)' <=> IsTarget(c)
      /\ Requested' = Requested /\ Requested \subseteq Clients
      /\ (Missing => ~Explicit /\ ~order.strict) /\ Missing' = Missing /\ Explicit' = Explicit
  BY <1>1, <1>2 DEF Queue, IsTarget, Requested, Missing, Explicit, Typed, OrderRecords
<1>6. ASSUME todo' = << >> PROVE \A c \in Clients : ~InTodo(c)'
  BY <1>6 DEF InTodo
<1>7. exit' = "0" => \A c \in Requested :
        IF IsTarget(c) THEN outcome'[c] \notin {"none", "failed", "skipped"}
        ELSE ~Explicit /\ ~order.strict
  <2> SUFFICES ASSUME exit' = "0", NEW c \in Requested
               PROVE  IF IsTarget(c) THEN outcome'[c] \notin {"none", "failed", "skipped"}
                      ELSE ~Explicit /\ ~order.strict
    OBVIOUS
  <2>1. todo' = << >> /\ outcome'[c] # "failed" /\ c \in Clients
    BY <1>2, <1>4, <1>5
  <2>2. ASSUME IsTarget(c), c # Current PROVE outcome'[c] \notin {"none", "skipped"}
    <3>1. ~InTodo(c)
      BY <1>2, <1>6, <2>1, <2>2
    <3> QED
      BY <1>3, <2>1, <2>2, <3>1 DEF Queue
  <2>3. ASSUME ~IsTarget(c) PROVE Missing
    BY <2>3 DEF IsTarget, Missing
  <2> QED
    BY <1>3, <1>5, <2>1, <2>2, <2>3
<1>8. Queue'
  <2>1. \A c \in Clients :
       /\ IsTarget(c) => outcome'[c] # "skipped"
       /\ pc' \in Busy /\ InTodo(c)' => outcome'[c] = "none" /\ IsTarget(c)
       /\ pc' \in Busy /\ IsTarget(c) /\ outcome'[c] = "none" => InTodo(c)'
    BY <1>2, <1>3, <1>5 DEF Queue
  <2>2. pc' \notin {"select", "plan"} /\ (pc' \in Busy => todo' # << >>)
    BY <1>2, <1>4 DEF Busy, Managing, Replacing
  <2> QED
    BY <1>1, <1>2, <1>5, <1>7, <2>1, <2>2 DEF Queue
<1> QED
  BY <1>1, <1>2, <1>3, <1>4, <1>5, <1>8 DEF Reported

(* The script begins with what it remembers of the clients.                *)
LEMMA InstallStart == InstallInit => InstallInv
<1> SUFFICES ASSUME InstallInit PROVE InstallInv
  OBVIOUS
<1>1. /\ order \in OrderRecords /\ found \subseteq Clients
  /\ skill \in BOOLEAN /\ rooted \in BOOLEAN
      /\ pc = "select" /\ todo = << >> /\ exit = "none" /\ idle = {}
      /\ plans = [c \in Clients |-> << >>] /\ outcome = [c \in Clients |-> "none"]
      /\ meddled = [c \in Clients |-> 0]
      /\ staging = [c \in Clients |-> "none"] /\ backup = [c \in Clients |-> "none"]
      /\ had.plugin = plugin /\ had.leaf = leaf
      /\ leaf \in [Clients -> Leaves]
      /\ had = [plugin |-> plugin, leaf |-> leaf]
  BY InstallerAssumption DEF InstallInit, NoLeaf, Leaves
<1>2. PICK p \in FirstPlugins \cup {NoPlugins} : market = p.market /\ plugin = p.plugin
  BY DEF InstallInit
<1>3. /\ market \in [Clients -> Markets] /\ plugin \in [Clients -> {"none", "stale", "other"}]
      /\ Sourced
  <2>1. CASE p \in FirstPlugins
    <3>1. /\ p.market \in [Clients -> Markets] /\ p.plugin \in [Clients -> {"none", "stale", "other"}]
          /\ p.market["grok"] = "none"
          /\ \A c \in {"claude", "codex"} : p.plugin[c] # "none" =>
               p.market[c] = IF p.plugin[c] = "stale" THEN "ours" ELSE "other"
      BY <2>1 DEF FirstPlugins, Markets
    <3>2. \A c \in {"claude", "codex"} : p.plugin[c] \in {"none", "stale", "other"}
      BY <3>1 DEF Clients
    <3> QED
      BY <1>2, <3>1, <3>2 DEF Sourced
  <2>2. CASE p = NoPlugins
    BY <1>2, <2>2 DEF NoPlugins, Markets, Sourced, Clients
  <2> QED
    BY <2>1, <2>2
<1>4. /\ plugin \in [Clients -> PluginStates]
      /\ plans \in [Clients -> Seq(Commands)]
  BY <1>1, <1>3 DEF PluginStates
<1>5. Typed
  BY <1>1, <1>3, <1>4 DEF Typed, ClientOutcomes, Busy, Managing, Replacing, Leaves
<1>6. Phase /\ Queue
  BY <1>1 DEF Phase, Queue, Busy, Managing, Replacing, NoneTwice, ClientOutcomes
<1>7. Plugins /\ Skills
  BY <1>1 DEF Plugins, Waiting, Truth, Kept, Untouched, Skills, Was, Busy, Managing, Replacing
<1> QED
  BY <1>3, <1>5, <1>6, <1>7 DEF InstallInv

(* A step that ends the script and changes nothing.                        *)
LEMMA ScriptEndLemma ==
  InstallInv /\ (SelectionFails \/ InspectionFails \/ ScriptKilled) => InstallInv'
<1> SUFFICES ASSUME InstallInv, SelectionFails \/ InspectionFails \/ ScriptKilled PROVE InstallInv'
  OBVIOUS
<1>1. /\ pc' = "end" /\ exit' \in {"1", "killed"}
      /\ UNCHANGED <<market, plugin, leaf, staging, backup, order, found, skill, rooted, had>>
      /\ UNCHANGED <<todo, plans, outcome, meddled, idle>>
      /\ pc \in {"select", "plan", "list"} \/ exit' = "killed"
      /\ pc # "end"
  BY DEF SelectionFails, InspectionFails, ScriptKilled, SyncError, ExitWith, clients, given,
         observed
<1>2. Typed'
  BY <1>1 DEF InstallInv, Typed
<1>3. Phase' /\ Queue'
  BY <1>1 DEF InstallInv, Phase, Queue, Busy, Managing, Replacing, NoneTwice, OnlyShows,
              IsTarget, Requested
<1>4. Sourced'
  BY <1>1 DEF InstallInv, Sourced
<1>5. Plugins'
  BY <1>1 DEF InstallInv, Plugins, Waiting, Truth, Kept, Untouched, OnlyShows
<1>6. Skills'
  BY <1>1 DEF InstallInv, Phase, Skills, Was, Busy, Managing, Replacing, Step, Typed
<1> QED
  BY <1>2, <1>3, <1>4, <1>5, <1>6 DEF InstallInv

(* select_targets: every target is in the queue.                           *)
LEMMA SelectStep == InstallInv /\ SelectTargets => InstallInv'
<1> SUFFICES ASSUME InstallInv, SelectTargets PROVE InstallInv'
  OBVIOUS
<1>1. /\ pc = "select" /\ exit' = exit /\ exit = "none"
      /\ UNCHANGED <<market, plugin, leaf, staging, backup, order, found, skill, rooted, had>>
      /\ UNCHANGED <<plans, meddled, idle>>
      /\ pc' = FirstPhase /\ todo' = InstallTargets /\ InstallTargets # << >>
      /\ Missing => ~Explicit /\ ~order.strict
      /\ outcome' = [c \in Clients |->
           IF c \in Requested /\ c \notin found THEN "skipped" ELSE "none"]
      /\ order.asset \in {"plugin", "skill"} /\ order \in OrderRecords /\ Typed
  BY DEF InstallInv, Typed, SelectTargets, clients, given, observed, Selectable, OrderRecords
<1>2. /\ pc' \in {"list", "plan", "skill"}
      /\ pc' = "skill" <=> order.asset = "skill"
      /\ pc' = "list" <=> order.asset = "plugin" /\ order.command = "list"
  BY <1>1 DEF FirstPhase
<1>3. /\ todo' \in Seq(Clients) /\ NoneTwice(todo')
      /\ \A c \in Clients : InTodo(c)' <=> IsTarget(c)
  BY <1>1, InstallTargetsLemma DEF InTodo, ClientOf
<1>4. /\ \A c \in Clients : IsTarget(c)' <=> IsTarget(c)
      /\ (Missing <=> Missing') /\ (Explicit' <=> Explicit)
  BY <1>1 DEF IsTarget, Requested, Missing, Explicit
<1>5. \A c \in Clients : /\ outcome'[c] \in {"none", "skipped"}
                         /\ IsTarget(c) => outcome'[c] = "none"
  BY <1>1 DEF IsTarget
<1>6. Typed'
  <2>1. outcome' \in [Clients -> ClientOutcomes]
    BY <1>1 DEF ClientOutcomes
  <2> QED
    BY <1>1, <1>2, <1>3, <2>1 DEF Typed, Busy, Managing
<1>7. Phase'
  BY <1>1, <1>2 DEF Phase, Busy, Managing, Replacing
<1>8. Queue'
  BY <1>1, <1>2, <1>3, <1>4, <1>5 DEF Queue
<1>9. Sourced'
  BY <1>1 DEF InstallInv, Sourced
<1>10. \A c \in Clients : Untouched(c) /\ Was(c)
  BY <1>1 DEF InstallInv, Plugins, Waiting, Skills
<1>11. Plugins'
  BY <1>1, <1>2, <1>3, <1>4, <1>5, <1>10 DEF Plugins, Waiting, Truth, Kept, Untouched
<1>12. Skills'
  BY <1>1, <1>2, <1>5, <1>10 DEF Skills, Was, Replacing
<1> QED
  BY <1>6, <1>7, <1>8, <1>9, <1>11, <1>12 DEF InstallInv

(* While plugins are managed no skill is touched ...                       *)
LEMMA SkillsAlone ==
  ASSUME InstallInv, order.asset = "plugin", pc' \notin Replacing \cup {"skill"},
         UNCHANGED <<leaf, staging, backup, order, had>>
  PROVE  Skills'
<1>1. \A c \in Clients : Was(c)' /\ order'.asset = "plugin"
  BY DEF InstallInv, Skills, Was
<1> QED
  BY <1>1 DEF Skills, Was, Replacing

(* ... and the other way round.                                            *)
LEMMA PluginsAlone ==
  ASSUME InstallInv, order.asset = "skill", pc' \notin Managing,
         UNCHANGED <<market, plugin, order, rooted, had, meddled>>
  PROVE  Sourced' /\ Plugins'
<1>1. \A c \in Clients : Untouched(c)'
  BY DEF InstallInv, Plugins, Waiting, Untouched
<1>2. Plugins'
  BY <1>1 DEF Plugins, Waiting, Truth, Kept, Untouched, Managing
<1> QED
  BY <1>2 DEF InstallInv, Sourced

(* A report of a client whose plugin this step does not change.            *)
LEMMA PluginReport ==
  ASSUME InstallInv, pc \in {"list", "execute", "verify"},
         NEW phase \in {"list", "execute"}, phase = "list" <=> pc = "list",
         NEW o \in ClientOutcomes \ {"none", "skipped"}, Report(Current, o, phase),
         UNCHANGED <<market, plugin, leaf, staging, backup, given, plans, observed>>,
         o \in {"ready", "planned", "absent"} => Untouched(Current),
         o = "removed" => plugin[Current] = "none",
         o = "applied" => /\ plugin[Current] # "none"
                          /\ meddled[Current] = 0 =>
                               \/ plugin[Current] = "fresh" \/ Current \in idle
                               \/ Unnoticed(Current) /\ market[Current] = "other"
  PROVE  InstallInv'
<1>1. /\ UNCHANGED <<market, plugin, leaf, staging, backup, order, found, skill, rooted, had>>
      /\ UNCHANGED <<plans, meddled, idle>>
      /\ order.asset = "plugin" /\ (phase = "list" <=> order.command = "list") /\ Typed
  BY DEF InstallInv, Phase, given, observed, Managing
<1>2. /\ Queue' /\ Reported(o) /\ Current \in Clients /\ InTodo(Current) /\ todo # << >>
      /\ outcome[Current] = "none"
      /\ \/ pc' = phase /\ exit' = "none"
         \/ pc' = "end" /\ exit' # "none"
  <2>1. pc \in Busy \ {"plan"} /\ phase \in Busy \ {"plan"}
    BY DEF Busy, Managing
  <2> QED
    BY <2>1, ReportLemma DEF InstallInv
<1>3. pc' \in {phase, "end"}
  BY <1>2
<1>4. Typed'
  BY <1>1, <1>2 DEF Typed, Busy, Managing, Reported
<1>5. Phase'
  BY <1>1, <1>2 DEF Phase, Busy, Managing, Replacing
<1>6. Sourced'
  BY <1>1 DEF InstallInv, Sourced
<1>7. ASSUME NEW c \in Clients PROVE Truth(c)' /\ Kept(c)'
  <2>1. Truth(c)'
    <3>1. CASE c = Current
      BY <1>1, <1>2, <3>1 DEF Truth, Untouched, Reported
    <3>2. CASE c # Current
      <4>1. outcome'[c] = outcome[c]
        BY <1>2, <3>2 DEF Reported
      <4> QED
        BY <1>1, <4>1 DEF InstallInv, Plugins, Truth, Untouched
    <3> QED
      BY <3>1, <3>2
  <2>2. Kept(c)'
    BY <1>1 DEF InstallInv, Plugins, Kept
  <2> QED
    BY <2>1, <2>2
<1>8. ASSUME NEW c \in Clients PROVE Waiting(c)'
  <2>1. /\ Waiting(c) /\ Untouched(c)' = Untouched(c) /\ OnlyShows' = OnlyShows
        /\ Planned(c)' = Planned(c)
        /\ InTodo(c)' => InTodo(c) /\ c # Current
    BY <1>1, <1>2 DEF InstallInv, Plugins, Untouched, OnlyShows, Planned, Headed, Reported
  <2>2. \/ pc' \in {"select", "list", "plan"} \/ OnlyShows
        \/ order.command = "list" \/ order.asset = "skill"
        => Untouched(c)
    BY <1>1, <1>3, <2>1 DEF Waiting
  <2>3. pc' \in {"execute", "verify"} => pc \in {"execute", "verify"}
    BY <1>3
  <2> QED
    BY <1>1, <1>3, <2>1, <2>2, <2>3 DEF Waiting
<1>9. Skills'
  BY <1>1, <1>3, SkillsAlone DEF Replacing
<1> QED
  BY <1>2, <1>4, <1>5, <1>6, <1>7, <1>8, <1>9 DEF InstallInv, Plugins

(* The steps that only report: what they say is so.                        *)
LEMMA ReportSteps ==
  /\ InstallInv
  /\ ListPlugin \/ ShowPlan \/ NotInstalled \/ ExecuteFails \/ Verify \/ VerifyFails
  => InstallInv'
<1> SUFFICES ASSUME InstallInv,
                    ListPlugin \/ ShowPlan \/ NotInstalled \/ ExecuteFails \/ Verify \/ VerifyFails
             PROVE  InstallInv'
  OBVIOUS
<1> USE DEF clients
<1>1. /\ {"installed", "absent", "ready", "planned", "failed", "removed", "applied"}
           \subseteq ClientOutcomes \ {"none", "skipped"}
      /\ pc \in {"list", "execute", "verify"} => /\ Current \in Clients /\ InTodo(Current) 
                                                 /\ Waiting(Current)
      /\ order.command \in {"check", "list", "apply", "remove"}
  <2>1. pc \in {"list", "execute", "verify"} => Current \in Clients /\ InTodo(Current)
    BY TailLemma DEF InstallInv, Typed, Queue, Busy, Managing, Current, InTodo, ClientOf
  <2> QED
    BY <2>1 DEF ClientOutcomes, InstallInv, Typed, OrderRecords, Plugins
<1>2. CASE ListPlugin
  BY <1>1, <1>2, PluginReport DEF ListPlugin, Waiting
<1>3. CASE ShowPlan
  BY <1>1, <1>3, PluginReport DEF ShowPlan, Waiting
<1>4. CASE NotInstalled
  BY <1>1, <1>4, PluginReport DEF NotInstalled, Waiting
<1>5. CASE ExecuteFails
  BY <1>1, <1>5, PluginReport DEF ExecuteFails
<1>6. CASE VerifyFails
  BY <1>1, <1>6, PluginReport DEF VerifyFails
<1>7. CASE Verify
  <2>1. pc = "verify" /\ plans[Current] = << >> /\ ~OnlyShows /\ order.command \in {"apply", "remove"}
    BY <1>1, <1>7 DEF Verify, InstallInv, Phase, OnlyShows, Managing
  <2>2. Report(Current, IF (plugin[Current] # "none") = (order.command = "remove") THEN "failed"
                        ELSE IF order.command = "remove" THEN "removed" ELSE "applied", "execute")
    BY <1>7 DEF Verify
  <2>3. CASE order.command = "remove"
    <3>1. plugin[Current] # "none" \/ plugin[Current] = "none"
      OBVIOUS
    <3> QED
      BY <1>1, <1>7, <2>1, <2>2, <2>3, PluginReport DEF Verify
  <2>4. CASE order.command = "apply"
    <3>1. Planned(Current) /\ Headed(Current)
      BY <1>1, <2>1, <2>4 DEF Waiting, Planned
    <3>2. Current \in {"claude", "codex", "grok"} /\ Sourced
      BY <1>1, <2>1 DEF Clients, InstallInv
    <3>3. plugin[Current] \in PluginStates
      BY <1>1, <2>1 DEF InstallInv, Typed
    <3>4. meddled[Current] = 0 /\ plugin[Current] # "none" =>
            \/ plugin[Current] = "fresh" \/ Current \in idle
            \/ Unnoticed(Current) /\ market[Current] = "other"
      <4>1. CASE Current = "claude"
        BY <2>1, <3>1, <3>2, <3>3, <4>1 DEF Headed, Sourced, PluginStates
      <4>2. CASE Current = "codex"
        BY <2>1, <3>1, <4>2 DEF Headed
      <4>3. CASE Current = "grok"
        BY <2>1, <3>1, <4>3 DEF Headed
      <4> QED
        BY <3>2, <4>1, <4>2, <4>3
    <3>5. CASE plugin[Current] = "none"
      BY <1>1, <1>7, <2>1, <2>2, <2>4, <3>5, PluginReport DEF Verify
    <3>6. CASE plugin[Current] # "none"
      BY <1>1, <1>7, <2>1, <2>2, <2>4, <3>4, <3>6, PluginReport DEF Verify
    <3> QED
      BY <3>5, <3>6
  <2> QED
    BY <2>1, <2>3, <2>4
<1> QED
  BY <1>2, <1>3, <1>4, <1>5, <1>6, <1>7

(* A plan has one command or two.                                          *)
LEMMA PairLemma ==
  ASSUME NEW a \in Commands, NEW b \in Commands
  PROVE  /\ <<a>> \in Seq(Commands) /\ <<a>> # << >> /\ Len(<<a>>) = 1
         /\ Head(<<a>>) = a /\ Tail(<<a>>) = << >>
         /\ <<a, b>> \in Seq(Commands) /\ <<a, b>> # << >> /\ Len(<<a, b>>) = 2
         /\ Head(<<a, b>>) = a /\ Tail(<<a, b>>) = <<b>>
  OBVIOUS

(* What is left of a plan once its first command is done is what may be    *)
(* left of a plan, and the command tells which.                            *)
LEMMA ShapesLemma ==
  /\ << >> \in ClaudePlans \cap CodexPlans \cap GrokPlans \cap RemovalPlans
  /\ \A p \in ClaudePlans \cup CodexPlans \cup GrokPlans \cup RemovalPlans :
       p \in Seq(Commands) /\ (p # << >> => (Len(p) = 1 <=> Tail(p) = << >>))
  /\ \A p \in ClaudePlans \ { << >> } :
       /\ Tail(p) \in ClaudePlans
       /\ IF Tail(p) = << >> THEN Head(p) \in {"install", "update"} ELSE Head(p) = "register"
  /\ \A p \in CodexPlans \ { << >> } :
       /\ Tail(p) \in CodexPlans
       /\ IF Tail(p) = << >> THEN Head(p) = "add" ELSE Head(p) = "register"
  /\ \A p \in GrokPlans \ { << >> } :
       /\ Tail(p) \in GrokPlans
       /\ IF Tail(p) = << >> THEN Head(p) \in {"install", "update"}
          ELSE Head(p) = "uninstall" /\ Head(Tail(p)) = "install"
  /\ \A p \in RemovalPlans \ { << >> } : Tail(p) = << >> /\ Head(p) = "uninstall"
<1> DEFINE Fact(p) == /\ p \in Seq(Commands) /\ p # << >> /\ (Len(p) = 1 <=> Tail(p) = << >>)
<1>1. /\ \A a \in Commands : Fact(<<a>>) /\ Head(<<a>>) = a /\ Tail(<<a>>) = << >>
      /\ \A a, b \in Commands : Fact(<<a, b>>) /\ Head(<<a, b>>) = a /\ Tail(<<a, b>>) = <<b>>
      /\ \A a \in Commands : <<a>> # << >>
  BY PairLemma
<1> HIDE DEF Fact
<1>2. /\ "register" \in Commands /\ "install" \in Commands /\ "update" \in Commands
      /\ "add" \in Commands /\ "uninstall" \in Commands
  BY DEF Commands
<1>3. \A p \in ClaudePlans \cup CodexPlans \cup GrokPlans \cup RemovalPlans : p = << >> \/ Fact(p)
  <2> SUFFICES ASSUME NEW p \in ClaudePlans \cup CodexPlans \cup GrokPlans \cup RemovalPlans
               PROVE  p = << >> \/ Fact(p)
    OBVIOUS
  <2>1. \/ p = << >>
        \/ \E a \in {"install", "update", "add", "uninstall"} : p = <<a>>
        \/ \E a \in {"install", "update", "add"} : p = <<"register", a>>
        \/ p = <<"uninstall", "install">>
    BY DEF ClaudePlans, CodexPlans, GrokPlans, RemovalPlans
  <2>2. ASSUME NEW a \in {"install", "update", "add", "uninstall"}, p = <<a>> PROVE Fact(p)
    <3>1. Fact(<<a>>)
      BY <1>1, <1>2
    <3> QED
      BY <2>2, <3>1
  <2>3. ASSUME NEW a \in {"install", "update", "add"}, p = <<"register", a>> PROVE Fact(p)
    <3>1. Fact(<<"register", a>>)
      BY <1>1, <1>2
    <3> QED
      BY <2>3, <3>1
  <2>4. ASSUME p = <<"uninstall", "install">> PROVE Fact(p)
    <3>1. Fact(<<"uninstall", "install">>)
      BY <1>1, <1>2
    <3> QED
      BY <2>4, <3>1
  <2> QED
    BY <2>1, <2>2, <2>3, <2>4
<1>4. << >> \in Seq(Commands)
  OBVIOUS
<1>5. ASSUME NEW p \in ClaudePlans \ { << >> }
      PROVE  /\ Tail(p) \in ClaudePlans
             /\ IF Tail(p) = << >> THEN Head(p) \in {"install", "update"} ELSE Head(p) = "register"
  <2>1. PICK a \in {"install", "update"} : p = <<a>> \/ p = <<"register", a>>
    BY DEF ClaudePlans
  <2>2. CASE p = <<a>>
    <3>1. Tail(p) = << >> /\ Head(p) = a
      BY <1>1, <1>2, <2>2
    <3> QED
      BY <3>1 DEF ClaudePlans
  <2>3. CASE p = <<"register", a>>
    <3>1. Tail(p) = <<a>> /\ <<a>> # << >> /\ Head(p) = "register"
      BY <1>1, <1>2, <2>3
    <3> QED
      BY <3>1 DEF ClaudePlans
  <2> QED
    BY <2>1, <2>2, <2>3
<1>6. ASSUME NEW p \in CodexPlans \ { << >> }
      PROVE  /\ Tail(p) \in CodexPlans
             /\ IF Tail(p) = << >> THEN Head(p) = "add" ELSE Head(p) = "register"
  <2>1. CASE p = <<"add">>
    <3>1. Tail(p) = << >> /\ Head(p) = "add"
      BY <1>1, <1>2, <2>1
    <3> QED
      BY <3>1 DEF CodexPlans
  <2>2. CASE p = <<"register", "add">>
    <3>1. Tail(p) = <<"add">> /\ <<"add">> # << >> /\ Head(p) = "register"
      BY <1>1, <1>2, <2>2
    <3> QED
      BY <3>1 DEF CodexPlans
  <2> QED
    BY <2>1, <2>2 DEF CodexPlans
<1>7. ASSUME NEW p \in GrokPlans \ { << >> }
      PROVE  /\ Tail(p) \in GrokPlans
             /\ IF Tail(p) = << >> THEN Head(p) \in {"install", "update"}
                ELSE Head(p) = "uninstall" /\ Head(Tail(p)) = "install"
  <2>1. CASE p = <<"install">> \/ p = <<"update">>
    <3>1. Tail(p) = << >> /\ Head(p) \in {"install", "update"}
      BY <1>1, <1>2, <2>1
    <3> QED
      BY <3>1 DEF GrokPlans
  <2>2. CASE p = <<"uninstall", "install">>
    <3>1. Tail(p) = <<"install">> /\ <<"install">> # << >> /\ Head(p) = "uninstall"
            /\ Head(<<"install">>) = "install"
      BY <1>1, <1>2, <2>2
    <3> QED
      BY <3>1 DEF GrokPlans
  <2> QED
    BY <2>1, <2>2 DEF GrokPlans
<1>8. \A p \in RemovalPlans \ { << >> } : Tail(p) = << >> /\ Head(p) = "uninstall"
  BY <1>1, <1>2 DEF RemovalPlans
<1>9. << >> \in ClaudePlans \cap CodexPlans \cap GrokPlans \cap RemovalPlans
  BY DEF ClaudePlans, CodexPlans, GrokPlans, RemovalPlans
<1> QED
  BY <1>3, <1>4, <1>5, <1>6, <1>7, <1>8, <1>9 DEF Fact

(* plan_claude, plan_codex, plan_grok and plan_plugin_removal: the plan    *)
(* leads from what the client has to what it is to have.                   *)
LEMMA PlanStep == InstallInv /\ PlanClient => InstallInv'
<1> SUFFICES ASSUME InstallInv, PlanClient PROVE InstallInv'
  OBVIOUS
<1>1. /\ UNCHANGED <<market, plugin, leaf, staging, backup, order, found, skill, rooted, had>>
      /\ UNCHANGED <<outcome, exit, meddled, idle>>
      /\ pc = "plan" /\ ~Refused(Current) /\ plans' = [plans EXCEPT ![Current] = Plan(Current)]
      /\ order.asset = "plugin" /\ order.command \in {"check", "apply", "remove"} /\ Typed
      /\ todo # << >> /\ NoneTwice(todo)
  BY DEF InstallInv, Phase, Queue, Busy, Managing, PlanClient, clients, given, observed, Typed,
         OrderRecords
<1>2. /\ Current \in Clients /\ InTodo(Current)
      /\ Tail(todo) \in Seq(Clients) /\ NoneTwice(Tail(todo))
      /\ \A c \in Clients : ClientOf(Tail(todo), c) <=> InTodo(c) /\ c # Current
      /\ Len(todo) > 1 <=> Tail(todo) # << >>
  BY <1>1, TailLemma DEF Typed, Current, InTodo, ClientOf
<1>3. \/ pc' = "plan" /\ todo' = Tail(todo) /\ todo' # << >>
      \/ pc' = "execute" /\ todo' = InstallTargets /\ Tail(todo) = << >>
  BY <1>1, <1>2 DEF PlanClient
<1>4. /\ \A c \in Clients : /\ outcome[c] \in {"none", "skipped"} /\ IsTarget(c)' = IsTarget(c)
                            /\ IsTarget(c) => outcome[c] = "none"
      /\ IsTarget(Current)
  BY <1>1, <1>2 DEF InstallInv, Queue, Busy, Managing, IsTarget, Requested
<1>5. /\ todo' \in Seq(Clients) /\ NoneTwice(todo')
      /\ pc' = "plan" => \A c \in Clients : InTodo(c)' <=> InTodo(c) /\ c # Current
      /\ pc' = "execute" => \A c \in Clients : /\ InTodo(c)' <=> IsTarget(c)
                                               /\ InTodo(c) => c = Current
  <2>1. CASE pc' = "plan"
    BY <1>2, <1>3, <2>1 DEF InTodo, ClientOf
  <2>2. CASE pc' = "execute"
    <3>1. \A c \in Clients : ~ClientOf(<< >>, c)
      BY DEF ClientOf
    <3>2. \A c \in Clients : InTodo(c)' <=> ClientOf(InstallTargets, c)
      BY <1>3, <2>2 DEF InTodo, ClientOf
    <3> QED
      BY <1>2, <1>3, <2>2, <3>1, <3>2, InstallTargetsLemma
  <2> QED
    BY <1>3, <2>1, <2>2
<1>6. PICK me \in Clients : me = Current
  BY <1>2
<1> DEFINE p == Plan(me)
<1>7. /\ order.command = "remove" => p \in RemovalPlans
      /\ order.command # "remove" =>
           /\ p # << >>
           /\ me = "claude" => p \in ClaudePlans
           /\ me = "codex" => p \in CodexPlans
           /\ me = "grok" =>
                /\ p \in GrokPlans
                /\ Head(p) = "update" => plugin[me] # "other"
                /\ Head(p) = "uninstall" => plugin[me] = "other"
  <2>1. me \in {"claude", "codex", "grok"} /\ plugin[me] \in PluginStates
    BY <1>1 DEF Clients, Typed
  <2>2. CASE order.command = "remove"
    BY <2>2 DEF Plan, PlanRemove, RemovalPlans
  <2>3. CASE order.command # "remove" /\ me = "claude"
    <3>1. p = PlanClaude
      BY <2>3 DEF Plan, PlanApply
    <3>2. PlanClaude \in
            {<<"register", "install">>, <<"register", "update">>, <<"install">>, <<"update">>}
      BY DEF PlanClaude
    <3>3. PlanClaude # << >>
      BY <3>2
    <3>4. PlanClaude \in ClaudePlans
      BY <3>2 DEF ClaudePlans
    <3> QED
      BY <2>3, <3>1, <3>3, <3>4
  <2>4. CASE order.command # "remove" /\ me = "codex"
    <3>1. p = PlanCodex
      BY <2>4 DEF Plan, PlanApply
    <3>2. PlanCodex \in {<<"register", "add">>, <<"add">>}
      BY DEF PlanCodex
    <3>3. PlanCodex # << >> /\ PlanCodex \in CodexPlans
      BY <3>2 DEF CodexPlans
    <3> QED
      BY <2>4, <3>1, <3>3
  <2>5. CASE order.command # "remove" /\ me = "grok"
    <3>1. /\ Plan(me) = PlanGrok
          /\ \/ plugin[me] = "none" /\ PlanGrok = <<"install">>
             \/ plugin[me] \in {"stale", "fresh"} /\ PlanGrok = <<"update">>
             \/ plugin[me] = "other" /\ PlanGrok = <<"uninstall", "install">>
      BY <2>1, <2>5 DEF Plan, PlanApply, PlanGrok, PluginStates
    <3>2. /\ Head(<<"install">>) = "install" /\ Head(<<"update">>) = "update"
          /\ Head(<<"uninstall", "install">>) = "uninstall"
          /\ <<"install">> # << >> /\ <<"update">> # << >> /\ <<"uninstall", "install">> # << >>
      BY PairLemma DEF Commands
    <3>3. PlanGrok \in GrokPlans
      BY <3>1 DEF GrokPlans
    <3> QED
      BY <2>5, <3>1, <3>2, <3>3
  <2> QED
    BY <2>1, <2>2, <2>3, <2>4, <2>5
<1> HIDE DEF p
<1>8. /\ plans' = [plans EXCEPT ![me] = p] /\ ~Refused(me)
      /\ me \in {"claude", "codex", "grok"}
      /\ p \in Seq(Commands)
  <2>1. me \in {"claude", "codex", "grok"}
    BY DEF Clients
  <2> QED
    BY <1>1, <1>6, <1>7, <2>1, ShapesLemma DEF p
<1>9. /\ plans' \in [Clients -> Seq(Commands)] /\ plans'[me] = p
      /\ \A c \in Clients \ {me} : plans'[c] = plans[c]
  <2>1. plans \in [Clients -> Seq(Commands)]
    BY <1>1 DEF Typed
  <2>2. p \in Seq(Commands) /\ plans' = [plans EXCEPT ![me] = p]
    BY <1>8
  <2> QED
    BY ONLY <2>1, <2>2, me \in Clients
<1>10. \A c \in Clients : Untouched(c)
  BY <1>1 DEF InstallInv, Plugins, Waiting
<1>11. Planned(me)'
  <2>1. order.command = "remove" => plans'[me] \in RemovalPlans
    BY <1>7, <1>9
  <2>2. ASSUME order.command # "remove" PROVE Headed(me)'
    <3>1. CASE me = "claude"
      <4>1. Headed("claude")'
        BY <1>7, <1>9, <2>2, <3>1 DEF Headed
      <4> QED
        BY <1>1, <3>1, <4>1 DEF Headed
    <3>2. CASE me = "codex"
      BY <1>1, <1>7, <1>8, <1>9, <2>2, <3>2 DEF Headed, Refused
    <3>3. CASE me = "grok"
      BY <1>1, <1>7, <1>9, <1>10, <2>2, <3>3 DEF Headed, Untouched
    <3> QED
      BY <1>8, <3>1, <3>2, <3>3
  <2> QED
    BY <1>1, <2>1, <2>2 DEF Planned
<1>12. \A c \in Clients \ {me} : Planned(c) => Planned(c)'
  BY <1>1, <1>9 DEF Planned, Headed
<1>13. Typed'
  BY <1>1, <1>3, <1>5, <1>9 DEF Typed, Busy, Managing
<1>14. Phase'
  BY <1>1, <1>3 DEF Phase, Busy, Managing, Replacing
<1>15. Queue'
  <2>1. todo' # << >>
    <3>1. pc' = "execute" => InTodo(me)'
      BY <1>2, <1>4, <1>5, <1>6
    <3> QED
      BY <1>3, <3>1 DEF InTodo
  <2> QED
    BY <1>1, <1>3, <1>4, <1>5, <2>1 DEF InstallInv, Queue, Busy, Managing, Replacing, Missing,
                                        Explicit, Requested, Typed
<1>16. Plugins'
  <2> SUFFICES ASSUME NEW c \in Clients PROVE Waiting(c)' /\ Truth(c)' /\ Kept(c)'
    BY DEF Plugins
  <2>1. Untouched(c)'
    BY <1>1, <1>10 DEF Untouched
  <2>2. Truth(c)' /\ Kept(c)'
    BY <1>1, <2>1 DEF InstallInv, Plugins, Truth, Kept, Untouched
  <2>3. IsTarget(c) /\ (pc' = "plan" => ~InTodo(c)') => Planned(c)'
    BY <1>1, <1>3, <1>4, <1>5, <1>6, <1>11, <1>12 DEF InstallInv, Plugins, Waiting
  <2> QED
    BY <1>3, <1>4, <1>5, <2>1, <2>2, <2>3 DEF Waiting
<1>17. Skills'
  BY <1>1, <1>3, SkillsAlone DEF Replacing
<1> QED
  BY <1>1, <1>13, <1>14, <1>15, <1>16, <1>17 DEF InstallInv, Sourced

(* What a user changes in a client is the user's.                          *)
LEMMA MeddleStep ==
  ASSUME InstallInv, NEW c \in Clients, Meddle(c)
  PROVE  InstallInv'
<1>1. /\ UNCHANGED <<leaf, staging, backup, order, found, skill, rooted, had>>
      /\ UNCHANGED <<pc, todo, plans, outcome, exit, idle>>
      /\ meddled' = [meddled EXCEPT ![c] = @ + 1] /\ pc \in Managing
      /\ \/ plugin' = [plugin EXCEPT ![c] = "none"] /\ market' = market
         \/ /\ plugin' = [plugin EXCEPT ![c] = "other"]
            /\ market' = IF c = "grok" THEN market ELSE [market EXCEPT ![c] = "other"]
      /\ Typed /\ order.asset = "plugin"
  BY DEF Meddle, given, script, InstallInv, Phase, Managing
<1>2. /\ meddled' \in [Clients -> Nat] /\ meddled'[c] # 0
      /\ market' \in [Clients -> Markets] /\ plugin' \in [Clients -> PluginStates]
      /\ \A d \in Clients \ {c} : /\ meddled'[d] = meddled[d] /\ market'[d] = market[d]
                                  /\ plugin'[d] = plugin[d]
      /\ c = "grok" => market'[c] = market[c]
      /\ c # "grok" => plugin'[c] = "none" \/ (plugin'[c] = "other" /\ market'[c] = "other")
  <2>1. /\ meddled \in [Clients -> Nat] /\ market \in [Clients -> Markets]
        /\ plugin \in [Clients -> PluginStates]
        /\ "none" \in PluginStates /\ "other" \in PluginStates /\ "other" \in Markets
    BY <1>1 DEF Typed, Markets, PluginStates
  <2>2. /\ meddled' \in [Clients -> Nat] /\ meddled'[c] # 0
        /\ \A d \in Clients \ {c} : meddled'[d] = meddled[d]
    <3>1. meddled[c] \in Nat /\ meddled[c] + 1 \in Nat /\ meddled[c] + 1 # 0
      BY <2>1
    <3> QED
      BY <1>1, <2>1, <3>1
  <2>3. /\ plugin' \in [Clients -> PluginStates]
        /\ \A d \in Clients \ {c} : plugin'[d] = plugin[d]
        /\ plugin'[c] \in {"none", "other"}
    BY <1>1, <2>1
  <2>4. /\ market' \in [Clients -> Markets]
        /\ \A d \in Clients \ {c} : market'[d] = market[d]
        /\ c = "grok" => market'[c] = market[c]
    BY <1>1, <2>1
  <2>5. c # "grok" => plugin'[c] = "none" \/ (plugin'[c] = "other" /\ market'[c] = "other")
    BY <1>1, <2>1
  <2> QED
    BY <2>2, <2>3, <2>4, <2>5
<1>3. Typed'
  BY <1>1, <1>2 DEF Typed
<1>4. Phase' /\ Queue'
  BY <1>1 DEF InstallInv, Phase, Queue, Current, OnlyShows, InTodo, IsTarget, Requested,
              Missing, Explicit
<1>5. Sourced'
  BY <1>2 DEF InstallInv, Sourced, Clients
<1>6. ASSUME NEW d \in Clients PROVE Waiting(d)' /\ Truth(d)' /\ Kept(d)'
  <2>1. Planned(d) => Planned(d)'
    <3>1. CASE d = c
      BY <1>1, <1>2, <3>1 DEF Planned, Headed, Clients
    <3>2. CASE d # c
      BY <1>1, <1>2, <3>2 DEF Planned, Headed, Clients
    <3> QED
      BY <3>1, <3>2
  <2>2. Untouched(d) => Untouched(d)'
    BY <1>1, <1>2 DEF Untouched
  <2>3. Waiting(d)'
    BY <1>1, <2>1, <2>2 DEF InstallInv, Plugins, Waiting, InTodo, Current, OnlyShows, IsTarget,
                            Requested
  <2> QED
    BY <1>1, <1>2, <2>2, <2>3 DEF InstallInv, Plugins, Truth, Kept
<1>7. Skills'
  BY <1>1, SkillsAlone DEF Managing, Replacing
<1> QED
  BY <1>3, <1>4, <1>5, <1>6, <1>7 DEF InstallInv, Plugins

(* A command that took effect, of the client that was come to: the plan    *)
(* has made sure that it brings the client nearer.                         *)
LEMMA RunLemma ==
  ASSUME InstallInv, RunCommand, NEW me \in Clients, me = Current,
         UNCHANGED <<order, had, meddled>>
  PROVE  /\ market' \in [Clients -> Markets] /\ plugin' \in [Clients -> PluginStates]
         /\ \A c \in Clients \ {me} : market'[c] = market[c] /\ plugin'[c] = plugin[c]
         /\ Sourced' /\ Kept(me)'
         /\ order.command = "apply" /\ Tail(plans[me]) = << >> =>
              /\ me = "claude" => plugin'[me] # "stale"
              /\ me = "codex" => plugin'[me] = "fresh" \/ market'[me] = "other"
              /\ me = "grok" /\ meddled[me] = 0 /\ me \notin idle => plugin'[me] = "fresh"
         /\ me = "codex" => (market[me] # "other" => market'[me] # "other")
<1> DEFINE command == Head(plans[me])
<1>1. /\ Typed /\ Sourced /\ Planned(me) /\ Kept(me)
      /\ pc = "execute" /\ ~OnlyShows /\ order.asset = "plugin"
      /\ order.command \in {"apply", "remove"} /\ plans[me] # << >>
      /\ me \in {"claude", "codex", "grok"}
      /\ market[me] \in Markets /\ plugin[me] \in PluginStates /\ market["grok"] = "none"
  <2>1. InTodo(me) /\ Typed
    BY TailLemma DEF RunCommand, InstallInv, Typed, Queue, Busy, Managing, Current, InTodo,
                     ClientOf
  <2>2. order.command # "list"
    BY DEF RunCommand, InstallInv, Phase, Managing
  <2> QED
    BY <2>1, <2>2 DEF RunCommand, InstallInv, Plugins, Waiting, Phase, Managing, OnlyShows,
                      Typed,
                      OrderRecords, Clients, Sourced
<1>2. /\ Accepted(me, command)
      /\ market' = IF command = "register" THEN [market EXCEPT ![me] = "ours"] ELSE market
      /\ plugin' = [plugin EXCEPT ![me] = NewPlugin(me, command)]
  BY DEF RunCommand
<1>3. \/ order.command = "remove" /\ command = "uninstall"
      \/ /\ order.command = "apply" /\ me = "claude"
         /\ IF Tail(plans[me]) = << >> THEN command \in {"install", "update"} ELSE command = "register"
      \/ /\ order.command = "apply" /\ me = "codex"
         /\ IF Tail(plans[me]) = << >> THEN command = "add" ELSE command = "register"
      \/ /\ order.command = "apply" /\ me = "grok"
         /\ \/ command = "install"
            \/ command = "update" /\ (meddled[me] = 0 /\ me \notin idle => plugin[me] # "other")
            \/ /\ command = "uninstall" /\ Tail(plans[me]) # << >>
               /\ meddled[me] = 0 => had.plugin[me] = "other"
  <2>1. CASE order.command = "remove"
    BY <1>1, <2>1, ShapesLemma DEF Planned
  <2>2. CASE order.command = "apply" /\ me = "claude"
    <3>1. plans[me] \in ClaudePlans
      BY <1>1, <2>2 DEF Planned, Headed
    <3> QED
      BY <1>1, <2>2, <3>1, ShapesLemma
  <2>3. CASE order.command = "apply" /\ me = "codex"
    <3>1. plans[me] \in CodexPlans
      BY <1>1, <2>3 DEF Planned, Headed
    <3> QED
      BY <1>1, <2>3, <3>1, ShapesLemma
  <2>4. CASE order.command = "apply" /\ me = "grok"
    <3>1. /\ plans[me] \in GrokPlans
          /\ meddled[me] = 0 /\ command = "uninstall" => had.plugin[me] = "other"
          /\ meddled[me] = 0 /\ me \notin idle /\ command = "update" => plugin[me] # "other"
      BY <1>1, <2>4 DEF Planned, Headed
    <3>2. IF Tail(plans[me]) = << >> THEN command \in {"install", "update"}
          ELSE command = "uninstall"
      BY <1>1, <3>1, ShapesLemma
    <3> QED
      BY <2>4, <3>1, <3>2
  <2> QED
    BY <1>1, <2>1, <2>2, <2>3, <2>4
<1> HIDE DEF command
<1>4. /\ market[me] \in {"none", "ours", "other"} /\ plugin[me] \in {"none", "stale", "fresh", "other"}
      /\ me # "grok" /\ plugin[me] # "none" =>
           market[me] = IF plugin[me] = "other" THEN "other" ELSE "ours"
  BY <1>1 DEF Markets, PluginStates, Sourced
<1> DEFINE m == IF command = "register" THEN "ours" ELSE market[me]
           p == NewPlugin(me, command)
<1>5. /\ market' \in [Clients -> Markets] /\ plugin' \in [Clients -> PluginStates]
      /\ \A c \in Clients \ {me} : market'[c] = market[c] /\ plugin'[c] = plugin[c]
      /\ market'[me] = m /\ plugin'[me] = p
  <2>1. "ours" \in Markets /\ p \in PluginStates
    BY <1>3, <1>4 DEF NewPlugin, FromMarket, Markets, PluginStates
  <2>2. market \in [Clients -> Markets] /\ plugin \in [Clients -> PluginStates]
    BY <1>1 DEF Typed
  <2>3. /\ plugin' \in [Clients -> PluginStates] /\ plugin'[me] = p
        /\ \A c \in Clients \ {me} : plugin'[c] = plugin[c]
    <3> HIDE DEF p
    <3>1. plugin' = [plugin EXCEPT ![me] = p]
      BY <1>2 DEF p
    <3> QED
      BY <2>1, <2>2, <3>1
  <2>4. /\ market' \in [Clients -> Markets] /\ market'[me] = m
        /\ \A c \in Clients \ {me} : market'[c] = market[c]
    BY <1>2, <2>1, <2>2
  <2> QED
    BY <2>3, <2>4
<1>6. /\ me = "grok" => m = "none"
      /\ me # "grok" /\ p # "none" => m = IF p = "other" THEN "other" ELSE "ours"
      /\ order.command = "apply" /\ Tail(plans[me]) = << >> =>
           /\ me = "claude" => p # "stale"
           /\ me = "codex" => p = "fresh" \/ m = "other"
           /\ me = "grok" /\ meddled[me] = 0 /\ me \notin idle => p = "fresh"
      /\ me = "codex" => (market[me] # "other" => m # "other")
      /\ order.command = "apply" /\ meddled[me] = 0 /\ p = "none" /\ plugin[me] # "none" =>
           me = "grok" /\ had.plugin[me] = "other"
  <2>1. CASE command = "register"
    BY <1>1, <1>2, <1>3, <1>4, <2>1 DEF Accepted, NewPlugin
  <2>2. CASE command = "install"
    BY <1>1, <1>2, <1>3, <1>4, <2>2 DEF Accepted, NewPlugin, FromMarket
  <2>3. CASE command = "add"
    BY <1>1, <1>2, <1>3, <1>4, <2>3 DEF Accepted, NewPlugin, FromMarket
  <2>4. CASE command = "update"
    BY <1>1, <1>2, <1>3, <1>4, <2>4 DEF Accepted, NewPlugin
  <2>5. CASE command = "uninstall"
    BY <1>1, <1>2, <1>3, <1>4, <2>5 DEF Accepted, NewPlugin
  <2> QED
    BY <1>3, <2>1, <2>2, <2>3, <2>4, <2>5
<1> HIDE DEF m, p
<1>7. Sourced'
  <2>1. market'["grok"] = "none"
    BY <1>1, <1>5, <1>6 DEF Clients
  <2>2. ASSUME NEW c \in {"claude", "codex"}, plugin'[c] # "none"
        PROVE  market'[c] = IF plugin'[c] = "other" THEN "other" ELSE "ours"
    <3>1. CASE c = me
      BY <1>5, <1>6, <2>2, <3>1
    <3>2. CASE c # me
      BY <1>1, <1>5, <2>2, <3>2 DEF Sourced, Clients
    <3> QED
      BY <3>1, <3>2
  <2> QED
    BY <2>1, <2>2 DEF Sourced
<1>8. Kept(me)'
  BY <1>1, <1>5, <1>6 DEF Kept
<1> QED
  BY <1>5, <1>6, <1>7, <1>8

(* A command of a plan is done, or was said to be done.                    *)
LEMMA CommandLemma ==
  ASSUME InstallInv, pc = "execute", ~OnlyShows,
         NEW me \in Clients, me = Current, plans[me] # << >>,
         UNCHANGED <<leaf, staging, backup, order, found, skill, rooted, had, todo, outcome, exit, meddled>>,
         plans' = [plans EXCEPT ![me] = Tail(@)],
         pc' = IF Len(plans[me]) = 1 THEN "verify" ELSE "execute",
         market' \in [Clients -> Markets], plugin' \in [Clients -> PluginStates],
         \A c \in Clients \ {me} : market'[c] = market[c] /\ plugin'[c] = plugin[c],
         idle' = idle \/ idle' = idle \cup {me}, Sourced', Kept(me)',
         me = "codex" => (market[me] # "other" => market'[me] # "other"),
         order.command = "apply" /\ Tail(plans[me]) = << >> =>
           /\ me = "claude" /\ me \notin idle' => plugin'[me] # "stale"
           /\ me = "codex" /\ meddled[me] = 0 /\ me \notin idle' =>
                plugin'[me] = "fresh" \/ market'[me] = "other"
           /\ me = "grok" /\ meddled[me] = 0 /\ me \notin idle' => plugin'[me] = "fresh"
  PROVE  InstallInv'
<1>1. /\ Typed /\ Planned(me) /\ order.asset = "plugin" /\ InTodo(me)
      /\ order.command \in {"apply", "remove"} /\ me \in {"claude", "codex", "grok"}
  <2>1. InTodo(me) /\ Typed
    BY TailLemma DEF InstallInv, Typed, Queue, Busy, Managing, Current, InTodo, ClientOf
  <2> QED
    BY <2>1 DEF InstallInv, Plugins, Waiting, Phase, Managing, OnlyShows, Typed, OrderRecords,
                Clients
<1>2. /\ order.command = "remove" => Tail(plans[me]) = << >>
      /\ Tail(plans[me]) \in Seq(Commands) /\ (Len(plans[me]) = 1 <=> Tail(plans[me]) = << >>)
      /\ order.command = "apply" =>
           /\ me = "claude" => Tail(plans[me]) \in ClaudePlans
           /\ me = "codex" => Tail(plans[me]) \in CodexPlans
           /\ me = "grok" => /\ Tail(plans[me]) \in GrokPlans
                             /\ Tail(plans[me]) # << >> => Head(Tail(plans[me])) = "install"
  <2>1. order.command = "remove" => plans[me] \in RemovalPlans
    BY <1>1 DEF Planned
  <2>2. order.command = "apply" => /\ me = "claude" => plans[me] \in ClaudePlans
                                   /\ me = "codex" => plans[me] \in CodexPlans
                                   /\ me = "grok" => plans[me] \in GrokPlans
    BY <1>1 DEF Planned, Headed
  <2>3. plans[me] \in ClaudePlans \cup CodexPlans \cup GrokPlans \cup RemovalPlans
    BY <1>1, <2>1, <2>2
  <2>4. plans[me] \in Seq(Commands) /\ Tail(plans[me]) \in Seq(Commands)
    BY <1>1 DEF Typed
  <2> QED
    BY <1>1, <2>1, <2>2, <2>3, <2>4, ShapesLemma
<1> DEFINE rest == Tail(plans[me])
<1>3. /\ plans' \in [Clients -> Seq(Commands)] /\ plans'[me] = rest
      /\ \A c \in Clients \ {me} : plans'[c] = plans[c]
  <2>1. plans \in [Clients -> Seq(Commands)] /\ rest \in Seq(Commands)
    BY <1>1, <1>2 DEF Typed
  <2>2. plans' = [plans EXCEPT ![me] = rest]
    OBVIOUS
  <2> HIDE DEF rest
  <2> QED
    BY ONLY <2>1, <2>2, me \in Clients
<1>4. /\ rest = << >> => pc' = "verify"
      /\ rest # << >> => pc' = "execute" /\ order.command = "apply"
  BY <1>1, <1>2
<1>5. Typed'
  <2>1. idle' \subseteq Clients
    BY <1>1 DEF Typed
  <2> QED
    BY <1>1, <1>3, <1>4, <2>1 DEF Typed, Busy, Managing
<1>6. Phase'
  <2>1. plans'[Current'] = rest
    BY <1>3 DEF Current
  <2> QED
    BY <1>1, <1>4, <2>1 DEF Phase, OnlyShows, Managing, Replacing
<1>7. Queue'
  BY <1>4 DEF InstallInv, Queue, Busy, Managing, Replacing, InTodo, IsTarget, Requested,
              Missing, Explicit
<1>8. Planned(me)'
  <2>1. CASE order.command = "remove"
    BY <1>2, <1>3, <2>1, ShapesLemma DEF Planned
  <2>2. CASE order.command = "apply"
    <3>1. Headed(me)
      BY <1>1, <2>2 DEF Planned
    <3>2. Headed(me)'
      <4>1. CASE me = "claude"
        BY <1>2, <1>3, <2>2, <4>1 DEF Headed
      <4>2. CASE me = "codex"
        BY <1>2, <1>3, <2>2, <3>1, <4>2 DEF Headed
      <4>3. CASE me = "grok"
        BY <1>2, <1>3, <2>2, <4>3 DEF Headed
      <4> QED
        BY <1>1, <4>1, <4>2, <4>3
    <3> QED
      BY <2>2, <3>2 DEF Planned
  <2> QED
    BY <1>1, <2>1, <2>2
<1>9. ASSUME NEW c \in Clients PROVE Waiting(c)' /\ Truth(c)' /\ Kept(c)'
  <2>1. CASE c = me
    <3>1. Waiting(c)'
      BY <1>1, <1>4, <1>8, <2>1 DEF Waiting, OnlyShows, Current
    <3>2. outcome'[c] = "none"
      BY <1>1, <2>1 DEF InstallInv, Queue, Busy, Managing
    <3> QED
      BY <2>1, <3>1, <3>2 DEF Truth
  <2>2. CASE c # me
    <3>1. Planned(c) => Planned(c)'
      BY <1>3, <2>2 DEF Planned, Headed
    <3>2. Untouched(c) => Untouched(c)'
      BY <2>2 DEF Untouched
    <3>3. Truth(c)' /\ Kept(c)'
      BY <2>2, <3>2 DEF InstallInv, Plugins, Truth, Kept
    <3>4. Waiting(c)'
      BY <1>1, <1>4, <2>2, <3>1, <3>2 DEF InstallInv, Plugins, Waiting, OnlyShows, InTodo,
                                          Current
    <3> QED
      BY <3>3, <3>4
  <2> QED
    BY <2>1, <2>2
<1>10. Skills'
  BY <1>1, <1>4, SkillsAlone DEF Replacing
<1> QED
  BY <1>5, <1>6, <1>7, <1>9, <1>10 DEF InstallInv, Plugins

(* execute_plugin_apply and execute_plugin_removal.                        *)
LEMMA ExecuteSteps == InstallInv /\ (Execute \/ ExecuteIdly \/ ExecuteTimesOut) => InstallInv'
<1> SUFFICES ASSUME InstallInv, Execute \/ ExecuteIdly \/ ExecuteTimesOut PROVE InstallInv'
  OBVIOUS
<1>1. /\ pc = "execute" /\ ~OnlyShows /\ plans[Current] # << >> /\ todo # << >>
      /\ UNCHANGED <<leaf, staging, backup, order, found, skill, rooted, had, meddled>>
      /\ Current \in Clients /\ InTodo(Current) /\ outcome[Current] = "none"
      /\ order.asset = "plugin" /\ order.command \in {"apply", "remove"} /\ Typed
  <2>1. /\ pc = "execute" /\ ~OnlyShows /\ plans[Current] # << >>
        /\ UNCHANGED <<leaf, staging, backup, order, found, skill, rooted, had, meddled>>
    BY DEF Execute, ExecuteIdly, ExecuteTimesOut, RunCommand, given, clients, observed
  <2>2. Current \in Clients /\ InTodo(Current) /\ Typed /\ todo # << >>
    BY <2>1, TailLemma DEF InstallInv, Typed, Queue, Busy, Managing, Current, InTodo, ClientOf
  <2> QED
    BY <2>1, <2>2 DEF InstallInv, Queue, Phase, Busy, Managing, OnlyShows, Typed, OrderRecords
<1>2. PICK me \in Clients : me = Current
  BY <1>1
<1>3. CASE Execute
  <2>1. /\ RunCommand /\ plans' = [plans EXCEPT ![me] = Tail(@)] /\ idle' = idle
        /\ pc' = IF Len(plans[me]) = 1 THEN "verify" ELSE "execute"
        /\ UNCHANGED <<todo, outcome, exit>>
    BY <1>2, <1>3 DEF Execute, observed
  <2> HIDE DEF OnlyShows
  <2> QED
    BY <1>1, <1>2, <2>1, RunLemma, CommandLemma
<1>4. CASE ExecuteIdly
  <2>1. /\ market' = market /\ plugin' = plugin /\ plans' = [plans EXCEPT ![me] = Tail(@)]
        /\ pc' = IF Len(plans[me]) = 1 THEN "verify" ELSE "execute"
        /\ UNCHANGED <<todo, outcome, exit>> /\ idle' = idle \cup {me}
    BY <1>2, <1>4 DEF ExecuteIdly, clients
  <2>2. /\ market' \in [Clients -> Markets] /\ plugin' \in [Clients -> PluginStates]
        /\ Sourced' /\ Kept(me)'
    BY <1>1, <2>1 DEF InstallInv, Typed, Sourced, Plugins, Kept
  <2> QED
    BY <1>1, <1>2, <2>1, <2>2, CommandLemma
<1>5. CASE ExecuteTimesOut
  <2>1. /\ RunCommand /\ Report(Current, "failed", "execute")
        /\ plans' = plans /\ idle' = idle /\ UNCHANGED given
    BY <1>5 DEF ExecuteTimesOut, observed
  <2>2. /\ market' \in [Clients -> Markets] /\ plugin' \in [Clients -> PluginStates]
        /\ \A c \in Clients \ {me} : market'[c] = market[c] /\ plugin'[c] = plugin[c]
        /\ Sourced' /\ Kept(me)'
    BY <1>1, <1>2, <2>1, RunLemma
  <2>3. /\ Queue' /\ Reported("failed")
        /\ \/ pc' = "execute" /\ exit' = "none"
           \/ pc' = "end" /\ exit' # "none"
    <3>1. /\ pc \in Busy \ {"plan"} /\ "execute" \in Busy \ {"plan"}
          /\ "failed" \in ClientOutcomes \ {"none", "skipped"}
      BY <1>1 DEF Busy, Managing, ClientOutcomes
    <3> QED
      BY <2>1, <3>1, ReportLemma DEF InstallInv
  <2>4. Typed'
    BY <1>1, <2>1, <2>2, <2>3 DEF Typed, Busy, Managing, Reported
  <2>5. Phase'
    BY <1>1, <2>3 DEF Phase, Busy, Managing, Replacing
  <2>6. ASSUME NEW c \in Clients PROVE Waiting(c)' /\ Truth(c)' /\ Kept(c)'
    <3>1. CASE c = me
      <4>1. outcome'[c] = "failed" /\ ~InTodo(c)'
        BY <1>2, <2>3, <3>1 DEF Reported
      <4> QED
        BY <1>1, <2>2, <2>3, <3>1, <4>1 DEF Waiting, Truth, OnlyShows
    <3>2. CASE c # me
      <4>1. outcome'[c] = outcome[c] /\ (InTodo(c)' => InTodo(c))
        BY <1>2, <2>3, <3>2 DEF Reported
      <4>2. Planned(c) => Planned(c)'
        BY <1>1, <2>1, <2>2, <3>2 DEF Planned, Headed
      <4>3. Untouched(c) => Untouched(c)'
        BY <1>1, <2>2, <3>2 DEF Untouched
      <4>4. Truth(c)' /\ Kept(c)'
        BY <1>1, <2>1, <2>2, <3>2, <4>1, <4>3 DEF InstallInv, Plugins, Truth, Kept
      <4>5. Waiting(c)'
        BY <1>1, <1>2, <2>3, <3>2, <4>1, <4>2, <4>3 DEF InstallInv, Plugins, Waiting, OnlyShows
      <4> QED
        BY <4>4, <4>5
    <3> QED
      BY <3>1, <3>2
  <2>7. Skills'
    BY <1>1, <2>3, SkillsAlone DEF Replacing
  <2> QED
    BY <2>2, <2>3, <2>4, <2>5, <2>6, <2>7 DEF InstallInv, Plugins
<1> QED
  BY <1>3, <1>4, <1>5

(* The client whose skill was come to.                                     *)
LEMMA SkillTurn ==
  ASSUME InstallInv, pc \in {"skill"} \cup Replacing
  PROVE  /\ Typed /\ order.asset = "skill" /\ exit = "none" /\ todo # << >>
         /\ Current \in Clients /\ InTodo(Current) /\ outcome[Current] = "none"
         /\ IF pc = "skill" THEN Was(Current) ELSE Step(Current)
         /\ pc \in Replacing => order.command = "apply" /\ ~order.dry
         /\ \A c \in Clients \ {Current} :
              order.command = "apply" => leaf[c] \in {had.leaf[c], "new"}
<1>1. Typed /\ order.asset = "skill" /\ exit = "none" /\ todo # << >>
  BY DEF InstallInv, Typed, Phase, Queue, Busy, Replacing
<1>2. Current \in Clients /\ InTodo(Current)
  BY <1>1, TailLemma DEF InstallInv, Typed, Queue, Current, InTodo, ClientOf
<1>3. outcome[Current] = "none" /\ pc \in Busy
  BY <1>2 DEF InstallInv, Queue, Busy
<1>4. IF pc = "skill" THEN Was(Current) ELSE Step(Current)
  BY <1>2, <1>3 DEF InstallInv, Skills, Replacing
<1> QED
  BY <1>1, <1>2, <1>3, <1>4 DEF InstallInv, Phase, Skills

(* A report of the client whose skill was come to.                         *)
LEMMA SkillReport ==
  ASSUME InstallInv, pc \in {"skill"} \cup Replacing, NEW me \in Clients, me = Current,
         NEW o \in ClientOutcomes \ {"none", "skipped"}, Report(Current, o, "skill"),
         UNCHANGED <<market, plugin, given, plans, observed>>,
         leaf' \in [Clients -> Leaves], staging' \in [Clients -> {"none", "part", "new"}],
         backup' \in [Clients -> Leaves],
         \A c \in Clients \ {me} : /\ leaf'[c] = leaf[c] /\ staging'[c] = staging[c]
                                   /\ backup'[c] = backup[c],
         o \in {"ready", "planned", "absent"} => Was(me)',
         o = "applied" => leaf'[me] = "new", o = "removed" => leaf'[me] = "none",
         order.command = "apply" => /\ o = "failed" => Was(me)'
                                    /\ leaf'[me] \in {had.leaf[me], "new"}
  PROVE  InstallInv'
<1>1. /\ Typed /\ order.asset = "skill"
      /\ UNCHANGED <<order, found, skill, rooted, had, meddled, idle>>
  BY SkillTurn DEF given, observed
<1>2. /\ Queue' /\ Reported(o) /\ pc' \in {"skill", "end"}
      /\ \/ pc' = "skill" /\ exit' = "none"
         \/ pc' = "end" /\ exit' # "none"
  <2>1. pc \in Busy \ {"plan"} /\ "skill" \in Busy \ {"plan"}
    BY DEF Busy, Managing, Replacing
  <2> QED
    BY <2>1, ReportLemma DEF InstallInv
<1>3. Typed'
  BY <1>1, <1>2 DEF Typed, Busy, Reported
<1>4. Phase'
  BY <1>1, <1>2 DEF Phase, Managing, Replacing
<1>5. Sourced' /\ Plugins'
  <2>1. pc' \notin Managing
    BY <1>2 DEF Managing
  <2> QED
    BY <1>1, <2>1, PluginsAlone
<1>6. Skills'
  <2> SUFFICES ASSUME NEW c \in Clients
      PROVE /\ pc' = "skill" /\ InTodo(c)' => Was(c)'
            /\ outcome'[c] \in {"ready", "planned", "absent"} => Was(c)'
            /\ outcome'[c] = "applied" => leaf'[c] = "new"
            /\ outcome'[c] = "removed" => leaf'[c] = "none"
            /\ order.command = "apply" => /\ outcome'[c] = "failed" => Was(c)'
                                          /\ leaf'[c] \in {had.leaf[c], "new"}
    BY <1>1, <1>2 DEF Skills, Busy, Managing, Replacing
  <2>1. CASE c = me
    BY <1>2, <2>1 DEF Reported
  <2>2. CASE c # me
    <3>1. /\ outcome'[c] = outcome[c] /\ (InTodo(c)' => InTodo(c))
          /\ Was(c)' = Was(c) /\ leaf'[c] = leaf[c]
      BY <1>1, <1>2, <2>2 DEF Reported, Was
    <3>2. InTodo(c) => Was(c)
      BY <2>2 DEF InstallInv, Skills, Busy
    <3>3. order.command = "apply" => leaf[c] \in {had.leaf[c], "new"}
      BY <2>2, SkillTurn
    <3> QED
      BY <1>1, <3>1, <3>2, <3>3 DEF InstallInv, Skills
  <2> QED
    BY <2>1, <2>2
<1> QED
  BY <1>2, <1>3, <1>4, <1>5, <1>6 DEF InstallInv

(* A step of the replacement, or the error that ends the script in it.     *)
LEMMA SkillMove ==
  ASSUME InstallInv, pc \in {"skill"} \cup Replacing, order.command = "apply", ~order.dry,
         NEW me \in Clients, me = Current,
         UNCHANGED <<market, plugin, given, plans, observed, todo, outcome>>,
         \/ pc' \in Replacing /\ exit' = exit /\ Step(me)'
         \/ pc' = "end" /\ exit' = "crash",
         leaf' \in [Clients -> Leaves], staging' \in [Clients -> {"none", "part", "new"}],
         backup' \in [Clients -> Leaves],
         \A c \in Clients \ {me} : /\ leaf'[c] = leaf[c] /\ staging'[c] = staging[c]
                                   /\ backup'[c] = backup[c],
         \/ leaf'[me] \in {had.leaf[me], "new"}
         \/ /\ leaf'[me] = "none" /\ backup'[me] = had.leaf[me]
            /\ pc' \in {"publish", "restore", "end"}
  PROVE  InstallInv'
<1>1. /\ Typed /\ order.asset = "skill" /\ exit = "none" /\ todo # << >> /\ outcome[me] = "none"
      /\ UNCHANGED <<order, found, skill, rooted, had, meddled, idle>> /\ me = Current'
      /\ \A c \in Clients : InTodo(c)' = InTodo(c)
  BY SkillTurn DEF given, observed, Current, InTodo
<1>2. Typed'
  BY <1>1 DEF Typed, Busy, Replacing
<1>3. Phase'
  BY <1>1 DEF Phase, Managing, Replacing
<1>4. Queue'
  BY <1>1 DEF InstallInv, Queue, Busy, Managing, Replacing, IsTarget, Requested, Missing,
              Explicit
<1>5. Sourced' /\ Plugins'
  <2>1. pc' \notin Managing
    BY DEF Managing, Replacing
  <2> QED
    BY <1>1, <2>1, PluginsAlone
<1>6. Skills'
  <2> SUFFICES ASSUME NEW c \in Clients
      PROVE /\ pc' \in Replacing /\ InTodo(c)' => IF c = me THEN Step(c)' ELSE Was(c)'
            /\ outcome'[c] \in {"ready", "planned", "absent"} => Was(c)'
            /\ outcome'[c] = "applied" => leaf'[c] = "new"
            /\ outcome'[c] = "removed" => leaf'[c] = "none"
            /\ outcome'[c] = "failed" => Was(c)'
            /\ \/ leaf'[c] \in {had.leaf[c], "new"}
               \/ /\ leaf'[c] = "none" /\ backup'[c] = had.leaf[c]
                  /\ exit' \in {"killed", "crash"} \/ (pc' \in {"publish", "restore"} /\ me = c)
    <3>1. pc' \notin {"select", "skill"} /\ (pc' \in Busy => pc' \in Replacing)
      BY DEF Busy, Managing, Replacing
    <3> QED
      BY <1>1, <3>1 DEF Skills
  <2>1. CASE c = me
    <3>1. outcome'[c] = "none" /\ (pc' \in Replacing => Step(c)')
      BY <1>1, <2>1 DEF Replacing
    <3>2. \/ leaf'[c] \in {had.leaf[c], "new"}
          \/ /\ leaf'[c] = "none" /\ backup'[c] = had.leaf[c]
             /\ exit' \in {"killed", "crash"} \/ (pc' \in {"publish", "restore"} /\ me = c)
      BY <2>1 DEF Replacing
    <3> QED
      BY <2>1, <3>1, <3>2
  <2>2. CASE c # me
    <3>1. outcome'[c] = outcome[c] /\ Was(c)' = Was(c) /\ leaf'[c] = leaf[c]
      BY <1>1, <2>2 DEF Was
    <3>2. InTodo(c) => Was(c)
      BY <2>2 DEF InstallInv, Skills, Busy
    <3>3. leaf[c] \in {had.leaf[c], "new"}
      BY <2>2, SkillTurn
    <3> QED
      BY <1>1, <2>2, <3>1, <3>2, <3>3 DEF InstallInv, Skills
  <2> QED
    BY <2>1, <2>2
<1> QED
  BY <1>2, <1>3, <1>4, <1>5, <1>6 DEF InstallInv

(* A change of one client's directory leaves the other clients' alone.     *)
LEMMA LeafUpdate ==
  ASSUME NEW S, NEW f \in [Clients -> S], NEW me \in Clients, NEW v \in S
  PROVE  /\ [f EXCEPT ![me] = v] \in [Clients -> S] /\ [f EXCEPT ![me] = v][me] = v
         /\ \A c \in Clients \ {me} : [f EXCEPT ![me] = v][c] = f[c]
OBVIOUS

(* The skill's commands: list_skill, remove_skill, apply_skill and         *)
(* replace_skill_leaf, step by step.                                       *)
LEMMA SkillSteps == InstallInv /\ ManageSkill => InstallInv'
<1> SUFFICES ASSUME InstallInv, ManageSkill PROVE InstallInv'
  OBVIOUS
<1>1. pc \in {"skill"} \cup Replacing
  BY DEF ManageSkill, ListSkill, RemoveSkill, ApplySkill, CopyToStaging, MoveAside,
         PublishSkill,
         Restore, DeleteBackup, Replacing
<1>2. PICK me \in Clients : me = Current
  BY <1>1, SkillTurn
<1>3. /\ leaf \in [Clients -> Leaves] /\ staging \in [Clients -> {"none", "part", "new"}]
      /\ backup \in [Clients -> Leaves] /\ outcome[me] = "none"
      /\ leaf[me] \in Leaves /\ backup[me] \in Leaves
      /\ "none" \in Leaves /\ "part" \in Leaves /\ "new" \in Leaves /\ "file" \in Leaves
      /\ pc = "skill" => Was(me)
      /\ pc # "skill" => Step(me)
      /\ pc \in Replacing => order.command = "apply" /\ ~order.dry
  BY <1>1, <1>2, SkillTurn DEF Typed, Leaves
<1>4. {"installed", "absent", "ready", "planned", "failed", "removed", "applied"}
        \subseteq ClientOutcomes \ {"none", "skipped"}
  BY DEF ClientOutcomes
<1>5. CASE ListSkill
  <2>1. PICK o \in {"ready", "installed", "absent", "failed"} : Report(Current, o, "skill")
    <3>1. \/ leaf[me] \in {"old", "new"} \/ leaf[me] = "none"
          \/ leaf[me] \notin {"old", "new", "none"}
      OBVIOUS
    <3> QED
      BY <1>2, <1>5, <3>1 DEF ListSkill
  <2>2. /\ UNCHANGED <<market, plugin, given, plans, observed, leaf, staging, backup>>
        /\ order.command # "apply" /\ order' = order /\ had' = had /\ pc = "skill"
    BY <1>5 DEF ListSkill, clients, given
  <2>3. Was(me)'
    BY <1>3, <2>2 DEF Was
  <2> QED
    BY <1>1, <1>2, <1>3, <1>4, <2>1, <2>2, <2>3, SkillReport
<1>6. CASE RemoveSkill
  <2>1. /\ UNCHANGED <<market, plugin, given, plans, observed, staging, backup>>
        /\ order.command # "apply" /\ order' = order /\ had' = had /\ pc = "skill"
    BY <1>6 DEF RemoveSkill, given
  <2>2. \/ leaf' = [leaf EXCEPT ![me] = "none"] /\ Report(Current, "removed", "skill")
        \/ leaf' \in {leaf, [leaf EXCEPT ![me] = "part"]} /\ Report(Current, "failed", "skill")
        \/ leaf' = leaf /\ \E o \in {"absent", "failed", "planned"} : Report(Current, o, "skill")
    <3>1. \/ leaf[me] = "none" \/ leaf[me] \in {"file", "link"}
          \/ leaf[me] \notin {"none", "file", "link"}
      OBVIOUS
    <3> QED
      BY <1>2, <1>6, <3>1 DEF RemoveSkill
  <2>3. /\ leaf' \in [Clients -> Leaves]
        /\ \A c \in Clients \ {me} : leaf'[c] = leaf[c]
        /\ leaf' = [leaf EXCEPT ![me] = "none"] => leaf'[me] = "none"
    BY <1>3, <2>2, LeafUpdate
  <2>4. leaf' = leaf => Was(me)'
    BY <1>3, <2>1 DEF Was
  <2> QED
    BY <1>1, <1>2, <1>3, <1>4, <2>1, <2>2, <2>3, <2>4, SkillReport
<1>7. CASE ApplySkill
  <2>1. /\ UNCHANGED <<market, plugin, given, plans, observed, leaf, backup>>
        /\ order.command = "apply" /\ order' = order /\ had' = had /\ pc = "skill"
        /\ leaf[me] = had.leaf[me] /\ backup[me] = "none"
    BY <1>3, <1>7 DEF ApplySkill, given, Was
  <2>2. \/ staging' = staging /\ \E o \in {"planned", "failed"} : Report(Current, o, "skill")
        \/ /\ ExitWith("crash") /\ UNCHANGED <<staging, todo, outcome>> /\ ~order.dry
        \/ /\ staging' = [staging EXCEPT ![me] = "part"] /\ ~order.dry
           /\ pc' = "copy" /\ UNCHANGED <<todo, outcome, exit>>
    BY <1>2, <1>7 DEF ApplySkill
  <2>3. /\ staging' \in [Clients -> {"none", "part", "new"}]
        /\ \A c \in Clients \ {me} : staging'[c] = staging[c]
    BY <1>3, <2>2, LeafUpdate
  <2>4. CASE staging' = staging /\ \E o \in {"planned", "failed"} : Report(Current, o, "skill")
    <3>1. Was(me)'
      BY <1>3, <2>1, <2>4 DEF Was
    <3> QED
      BY <1>1, <1>2, <1>3, <1>4, <2>1, <2>4, <3>1, SkillReport
  <2>5. CASE ExitWith("crash") /\ UNCHANGED <<staging, todo, outcome>> /\ ~order.dry
    <3>1. pc' = "end" /\ exit' = "crash"
      BY <2>5 DEF ExitWith
    <3> QED
      BY <1>1, <1>2, <1>3, <2>1, <2>3, <2>5, <3>1, SkillMove
  <2>6. CASE /\ staging' = [staging EXCEPT ![me] = "part"] /\ ~order.dry
             /\ pc' = "copy" /\ UNCHANGED <<todo, outcome, exit>>
    <3>1. Step(me)' /\ pc' \in Replacing
      BY <2>1, <2>6 DEF Step, Replacing
    <3> QED
      BY <1>1, <1>2, <1>3, <2>1, <2>3, <2>6, <3>1, SkillMove
  <2> QED
    BY <2>2, <2>4, <2>5, <2>6
<1>8. CASE CopyToStaging
  <2>1. /\ UNCHANGED <<market, plugin, given, plans, observed, leaf, backup, todo, outcome, exit>>
        /\ had' = had /\ pc = "copy"
        /\ leaf[me] = had.leaf[me] /\ backup[me] = "none"
    BY <1>3, <1>8 DEF CopyToStaging, given, Step
  <2>2. /\ pc' \in {"aside", "restore"}
        /\ staging' \in {staging, [staging EXCEPT ![me] = "none"], [staging EXCEPT ![me] = "new"]}
    BY <1>2, <1>8 DEF CopyToStaging
  <2>3. /\ staging' \in [Clients -> {"none", "part", "new"}]
        /\ \A c \in Clients \ {me} : staging'[c] = staging[c]
    BY <1>3, <2>2, LeafUpdate
  <2>4. Step(me)' /\ pc' \in Replacing /\ pc \in Replacing
    BY <2>1, <2>2 DEF Step, Replacing
  <2> QED
    BY <1>1, <1>2, <1>3, <2>1, <2>2, <2>3, <2>4, SkillMove
<1>9. CASE MoveAside
  <2>1. /\ UNCHANGED <<market, plugin, given, plans, observed, staging, todo, outcome, exit>>
        /\ had' = had /\ pc = "aside"
        /\ leaf[me] = had.leaf[me] /\ backup[me] = "none"
    BY <1>3, <1>9 DEF MoveAside, given, Step
  <2>2. \/ /\ backup' = [backup EXCEPT ![me] = leaf[me]]
           /\ leaf' = [leaf EXCEPT ![me] = "none"] /\ pc' = "publish"
        \/ pc' = "restore" /\ leaf' = leaf /\ backup' = backup
    BY <1>2, <1>9 DEF MoveAside
  <2>3. /\ leaf' \in [Clients -> Leaves] /\ backup' \in [Clients -> Leaves]
        /\ \A c \in Clients \ {me} : leaf'[c] = leaf[c] /\ backup'[c] = backup[c]
        /\ pc' = "publish" => leaf'[me] = "none" /\ backup'[me] = had.leaf[me]
    <3>1. CASE pc' = "publish"
      <4>1. leaf[me] \in Leaves /\ backup' = [backup EXCEPT ![me] = leaf[me]]
            /\ leaf' = [leaf EXCEPT ![me] = "none"]
        BY <1>3, <2>2, <3>1
      <4> QED
        BY <1>3, <2>1, <4>1, LeafUpdate
    <3>2. CASE pc' # "publish"
      BY <1>3, <2>2, <3>2
    <3> QED
      BY <3>1, <3>2
  <2>4. Step(me)' /\ pc' \in Replacing /\ pc \in Replacing
    BY <2>1, <2>2, <2>3 DEF Step, Replacing
  <2>5. \/ leaf'[me] \in {had.leaf[me], "new"}
        \/ /\ leaf'[me] = "none" /\ backup'[me] = had.leaf[me]
           /\ pc' \in {"publish", "restore", "end"}
    BY <2>1, <2>2, <2>3
  <2> QED
    BY <1>1, <1>2, <1>3, <2>1, <2>3, <2>4, <2>5, SkillMove
<1>10. CASE PublishSkill
  <2>1. /\ UNCHANGED <<market, plugin, given, plans, observed, backup, todo, outcome, exit>>
        /\ had' = had /\ pc = "publish"
        /\ leaf[me] = "none" /\ backup[me] = had.leaf[me]
    BY <1>3, <1>10 DEF PublishSkill, given, Step
  <2>2. \/ /\ leaf' = [leaf EXCEPT ![me] = "new"]
           /\ staging' = [staging EXCEPT ![me] = "none"] /\ pc' = "tidy"
        \/ pc' = "restore" /\ leaf' = leaf /\ staging' = staging
    BY <1>2, <1>10 DEF PublishSkill
  <2>3. /\ leaf' \in [Clients -> Leaves] /\ staging' \in [Clients -> {"none", "part", "new"}]
        /\ \A c \in Clients \ {me} : leaf'[c] = leaf[c] /\ staging'[c] = staging[c]
        /\ pc' = "tidy" => leaf'[me] = "new" /\ staging'[me] = "none"
    BY <1>3, <2>2, LeafUpdate
  <2>4. Step(me)' /\ pc' \in Replacing /\ pc \in Replacing
    BY <2>1, <2>2, <2>3 DEF Step, Replacing
  <2>5. \/ leaf'[me] \in {had.leaf[me], "new"}
        \/ /\ leaf'[me] = "none" /\ backup'[me] = had.leaf[me]
           /\ pc' \in {"publish", "restore", "end"}
    BY <2>1, <2>2, <2>3
  <2> QED
    BY <1>1, <1>2, <1>3, <2>1, <2>3, <2>4, <2>5, SkillMove
<1>11. CASE Restore
  <2> DEFINE back == backup[me] # "none" /\ leaf[me] = "none"
  <2>1. /\ UNCHANGED <<market, plugin, given, plans, observed>> /\ had' = had /\ pc = "restore"
        /\ pc \in Replacing
        /\ \/ leaf[me] = had.leaf[me] /\ backup[me] = "none"
           \/ leaf[me] = "none" /\ backup[me] = had.leaf[me]
    BY <1>3, <1>11 DEF Restore, given, Step, Replacing
  <2>2. \/ /\ leaf' = IF back THEN [leaf EXCEPT ![me] = backup[me]] ELSE leaf
           /\ backup' = IF back THEN [backup EXCEPT ![me] = "none"] ELSE backup
           /\ \/ staging' = [staging EXCEPT ![me] = "none"] /\ Report(Current, "failed", "skill")
              \/ /\ staging' = [staging EXCEPT ![me] = "part"]
                 /\ ExitWith("crash") /\ UNCHANGED <<todo, outcome>>
        \/ /\ back /\ ExitWith("crash")
           /\ staging' \in {staging, [staging EXCEPT ![me] = "none"]}
           /\ UNCHANGED <<leaf, backup, todo, outcome>>
    BY <1>2, <1>11 DEF Restore
  <2>3. /\ staging' \in [Clients -> {"none", "part", "new"}]
        /\ \A c \in Clients \ {me} : staging'[c] = staging[c]
        /\ staging' = [staging EXCEPT ![me] = "none"] => staging'[me] = "none"
    BY <1>3, <2>2, LeafUpdate
  <2>4. CASE /\ leaf' = IF back THEN [leaf EXCEPT ![me] = backup[me]] ELSE leaf
             /\ backup' = IF back THEN [backup EXCEPT ![me] = "none"] ELSE backup
             /\ \/ staging' = [staging EXCEPT ![me] = "none"] /\ Report(Current, "failed", "skill")
                \/ /\ staging' = [staging EXCEPT ![me] = "part"]
                   /\ ExitWith("crash") /\ UNCHANGED <<todo, outcome>>
    <3>1. /\ leaf' \in [Clients -> Leaves] /\ backup' \in [Clients -> Leaves]
          /\ \A c \in Clients \ {me} : leaf'[c] = leaf[c] /\ backup'[c] = backup[c]
          /\ leaf'[me] = had.leaf[me] /\ backup'[me] = "none"
      <4>1. CASE back
        <5>1. leaf' = [leaf EXCEPT ![me] = backup[me]] /\ backup' = [backup EXCEPT ![me] = "none"]
          BY <2>4, <4>1
        <5>2. /\ leaf' \in [Clients -> Leaves] /\ leaf'[me] = backup[me]
              /\ \A c \in Clients \ {me} : leaf'[c] = leaf[c]
          BY <1>3, <5>1, LeafUpdate
        <5>3. /\ backup' \in [Clients -> Leaves] /\ backup'[me] = "none"
              /\ \A c \in Clients \ {me} : backup'[c] = backup[c]
          BY <1>3, <5>1, LeafUpdate
        <5> QED
          BY <2>1, <4>1, <5>2, <5>3
      <4>2. CASE ~back
        <5>1. leaf' = leaf /\ backup' = backup
          BY <2>4, <4>2
        <5> QED
          BY <1>3, <2>1, <4>2, <5>1
      <4> QED
        BY <4>1, <4>2
    <3> HIDE DEF back
    <3>2. CASE staging' = [staging EXCEPT ![me] = "none"] /\ Report(Current, "failed", "skill")
      <4>1. Was(me)'
        BY <2>1, <2>3, <3>1, <3>2 DEF Was
      <4> QED
        BY <1>1, <1>2, <1>3, <1>4, <2>1, <2>3, <3>1, <3>2, <4>1, SkillReport
    <3>3. CASE ExitWith("crash") /\ UNCHANGED <<todo, outcome>>
      <4>1. pc' = "end" /\ exit' = "crash"
        BY <3>3 DEF ExitWith
      <4> QED
        BY <1>1, <1>2, <1>3, <2>1, <2>3, <3>1, <3>3, <4>1, SkillMove
    <3> QED
      BY <2>4, <3>2, <3>3
  <2>5. CASE /\ back /\ ExitWith("crash")
             /\ staging' \in {staging, [staging EXCEPT ![me] = "none"]}
             /\ UNCHANGED <<leaf, backup, todo, outcome>>
    <3>1. pc' = "end" /\ exit' = "crash" /\ leaf'[me] = "none" /\ backup'[me] = had.leaf[me]
      BY <2>1, <2>5 DEF ExitWith
    <3> QED
      BY <1>1, <1>2, <1>3, <2>1, <2>3, <2>5, <3>1, SkillMove
  <2> QED
    BY <2>2, <2>4, <2>5
<1>12. CASE DeleteBackup
  <2>1. /\ UNCHANGED <<market, plugin, given, plans, observed, leaf, staging>>
        /\ had' = had /\ pc = "tidy" /\ pc \in Replacing /\ leaf[me] = "new"
    BY <1>3, <1>12 DEF DeleteBackup, given, Step, Replacing
  <2>2. \/ backup' = [backup EXCEPT ![me] = "none"] /\ Report(Current, "applied", "skill")
        \/ /\ backup' \in {backup, [backup EXCEPT ![me] = IF @ = "file" THEN "file" ELSE "part"]}
           /\ ExitWith("crash") /\ UNCHANGED <<todo, outcome>>
    BY <1>2, <1>12 DEF DeleteBackup
  <2>3. /\ backup' \in [Clients -> Leaves]
        /\ \A c \in Clients \ {me} : backup'[c] = backup[c]
    <3>1. PICK v \in Leaves : backup' \in {backup, [backup EXCEPT ![me] = v]}
      BY <1>3, <2>2
    <3> QED
      BY <1>3, <3>1, LeafUpdate
  <2>4. CASE Report(Current, "applied", "skill")
    BY <1>1, <1>2, <1>3, <1>4, <2>1, <2>3, <2>4, SkillReport
  <2>5. CASE ExitWith("crash") /\ UNCHANGED <<todo, outcome>>
    <3>1. pc' = "end" /\ exit' = "crash"
      BY <2>5 DEF ExitWith
    <3> QED
      BY <1>1, <1>2, <1>3, <2>1, <2>3, <2>5, <3>1, SkillMove
  <2> QED
    BY <2>2, <2>4, <2>5
<1> QED
  BY <1>5, <1>6, <1>7, <1>8, <1>9, <1>10, <1>11, <1>12 DEF ManageSkill

(* Every step, of the script or of a user, keeps the invariant.            *)
LEMMA InstallStep == InstallInv /\ [InstallNext]_installVars => InstallInv'
<1> SUFFICES ASSUME InstallInv, [InstallNext]_installVars PROVE InstallInv'
  OBVIOUS
<1>1. CASE Script
  <2>1. SelectTargets \/ SelectionFails \/ ManagePlugin \/ ManageSkill
    BY <1>1 DEF Script
  <2> QED
    BY <2>1, SelectStep, ScriptEndLemma, ReportSteps, PlanStep, ExecuteSteps, SkillSteps
       DEF ManagePlugin
<1>2. CASE ScriptKilled
  BY <1>2, ScriptEndLemma
<1>3. CASE \E c \in Clients : Meddle(c)
  BY <1>3, MeddleStep
<1>4. CASE UNCHANGED installVars
  <2>1. /\ UNCHANGED <<market, plugin, leaf, staging, backup, order, found, skill, rooted, had>>
        /\ UNCHANGED <<pc, todo, plans, outcome, exit, meddled, idle>>
    BY <1>4 DEF installVars, clients, given, script, observed
  <2>2. Typed' /\ Phase' /\ Queue' /\ Sourced'
    <3>1. Typed' /\ Phase'
      BY <2>1 DEF InstallInv, Typed, Phase, Current, OnlyShows
    <3>2. Queue' /\ Sourced'
      BY <2>1 DEF InstallInv, Queue, Sourced, InTodo, IsTarget, Requested, Missing, Explicit
    <3> QED
      BY <3>1, <3>2
  <2>3. Plugins'
    <3> SUFFICES ASSUME NEW c \in Clients PROVE Waiting(c)' /\ Truth(c)' /\ Kept(c)'
      BY DEF Plugins
    <3>1. Waiting(c) /\ Truth(c) /\ Kept(c)
      BY DEF InstallInv, Plugins
    <3>2. /\ Untouched(c)' = Untouched(c) /\ OnlyShows' = OnlyShows /\ Planned(c)' = Planned(c)
          /\ InTodo(c)' = InTodo(c) /\ IsTarget(c)' = IsTarget(c) /\ Current' = Current
      BY <2>1 DEF Untouched, OnlyShows, Planned, Headed, InTodo, IsTarget, Requested, Current
    <3> QED
      BY <2>1, <3>1, <3>2 DEF Waiting, Truth, Kept
  <2>4. Skills'
    BY <2>1 DEF InstallInv, Skills, Was, Step, Current, InTodo
  <2> QED
    BY <2>2, <2>3, <2>4 DEF InstallInv
<1> QED
  BY <1>1, <1>2, <1>3, <1>4 DEF InstallNext

(* The invariant of the installer holds in every run of it.                *)
THEOREM InstallInvariance == InstallSpec => []InstallInv
BY InstallStart, InstallStep, PTL DEF InstallSpec

(* What the script reports of a client is what the client has, and exit    *)
(* code 0 means that each client it was asked for is as it should be: for  *)
(* any command lines, any programs that are found, and any number of       *)
(* changes by users.                                                       *)
THEOREM ReportsAreTrue == InstallSpec => []ReportIsTrue
<1>1. ASSUME InstallInv PROVE ReportIsTrue
  BY <1>1 DEF InstallInv, Queue, Plugins, Truth, Untouched, Skills, Was, ReportIsTrue
<1> QED
  BY InstallInvariance, <1>1, PTL

(* "apply" takes no client's plugin away, except from Grok the one of      *)
(* another source that it is about to replace (plan_grok).                 *)
THEOREM PluginsAreKept == InstallSpec => []NoPluginLost
<1>1. ASSUME InstallInv PROVE NoPluginLost
  <2>1. ASSUME order.command = "apply", NEW c \in Clients, had.plugin[c] # "none", meddled[c] = 0
        PROVE  plugin[c] # "none" \/ (c = "grok" /\ had.plugin[c] = "other" /\ outcome[c] # "applied")
    <3>1. plugin[c] # "none" \/ (c = "grok" /\ had.plugin[c] = "other")
      BY <1>1, <2>1 DEF InstallInv, Plugins, Kept
    <3>2. order.asset = "plugin" /\ outcome[c] = "applied" => plugin[c] # "none"
      BY <1>1, <2>1 DEF InstallInv, Plugins, Truth
    <3>3. order.asset = "skill" => plugin[c] = had.plugin[c]
      BY <1>1, <2>1 DEF InstallInv, Plugins, Waiting, Untouched
    <3>4. order.asset \in {"plugin", "skill"}
      BY <1>1 DEF InstallInv, Typed, OrderRecords
    <3> QED
      BY <2>1, <3>1, <3>2, <3>3, <3>4
  <2> QED
    BY <2>1 DEF NoPluginLost
<1> QED
  BY InstallInvariance, <1>1, PTL

(* replace_skill_leaf keeps a whole copy of the skill, the old one or the  *)
(* new one, at every step, and a client reported as failed has what it     *)
(* had.                                                                    *)
THEOREM SkillsAreKept == InstallSpec => []SkillKept
<1>1. ASSUME InstallInv PROVE SkillKept
  BY <1>1 DEF InstallInv, Skills, Was, SkillKept
<1> QED
  BY InstallInvariance, <1>1, PTL

-----------------------------------------------------------------------------
\* Batch backups.

USE BoundsAssumption, AbsentAssumption DEF Engines

\* Two enabled targets of one engine have directories of their own.  (The
\* configuration is not checked for this.)
SeparateOutputs ==
  \A t, u \in Enabled : Dir(t) = Dir(u) /\ Config[t].engine = Config[u].engine => t = u

\* No run starts while another is at work.
OneByOne == ~Overlap /\ SeparateOutputs

ManifestFiles == {<<Manifests, s, "md">> : s \in Stamps}
RunStates ==
  [pc : Working \cup Ended \cup {"idle"}, stamp : Stamps, resume : BOOLEAN,
   continue : BOOLEAN, target : Nat \ {0}, tmp : {"none", "full", "empty"},
   results : [Targets -> Outcomes]]
CleanerStates ==
  [pc : {"idle", "list", "unlink", "raised", "done"}, dry : BOOLEAN, cutoff : Int,
   dirs : SUBSET (Dirs \cup {Manifests}), victims : SUBSET (Files \cup ManifestFiles)]

Types ==
  /\ now \in 0 .. MaxNow
  /\ disk \in [Files -> Backups \cup {Absent}]
  /\ manifests \in [Stamps -> [Targets -> Outcomes] \cup {Absent, Truncated}]
  /\ run \in [Runs -> RunStates]
  /\ cleaner \in [Cleaners -> CleanerStates]

-----------------------------------------------------------------------------
\* Lemmas about names.

(* The targets are numbered from one.                                      *)
LEMMA TargetsLemma == \E n \in Nat : Targets = 1 .. n
BY ConfigAssumption DEF Targets

(* A batch that is named by the clock, or by the next number, has a name.  *)
LEMMA StampsLemma ==
  /\ \A n \in 0 .. MaxNow : <<n, 0>> \in Stamps
  /\ \A s \in Stamps : s[2] < MaxSeq => [s EXCEPT ![2] = @ + 1] \in Stamps
  /\ \A s \in Stamps : s[1] \in Nat /\ s[2] \in Nat /\ s = <<s[1], s[2]>>
BY DEF Stamps

(* What is known of a file by its name.                                    *)
LEMMA OutputLemma ==
  ASSUME NEW t \in Targets, NEW s \in Stamps
  PROVE  /\ Output(t, s) \in Files /\ Output(t, s)[2] = s
         /\ \A u \in Targets, v \in Stamps :
              Output(t, s) = Output(u, v) =>
                Dir(t) = Dir(u) /\ Config[t].engine = Config[u].engine /\ s = v
BY DEF Output, Files

(* The next target is a target, or there is none left.                     *)
LEMMA NextTargetLemma ==
  ASSUME NEW n \in Nat \ {0}
  PROVE  n + 1 \in Nat \ {0} /\ (n \notin Targets => \A t \in Targets : t < n)
BY TargetsLemma

-----------------------------------------------------------------------------
\* What a step does to the state of the run that takes it.

(* A step that changes one run leaves the others alone.                    *)
LEMMA OneRunLemma ==
  ASSUME run \in [Runs -> RunStates], NEW r \in Runs, NEW new, run' = [run EXCEPT ![r] = new]
  PROVE  run'[r] = new /\ \A q \in Runs \ {r} : run'[q] = run[q]
OBVIOUS

(* What a run remembers before it starts.                                  *)
LEMMA FreshLemma ==
  /\ FreshRun \in RunStates /\ FreshRun.pc = "idle" /\ FreshRun.target = 1 /\ ~FreshRun.resume
  /\ FreshRun.stamp = <<0, 0>> /\ FreshRun.results = [t \in Targets |-> "none"]
<1>1. <<0, 0>> \in Stamps
  BY DEF Stamps
<1>2. FreshRun \in [pc : {"idle"}, stamp : Stamps, resume : BOOLEAN, continue : BOOLEAN,
                    target : Nat \ {0}, tmp : {"none", "full", "empty"},
                    results : [Targets -> Outcomes]]
  BY <1>1 DEF FreshRun, Outcomes
<1>3. FreshRun \in RunStates
  BY <1>2 DEF RunStates
<1> QED
  BY <1>3 DEF FreshRun

(* A run that ends forgets everything.                                     *)
LEMMA EndLemma ==
  ASSUME run \in [Runs -> RunStates], NEW r \in Runs, NEW how \in Ended, End(r, how)
  PROVE  /\ run' \in [Runs -> RunStates]
         /\ run'[r].pc = how
         /\ run'[r].target = 1 /\ run'[r].results = [t \in Targets |-> "none"]
         /\ run'[r].stamp = <<0, 0>> /\ ~run'[r].resume
         /\ \A q \in Runs \ {r} : run'[q] = run[q]
<1> DEFINE new == [FreshRun EXCEPT !.pc = how]
<1>1. /\ new \in RunStates /\ new.pc = how /\ new.target = 1 /\ ~new.resume
      /\ new.stamp = <<0, 0>> /\ new.results = [t \in Targets |-> "none"]
  BY FreshLemma DEF RunStates
<1>2. run' = [run EXCEPT ![r] = new]
  BY DEF End
<1> HIDE DEF new
<1> QED
  BY <1>1, <1>2

(* A run that has an outcome for its target goes on to the next.           *)
LEMMA RecordLemma ==
  ASSUME run \in [Runs -> RunStates], NEW r \in Runs, Cur(r) \in Targets,
         NEW o \in Outcomes, Record(r, o)
  PROVE  /\ run' \in [Runs -> RunStates]
         /\ run'[r].pc = "target" /\ run'[r].target = Cur(r) + 1
         /\ run'[r].stamp = run[r].stamp /\ run'[r].resume = run[r].resume
         /\ run'[r].results = [run[r].results EXCEPT ![Cur(r)] = o]
         /\ \A q \in Runs \ {r} : run'[q] = run[q]
<1> DEFINE old == run[r]
           new == [old EXCEPT !.pc = "target", !.target = @ + 1, !.tmp = "none",
                              !.results[Cur(r)] = o]
<1>1. run' = [run EXCEPT ![r] = new]
  BY DEF Record, RunStates
<1>2. old \in RunStates
  OBVIOUS
<1>3. /\ new.pc = "target" /\ new.target = old.target + 1 /\ new.stamp = old.stamp
      /\ new.resume = old.resume /\ new.results = [old.results EXCEPT ![Cur(r)] = o]
  BY <1>2 DEF RunStates
<1>4. new \in RunStates
  BY <1>2, NextTargetLemma DEF RunStates, Working
<1> HIDE DEF new
<1> QED
  BY <1>1, <1>3, <1>4 DEF Cur

(* A run that goes on to another step remembers what it knew.              *)
LEMMA GotoLemma ==
  ASSUME run \in [Runs -> RunStates], NEW r \in Runs,
         NEW l \in Working \cup Ended \cup {"idle"}, Goto(r, l)
  PROVE  /\ run' \in [Runs -> RunStates]
         /\ run'[r].pc = l /\ run'[r].target = run[r].target
         /\ run'[r].stamp = run[r].stamp /\ run'[r].resume = run[r].resume
         /\ run'[r].results = run[r].results
         /\ \A q \in Runs \ {r} : run'[q] = run[q]
<1> DEFINE new == [run[r] EXCEPT !.pc = l]
<1>1. new \in RunStates
  BY DEF RunStates
<1>2. /\ new.pc = l /\ new.target = run[r].target /\ new.stamp = run[r].stamp
      /\ new.resume = run[r].resume /\ new.results = run[r].results
  BY DEF RunStates
<1>3. run' = [run EXCEPT ![r] = new]
  BY DEF Goto
<1> HIDE DEF new
<1> QED
  BY <1>1, <1>2, <1>3

(* A run starts with the name of the second, or with that of a batch it    *)
(* resumes.                                                                *)
LEMMA StartLemma ==
  ASSUME Types, NEW r \in Runs, Start(r)
  PROVE  /\ run' \in [Runs -> RunStates] /\ run[r].pc = "idle"
         /\ Overlap \/ \A q \in Runs : run[q].pc \notin Working
         /\ run'[r].target = run[r].target /\ run'[r].results = run[r].results
         /\ \/ run'[r].pc = "stamp" /\ run'[r].resume = run[r].resume
            \/ run'[r].pc = "target" /\ run'[r].resume
         /\ \A q \in Runs \ {r} : run'[q] = run[q]
         /\ UNCHANGED <<now, disk, manifests, cleaner>>
<1>1. run[r] \in RunStates /\ run[r].pc = "idle" /\ UNCHANGED <<now, disk, manifests, cleaner>>
  BY DEF Types, Start, At
<1>2. PICK continue \in BOOLEAN :
        \/ run' = [run EXCEPT ![r].pc = "stamp", ![r].stamp = <<now, 0>>,
                              ![r].continue = continue]
        \/ \E s \in Stamps :
             /\ Resumes /\ s[1] <= now
             /\ run' = [run EXCEPT ![r].pc = "target", ![r].stamp = s,
                                   ![r].resume = TRUE, ![r].continue = continue]
  BY DEF Start
<1>3. ASSUME run' = [run EXCEPT ![r].pc = "stamp", ![r].stamp = <<now, 0>>,
                                ![r].continue = continue]
      PROVE  /\ run' \in [Runs -> RunStates]
             /\ run'[r].target = run[r].target /\ run'[r].results = run[r].results
             /\ run'[r].pc = "stamp" /\ run'[r].resume = run[r].resume
             /\ \A q \in Runs \ {r} : run'[q] = run[q]
  <2> DEFINE new == [run[r] EXCEPT !.pc = "stamp", !.stamp = <<now, 0>>, !.continue = continue]
  <2>1. new \in RunStates
    BY <1>1, StampsLemma DEF RunStates, Working, Types
  <2>2. /\ new.pc = "stamp" /\ new.target = run[r].target /\ new.resume = run[r].resume
        /\ new.results = run[r].results
    BY <1>1 DEF RunStates
  <2>3. run' = [run EXCEPT ![r] = new]
    BY <1>1, <1>3 DEF Types
  <2> HIDE DEF new
  <2> QED
    BY <2>1, <2>2, <2>3 DEF Types
<1>4. ASSUME NEW s \in Stamps,
             run' = [run EXCEPT ![r].pc = "target", ![r].stamp = s,
                                ![r].resume = TRUE, ![r].continue = continue]
      PROVE  /\ run' \in [Runs -> RunStates]
             /\ run'[r].target = run[r].target /\ run'[r].results = run[r].results
             /\ run'[r].pc = "target" /\ run'[r].resume
             /\ \A q \in Runs \ {r} : run'[q] = run[q]
  <2> DEFINE new == [run[r] EXCEPT !.pc = "target", !.stamp = s, !.resume = TRUE,
                                   !.continue = continue]
  <2>1. new \in RunStates
    BY <1>1 DEF RunStates, Working
  <2>2. /\ new.pc = "target" /\ new.target = run[r].target /\ new.resume
        /\ new.results = run[r].results
    BY <1>1 DEF RunStates
  <2>3. run' = [run EXCEPT ![r] = new]
    BY <1>1, <1>4 DEF Types
  <2> HIDE DEF new
  <2> QED
    BY <2>1, <2>2, <2>3 DEF Types
<1> QED
  BY <1>1, <1>2, <1>3, <1>4 DEF Start

(* The name a batch chooses is free, or the next one is tried.             *)
LEMMA NextStampLemma ==
  ASSUME Types, NEW r \in Runs, NextStamp(r)
  PROVE  /\ run' \in [Runs -> RunStates] /\ run[r].pc = "stamp"
         /\ run'[r].target = run[r].target /\ run'[r].results = run[r].results
         /\ run'[r].resume = run[r].resume
         /\ \/ run'[r].pc = "stamp"
            \/ /\ run'[r].pc = "target" /\ run'[r].stamp = run[r].stamp
               /\ ~Taken(run[r].stamp)
         /\ \A q \in Runs \ {r} : run'[q] = run[q]
         /\ UNCHANGED <<now, disk, manifests, cleaner>>
<1>1. /\ run[r] \in RunStates /\ run[r].pc = "stamp" /\ run[r].stamp \in Stamps
      /\ UNCHANGED <<now, disk, manifests, cleaner>>
  BY DEF Types, NextStamp, At, RunStates
<1>2. CASE Taken(run[r].stamp)
  <2> DEFINE new == [run[r] EXCEPT !.stamp = [run[r].stamp EXCEPT ![2] = @ + 1]]
  <2>1. run[r].stamp[2] < MaxSeq /\ run' = [run EXCEPT ![r] = new]
    BY <1>1, <1>2 DEF NextStamp, Types
  <2>2. new \in RunStates
    BY <1>1, <2>1, StampsLemma DEF RunStates
  <2>3. /\ new.pc = "stamp" /\ new.target = run[r].target /\ new.resume = run[r].resume
        /\ new.results = run[r].results
    BY <1>1 DEF RunStates
  <2> HIDE DEF new
  <2> QED
    BY <1>1, <2>1, <2>2, <2>3 DEF Types
<1>3. CASE ~Taken(run[r].stamp)
  <2>1. Goto(r, "target") /\ "target" \in Working
    BY <1>3 DEF NextStamp, Working
  <2> QED
    BY <1>1, <1>3, <2>1, GotoLemma DEF Types
<1> QED
  BY <1>2, <1>3

-----------------------------------------------------------------------------
\* What the steps of a run do, without how the code writes it down.

OthersStay(r) == \A q \in Runs \ {r} : run'[q] = run[q]

Moves(r, l) ==
  /\ run' \in [Runs -> RunStates] /\ OthersStay(r)
  /\ run'[r].pc = l /\ run'[r].target = run[r].target /\ run'[r].stamp = run[r].stamp
  /\ run'[r].resume = run[r].resume /\ run'[r].results = run[r].results

Records(r, o) ==
  /\ run' \in [Runs -> RunStates] /\ OthersStay(r)
  /\ run'[r].pc = "target" /\ run'[r].target = run[r].target + 1
  /\ run'[r].stamp = run[r].stamp /\ run'[r].resume = run[r].resume
  /\ run'[r].results = [run[r].results EXCEPT ![run[r].target] = o]

FilesStay == UNCHANGED <<now, disk, manifests, cleaner>>

Starts(r) ==
  /\ run[r].pc = "idle" /\ FilesStay
  /\ Overlap \/ \A q \in Runs : run[q].pc \notin Working
  /\ run' \in [Runs -> RunStates] /\ OthersStay(r)
  /\ run'[r].target = run[r].target /\ run'[r].results = run[r].results
  /\ \/ run'[r].pc = "stamp" /\ run'[r].resume = run[r].resume
     \/ run'[r].pc = "target" /\ run'[r].resume

Tries(r) ==
  /\ run[r].pc = "stamp" /\ FilesStay
  /\ run' \in [Runs -> RunStates] /\ OthersStay(r)
  /\ run'[r].target = run[r].target /\ run'[r].results = run[r].results
  /\ run'[r].resume = run[r].resume
  /\ \/ run'[r].pc = "stamp"
     \/ /\ run'[r].pc = "target" /\ run'[r].stamp = run[r].stamp
        /\ ~Taken(run[r].stamp)

Skips(r) ==
  /\ run[r].pc = "target" /\ FilesStay
  /\ run[r].target \in Targets \ Enabled
  /\ run' \in [Runs -> RunStates] /\ OthersStay(r)
  /\ run'[r].pc = "target" /\ run'[r].target = run[r].target + 1
  /\ run'[r].stamp = run[r].stamp /\ run'[r].resume = run[r].resume
  /\ run'[r].results = run[r].results

Plans(r) ==
  /\ run[r].pc = "target" /\ FilesStay
  /\ run[r].target \in Enabled
  /\ \/ Moves(r, "reuse") /\ Reusable(r)
     \/ Moves(r, "dump") /\ ~Reusable(r)

Reuses(r) ==
  /\ run[r].pc = "reuse" /\ FilesStay
  /\ disk[CurFile(r)] # Absent /\ Records(r, "Reused")

Dumps(r) == run[r].pc = "dump" /\ FilesStay /\ Moves(r, "publish")

Fails(r) ==
  run[r].pc \in {"dump", "publish", "check"} /\ FilesStay /\ Records(r, "Failed")

Publishes(r) ==
  /\ run[r].pc = "publish" /\ UNCHANGED <<now, manifests, cleaner>>
  /\ \E b \in Backups : b.of = run[r].target /\ disk' = [disk EXCEPT ![CurFile(r)] = b]
  /\ Moves(r, "check")

Checks(r) ==
  run[r].pc = "check" /\ FilesStay /\ Usable(CurFile(r)) /\ Moves(r, "stat")

Succeeds(r) ==
  /\ run[r].pc = "stat" /\ FilesStay
  /\ disk[CurFile(r)] # Absent /\ Records(r, "Succeeded")

Opens(r) ==
  /\ run[r].pc = "target" /\ UNCHANGED <<now, disk, cleaner>>
  /\ run[r].target \notin Targets
  /\ manifests' = [manifests EXCEPT ![run[r].stamp] = Truncated]
  /\ Moves(r, "write")

Writes(r) ==
  /\ run[r].pc = "write" /\ UNCHANGED <<now, disk, cleaner>>
  /\ manifests' = [manifests EXCEPT ![run[r].stamp] = run[r].results]
  /\ run' \in [Runs -> RunStates] /\ OthersStay(r)
  /\ run'[r].pc = "done" /\ run'[r].stamp = run[r].stamp
  /\ run'[r].results = run[r].results

Ends(r) ==
  /\ run[r].pc \in Working /\ FilesStay
  /\ run' \in [Runs -> RunStates] /\ OthersStay(r)
  /\ run'[r].pc \in {"raised", "uncaught", "killed"}
  /\ run'[r].results = [t \in Targets |-> "none"]

(* A failure is recorded, or ends the run.                                 *)
LEMMA FailLemma ==
  ASSUME run \in [Runs -> RunStates], NEW r \in Runs, Cur(r) \in Targets, Fail(r),
         run[r].pc \in {"dump", "publish", "check"}, FilesStay
  PROVE  Fails(r) \/ Ends(r)
<1>1. CASE run[r].continue
  <2>1. Record(r, "Failed") /\ "Failed" \in Outcomes
    BY <1>1 DEF Fail, Outcomes
  <2> QED
    BY <2>1, RecordLemma DEF Fails, Records, Cur, OthersStay
<1>2. CASE ~run[r].continue
  <2>1. End(r, "raised") /\ "raised" \in Ended
    BY <1>2 DEF Fail, Ended
  <2> QED
    BY <2>1, EndLemma DEF Ends, OthersStay, Working
<1> QED
  BY <1>1, <1>2

(* A stat that does not find its file ends the run.                        *)
LEMMA UncaughtLemma ==
  ASSUME run \in [Runs -> RunStates], NEW r \in Runs, End(r, "uncaught"),
         run[r].pc \in Working, FilesStay
  PROVE  Ends(r)
<1>1. "uncaught" \in Ended
  BY DEF Ended
<1> QED
  BY <1>1, EndLemma DEF Ends, OthersStay

LEMMA MovesLemma ==
  ASSUME run \in [Runs -> RunStates], NEW r \in Runs,
         NEW l \in Working \cup Ended \cup {"idle"}, Goto(r, l)
  PROVE  Moves(r, l)
BY GotoLemma DEF Moves, OthersStay

LEMMA RecordsLemma ==
  ASSUME run \in [Runs -> RunStates], NEW r \in Runs, Cur(r) \in Targets,
         NEW o \in Outcomes, Record(r, o)
  PROVE  Records(r, o)
BY RecordLemma DEF Records, OthersStay, Cur

-----------------------------------------------------------------------------
\* The invariant.

OneAtWork ==
  \A q, r \in Runs : run[q].pc \in Working /\ run[r].pc \in Working => q = r

\* How far a run is, and which targets it has an outcome for.
Course ==
  \A r \in Runs :
    /\ run[r].pc \in {"idle", "stamp"} => run[r].target = 1 /\ ~run[r].resume
    /\ run[r].pc \in {"idle", "stamp", "raised", "uncaught", "killed"} =>
         \A t \in Targets : run[r].results[t] = "none"
    /\ run[r].pc \in {"reuse", "dump", "publish", "check", "stat"} => run[r].target \in Enabled
    /\ run[r].pc = "write" => run[r].target \notin Targets
    /\ \A t \in Targets : run[r].results[t] # "none" =>
         t \in Enabled /\ (run[r].pc # "done" => t < run[r].target)
    /\ run[r].pc \in Working =>
         \A t \in Enabled : t < run[r].target => run[r].results[t] # "none"
    /\ run[r].pc = "done" => \A t \in Enabled : run[r].results[t] # "none"

\* A batch that is not resumed finds neither a manifest nor backups of its
\* name but those it writes itself.
NewBatch ==
  \A r \in Runs : run[r].pc \in Working \ {"stamp"} /\ ~run[r].resume =>
    /\ run[r].pc # "reuse"
    /\ run[r].pc # "write" => manifests[run[r].stamp] = Absent
    /\ \A t \in Enabled :
         \/ t > run[r].target
         \/ t = run[r].target /\ run[r].pc \in {"target", "dump", "publish"}
         => disk[Output(t, run[r].stamp)] = Absent

\* What a run is about to replace is no backup.
Replaceable == \A r \in Runs : run[r].pc \in {"dump", "publish"} => ~Usable(CurFile(r))

\* A run that takes the size of a file has seen that it is not empty.
Known ==
  \A r \in Runs : run[r].pc \in {"reuse", "stat"} =>
    disk[CurFile(r)] = Absent \/ Usable(CurFile(r))

OwnBackups ==
  \A t \in Enabled, s \in Stamps : disk[Output(t, s)] # Absent => disk[Output(t, s)].of = t

\* The outcomes that claim a backup: it is there, or `clean` was free to remove it.
Listing(results, s) ==
  \A t \in Targets : results[t] \in {"Succeeded", "Reused"} =>
    t \in Enabled /\ (Aged(s) \/ Usable(Output(t, s)))
ReportedByRuns == \A r \in Runs : Listing(run[r].results, run[r].stamp)
ReportedByManifests ==
  \A s \in Stamps : manifests[s] \notin {Absent, Truncated} => Listing(manifests[s], s)

\* The order of the files of a directory, and the backups that precede a file in it.
Before(g, f) == Newer(g[2], f[2]) \/ (g[2] = f[2] /\ g[3] = "mysql" /\ f[3] = "postgres")
Ahead(f) == {g \in Files : g[1] = f[1] /\ Usable(g) /\ Before(g, f)}

\* What a cleaner is about to remove is old and has enough backups ahead of it.
Cleaning ==
  \A c \in Cleaners :
    /\ cleaner[c].pc \in {"list", "unlink"} => cleaner[c].cutoff <= now - RetentionAge
    /\ cleaner[c].pc # "unlink" => cleaner[c].victims = {}
    /\ \A f \in cleaner[c].victims : f[1] # Manifests =>
         /\ f \in Files /\ f[2][1] < cleaner[c].cutoff
         /\ Cardinality(Ahead(f)) >= RetentionCount

BInv ==
  /\ Types /\ OneAtWork /\ Course /\ NewBatch /\ Replaceable /\ Known /\ OwnBackups
  /\ ReportedByRuns /\ ReportedByManifests /\ Cleaning

-----------------------------------------------------------------------------
\* The steps of a run.

Moved(r) ==
  \/ Starts(r) \/ Tries(r) \/ Skips(r) \/ Plans(r) \/ Reuses(r) \/ Dumps(r) \/ Fails(r)
  \/ Publishes(r) \/ Checks(r) \/ Succeeds(r) \/ Opens(r) \/ Writes(r) \/ Ends(r)

(* Each action of a run is one of these steps.                             *)
LEMMA RunStepLemma ==
  ASSUME Types, Course, NEW r \in Runs, RunStep(r)
  PROVE  Moved(r)
<1>1. run \in [Runs -> RunStates] /\ run[r] \in RunStates /\ Enabled \subseteq Targets
  BY DEF Types, Enabled
<1>2. run[r].pc \in {"reuse", "dump", "publish", "check", "stat"} =>
        Cur(r) \in Enabled /\ Cur(r) \in Targets
  BY <1>1 DEF Course, Cur
<1>3. CASE Start(r)
  <2>1. Starts(r)
    BY <1>3, StartLemma DEF Starts, OthersStay, FilesStay
  <2> QED
    BY <2>1 DEF Moved
<1>4. CASE NextStamp(r)
  <2>1. Tries(r)
    BY <1>4, NextStampLemma DEF Tries, OthersStay, FilesStay
  <2> QED
    BY <2>1 DEF Moved
<1>5. CASE SkipTarget(r)
  <2> DEFINE new == [run[r] EXCEPT !.target = @ + 1]
  <2>1. run' = [run EXCEPT ![r] = new]
    BY <1>1, <1>5 DEF SkipTarget
  <2>2. new \in RunStates
    BY <1>1, NextTargetLemma DEF RunStates
  <2>3. /\ new.pc = run[r].pc /\ new.target = run[r].target + 1 /\ new.stamp = run[r].stamp
        /\ new.resume = run[r].resume /\ new.results = run[r].results
    BY <1>1 DEF RunStates
  <2> HIDE DEF new
  <2>4. Skips(r)
    BY <1>1, <1>5, <2>1, <2>2, <2>3 DEF Skips, SkipTarget, OthersStay, At, Cur, FilesStay
  <2> QED
    BY <2>4 DEF Moved
<1>6. CASE PlanTarget(r)
  <2>1. /\ run[r].pc = "target" /\ FilesStay /\ Cur(r) \in Enabled
        /\ Goto(r, IF Reusable(r) THEN "reuse" ELSE "dump")
    BY <1>6 DEF PlanTarget, At, FilesStay
  <2>2. "reuse" \in Working /\ "dump" \in Working
    BY DEF Working
  <2>3. IF Reusable(r) THEN Moves(r, "reuse") ELSE Moves(r, "dump")
    BY <1>1, <2>1, <2>2, MovesLemma
  <2>4. Plans(r)
    BY <2>1, <2>3 DEF Plans, Cur
  <2> QED
    BY <2>4 DEF Moved
<1>7. CASE Reuse(r)
  <2>1. run[r].pc = "reuse" /\ FilesStay /\ Cur(r) \in Targets
    BY <1>2, <1>7 DEF Reuse, At, FilesStay
  <2>2. CASE disk[CurFile(r)] # Absent
    <3>1. Record(r, "Reused") /\ "Reused" \in Outcomes
      BY <1>7, <2>2 DEF Reuse, Outcomes
    <3>2. Reuses(r)
      BY <1>1, <2>1, <2>2, <3>1, RecordsLemma DEF Reuses
    <3> QED
      BY <3>2 DEF Moved
  <2>3. CASE disk[CurFile(r)] = Absent
    <3>1. Ends(r)
      BY <1>1, <1>7, <2>1, <2>3, UncaughtLemma DEF Reuse, Working
    <3> QED
      BY <3>1 DEF Moved
  <2> QED
    BY <2>2, <2>3
<1>8. CASE Dump(r)
  <2>1. PICK size \in {"full", "empty"} :
          run' = [run EXCEPT ![r].pc = "publish", ![r].tmp = size]
    BY <1>8 DEF Dump
  <2> DEFINE new == [run[r] EXCEPT !.pc = "publish", !.tmp = size]
  <2>2. run' = [run EXCEPT ![r] = new]
    BY <1>1, <2>1
  <2>3. new \in RunStates
    BY <1>1 DEF RunStates, Working
  <2>4. /\ new.pc = "publish" /\ new.target = run[r].target /\ new.stamp = run[r].stamp
        /\ new.resume = run[r].resume /\ new.results = run[r].results
    BY <1>1 DEF RunStates
  <2> HIDE DEF new
  <2>5. Dumps(r)
    BY <1>1, <1>8, <2>2, <2>3, <2>4 DEF Dumps, Dump, Moves, OthersStay, At, FilesStay
  <2> QED
    BY <2>5 DEF Moved
<1>9. CASE DumpFails(r)
  BY <1>1, <1>2, <1>9, FailLemma DEF DumpFails, FilesStay, Moved
<1>10. CASE Publish(r)
  <2> DEFINE new == [run[r] EXCEPT !.pc = "check", !.tmp = "none"]
             b == [by |-> r, of |-> Cur(r), empty |-> run[r].tmp = "empty"]
  <2>1. run' = [run EXCEPT ![r] = new]
    BY <1>1, <1>10 DEF Publish
  <2>2. new \in RunStates
    BY <1>1 DEF RunStates, Working
  <2>3. /\ new.pc = "check" /\ new.target = run[r].target /\ new.stamp = run[r].stamp
        /\ new.resume = run[r].resume /\ new.results = run[r].results
    BY <1>1 DEF RunStates
  <2> HIDE DEF new
  <2>4. Moves(r, "check")
    BY <1>1, <2>1, <2>2, <2>3 DEF Moves, OthersStay
  <2>5. b \in Backups /\ b.of = run[r].target
    BY <1>2, <1>10 DEF Backups, Publish, At, Cur
  <2>6. run[r].pc = "publish" /\ disk' = [disk EXCEPT ![CurFile(r)] = b]
        /\ UNCHANGED <<now, manifests, cleaner>>
    BY <1>10 DEF Publish, At
  <2> HIDE DEF b
  <2>7. Publishes(r)
    BY <2>4, <2>5, <2>6 DEF Publishes
  <2> QED
    BY <2>7 DEF Moved
<1>11. CASE CheckPublished(r)
  <2>1. run[r].pc = "check" /\ FilesStay /\ Cur(r) \in Targets
    BY <1>2, <1>11 DEF CheckPublished, At, FilesStay
  <2>2. CASE Usable(CurFile(r))
    <3>1. Goto(r, "stat") /\ "stat" \in Working
      BY <1>11, <2>2 DEF CheckPublished, Working
    <3>2. Checks(r)
      BY <1>1, <2>1, <2>2, <3>1, MovesLemma DEF Checks
    <3> QED
      BY <3>2 DEF Moved
  <2>3. CASE ~Usable(CurFile(r))
    <3>1. Fail(r)
      BY <1>11, <2>3 DEF CheckPublished
    <3> QED
      BY <1>1, <2>1, <3>1, FailLemma DEF Moved
  <2> QED
    BY <2>2, <2>3
<1>12. CASE RecordArtifact(r)
  <2>1. run[r].pc = "stat" /\ FilesStay /\ Cur(r) \in Targets
    BY <1>2, <1>12 DEF RecordArtifact, At, FilesStay
  <2>2. CASE disk[CurFile(r)] # Absent
    <3>1. Record(r, "Succeeded") /\ "Succeeded" \in Outcomes
      BY <1>12, <2>2 DEF RecordArtifact, Outcomes
    <3>2. Succeeds(r)
      BY <1>1, <2>1, <2>2, <3>1, RecordsLemma DEF Succeeds
    <3> QED
      BY <3>2 DEF Moved
  <2>3. CASE disk[CurFile(r)] = Absent
    <3>1. Ends(r)
      BY <1>1, <1>12, <2>1, <2>3, UncaughtLemma DEF RecordArtifact, Working
    <3> QED
      BY <3>1 DEF Moved
  <2> QED
    BY <2>2, <2>3
<1>13. CASE OpenManifest(r)
  <2>1. /\ run[r].pc = "target" /\ UNCHANGED <<now, disk, cleaner>> /\ Cur(r) \notin Targets
        /\ manifests' = [manifests EXCEPT ![run[r].stamp] = Truncated]
        /\ Goto(r, "write") /\ "write" \in Working
    BY <1>13 DEF OpenManifest, At, Working
  <2>2. Opens(r)
    BY <1>1, <2>1, MovesLemma DEF Opens, Cur
  <2> QED
    BY <2>2 DEF Moved
<1>14. CASE WriteManifest(r)
  <2> DEFINE new == [FreshRun EXCEPT !.pc = "done", !.stamp = run[r].stamp,
                                     !.results = run[r].results]
  <2>1. /\ run[r].pc = "write" /\ UNCHANGED <<now, disk, cleaner>>
        /\ manifests' = [manifests EXCEPT ![run[r].stamp] = run[r].results]
        /\ run' = [run EXCEPT ![r] = new]
    BY <1>14 DEF WriteManifest, At
  <2>2. "done" \in Working \cup Ended \cup {"idle"}
    BY DEF Ended
  <2>3. /\ new \in RunStates
        /\ new.pc = "done" /\ new.stamp = run[r].stamp /\ new.results = run[r].results
    BY <1>1, <2>2, FreshLemma DEF RunStates
  <2> HIDE DEF new
  <2>4. Writes(r)
    BY <1>1, <2>1, <2>3 DEF Writes, OthersStay
  <2> QED
    BY <2>4 DEF Moved
<1>15. CASE Killed(r)
  <2>1. run[r].pc \in Working /\ End(r, "killed") /\ FilesStay /\ "killed" \in Ended
    BY <1>15 DEF Killed, FilesStay, Ended
  <2>2. Ends(r)
    BY <1>1, <2>1, EndLemma DEF Ends, OthersStay
  <2> QED
    BY <2>2 DEF Moved
<1> QED
  BY <1>3, <1>4, <1>5, <1>6, <1>7, <1>8, <1>9, <1>10, <1>11, <1>12, <1>13, <1>14, <1>15
     DEF RunStep

-----------------------------------------------------------------------------
\* The backups ahead of a file.

(* There are finitely many files.                                          *)
LEMMA FilesFinite == IsFiniteSet(Files)
<1>1. PICK n \in Nat : Targets = 1 .. n
  BY TargetsLemma
<1>2. IsFiniteSet(Targets)
  BY <1>1, FS_Interval
<1>3. IsFiniteSet(0 .. MaxNow) /\ IsFiniteSet(0 .. MaxSeq)
  BY FS_Interval
<1>4. IsFiniteSet(Stamps)
  BY <1>3, FS_Product DEF Stamps
<1>5. IsFiniteSet(Targets \X Stamps)
  BY <1>2, <1>4, FS_Product
<1> DEFINE named == [x \in Targets \X Stamps |-> Output(x[1], x[2])]
<1>6. named \in Surjection(Targets \X Stamps, Files)
  <2>1. \A f \in Files : \E x \in Targets \X Stamps : named[x] = f
    <3> TAKE f \in Files
    <3>1. PICK t \in Targets, s \in Stamps : f = Output(t, s)
      BY DEF Files
    <3>2. <<t, s>> \in Targets \X Stamps /\ named[<<t, s>>] = f
      BY <3>1
    <3> QED
      BY <3>2
  <2>2. named \in [Targets \X Stamps -> Files]
    BY DEF Files
  <2> QED
    BY <2>1, <2>2 DEF Surjection
<1> QED
  BY <1>5, <1>6, FS_Surjection

(* Whole sets of files have no fewer of them than their parts.             *)
LEMMA CountLemma ==
  ASSUME NEW T \in SUBSET Files, NEW S \in SUBSET T
  PROVE  Cardinality(S) \in Nat /\ Cardinality(T) \in Nat /\ Cardinality(S) <= Cardinality(T)
<1>1. IsFiniteSet(T)
  BY FilesFinite, FS_Subset
<1>2. IsFiniteSet(S) /\ Cardinality(S) <= Cardinality(T)
  BY <1>1, FS_Subset
<1> QED
  BY <1>1, <1>2, FS_CardinalityType

(* The files of a directory are in a strict order.                         *)
LEMMA OrderLemma ==
  /\ \A f \in Files : ~Before(f, f)
  /\ \A f, g, h \in Files : Before(h, g) /\ Before(g, f) => Before(h, f)
  /\ \A f, g \in Files : Before(g, f) => g # f /\ ~Newer(f[2], g[2])
<1>1. \A f \in Files : f[2] \in Stamps /\ f[2][1] \in Nat /\ f[2][2] \in Nat
  BY OutputLemma, StampsLemma DEF Files
<1> QED
  BY <1>1 DEF Before, Newer

(* Removing a file that has enough backups ahead of it leaves enough ahead *)
(* of every other.                                                         *)
LEMMA RemovalLemma ==
  ASSUME NEW f \in Files, NEW g \in Files,
         Cardinality(Ahead(f)) >= RetentionCount, Cardinality(Ahead(g)) >= RetentionCount,
         \A h \in Files \ {g} : disk'[h] = disk[h]
  PROVE  Cardinality(Ahead(f)') >= RetentionCount
<1>1. Ahead(f)' \subseteq Files
  BY DEF Ahead
<1>2. CASE g \in Ahead(f)
  <2>1. Ahead(g) \subseteq Ahead(f)'
    BY <1>2, OrderLemma DEF Ahead, Usable
  <2> QED
    BY <1>1, <2>1, CountLemma
<1>3. CASE g \notin Ahead(f)
  <2>1. Ahead(f) \subseteq Ahead(f)'
    BY <1>3 DEF Ahead, Usable
  <2> QED
    BY <1>1, <2>1, CountLemma
<1> QED
  BY <1>2, <1>3

(* Backups that are added leave enough ahead of a file.                    *)
LEMMA AdditionLemma ==
  ASSUME NEW f \in Files, Cardinality(Ahead(f)) >= RetentionCount,
         \A h \in Files : Usable(h) => Usable(h)'
  PROVE  Cardinality(Ahead(f)') >= RetentionCount
<1>1. Ahead(f)' \subseteq Files /\ Ahead(f) \subseteq Ahead(f)'
  BY DEF Ahead
<1> QED
  BY <1>1, CountLemma

-----------------------------------------------------------------------------
\* The steps of a cleaner.

\* What a cleaner does to the files: at most one is removed, one that may be.
Removes(c) ==
  \/ UNCHANGED <<disk, manifests>>
  \/ /\ UNCHANGED disk
     /\ \E s \in Stamps : manifests' = [manifests EXCEPT ![s] = Absent]
  \/ /\ UNCHANGED manifests
     /\ \E f \in Files : /\ f \in cleaner[c].victims /\ f[1] # Manifests
                         /\ cleaner[c].pc = "unlink"
                         /\ disk' = [disk EXCEPT ![f] = Absent]

\* What is known of a cleaner that is to remove a set of files.
Armed(k, after) ==
  /\ k.pc \in {"list", "unlink"} => k.cutoff <= after - RetentionAge
  /\ k.pc # "unlink" => k.victims = {}

\* The files that a cleaner may remove on account of its cutoff.
Old(k) == \A f \in k.victims : f[1] # Manifests => f \in Files /\ f[2][1] < k.cutoff

Cleans(c) ==
  /\ UNCHANGED <<now, run>> /\ Removes(c)
  /\ cleaner' \in [Cleaners -> CleanerStates]
  /\ \A b \in Cleaners \ {c} : cleaner'[b] = cleaner[b]
  /\ Armed(cleaner'[c], now) /\ Old(cleaner'[c])
  /\ \A f \in cleaner'[c].victims : f[1] # Manifests =>
       \/ f \in cleaner[c].victims
       \/ UNCHANGED disk /\ Cardinality(Ahead(f)) >= RetentionCount

(* What clean is to remove from a directory has enough backups ahead.      *)
LEMMA VictimsLemma ==
  ASSUME NEW d, NEW cutoff \in Int, NEW f \in Victims(d, cutoff)
  PROVE  /\ f \in Files \cup ManifestFiles
         /\ f[1] # Manifests =>
              /\ f \in Files /\ f[2][1] < cutoff
              /\ Cardinality(Ahead(f)) >= RetentionCount
<1>1. f \in Listed(d) /\ ~Newest(Listed(d), f) /\ f[2][1] < cutoff
  BY DEF Victims
<1>2. CASE d = Manifests
  BY <1>1, <1>2 DEF Listed, ManifestFiles
<1>3. CASE d # Manifests
  <2>1. f \in Files /\ f[1] = d
    BY <1>1, <1>3 DEF Listed
  <2>2. {g \in Listed(d) : \/ Newer(g[2], f[2])
                           \/ g[2] = f[2] /\ g[3] = "mysql" /\ f[3] = "postgres"}
          = Ahead(f)
    BY <1>3, <2>1 DEF Listed, Ahead, Before
  <2>3. ~(Cardinality(Ahead(f)) < RetentionCount)
    BY <1>1, <2>2 DEF Newest
  <2>4. Cardinality(Ahead(f)) \in Nat
    BY CountLemma DEF Ahead
  <2> QED
    BY <1>1, <2>1, <2>3, <2>4
<1> QED
  BY <1>2, <1>3

(* What a cleaner remembers before it starts, and after it ends.           *)
LEMMA FreshCleanerLemma ==
  /\ FreshCleaner \in CleanerStates /\ FreshCleaner.pc = "idle" /\ FreshCleaner.victims = {}
  /\ \A l \in {"done", "raised"} :
       LET new == [FreshCleaner EXCEPT !.pc = l]
       IN new \in CleanerStates /\ new.pc = l /\ new.victims = {}
<1>1. FreshCleaner \in [pc : {"idle"}, dry : BOOLEAN, cutoff : Int,
                        dirs : SUBSET (Dirs \cup {Manifests}), victims : {{}}]
  BY DEF FreshCleaner
<1>2. FreshCleaner \in CleanerStates /\ FreshCleaner.pc = "idle" /\ FreshCleaner.victims = {}
  BY <1>1 DEF CleanerStates
<1> QED
  BY <1>2 DEF CleanerStates

(* Each action of a cleaner is such a step.                                *)
LEMMA CleanStepLemma ==
  ASSUME Types, Cleaning, NEW c \in Cleaners, CleanStep(c)
  PROVE  Cleans(c)
<1> DEFINE old == cleaner[c]
<1>1. /\ cleaner \in [Cleaners -> CleanerStates] /\ old \in CleanerStates
      /\ now \in Int /\ Armed(old, now) /\ Old(old)
      /\ old.victims \subseteq Files \cup ManifestFiles
      /\ old.dirs \subseteq Dirs \cup {Manifests} /\ old.cutoff \in Int
  BY DEF Types, Cleaning, CleanerStates, Armed, Old
<1>2. CASE StartClean(c)
  <2>1. PICK dry \in BOOLEAN :
          cleaner' = [cleaner EXCEPT ![c].pc = "list", ![c].dry = dry,
                        ![c].cutoff = now - RetentionAge, ![c].dirs = Dirs \cup {Manifests}]
    BY <1>2 DEF StartClean
  <2> DEFINE new == [old EXCEPT !.pc = "list", !.dry = dry, !.cutoff = now - RetentionAge,
                                !.dirs = Dirs \cup {Manifests}]
  <2>2. cleaner' = [cleaner EXCEPT ![c] = new]
    BY <1>1, <2>1
  <2>3. old.pc = "idle" /\ UNCHANGED <<now, disk, manifests, run>>
    BY <1>2 DEF StartClean
  <2>4. now - RetentionAge \in Int /\ Dirs \cup {Manifests} \in SUBSET (Dirs \cup {Manifests})
    BY <1>1
  <2>5. /\ new \in CleanerStates /\ new.pc = "list" /\ new.victims = old.victims
        /\ new.cutoff = now - RetentionAge
    BY <1>1, <2>4 DEF CleanerStates
  <2> HIDE DEF new
  <2>6. old.victims = {}
    BY <1>1, <2>3 DEF Armed
  <2> QED
    BY <1>1, <2>2, <2>3, <2>5, <2>6 DEF Cleans, Removes, Armed, Old
<1>3. CASE ListDirectory(c)
  <2>1. PICK d \in old.dirs :
          cleaner' = [cleaner EXCEPT ![c].pc = "unlink", ![c].dirs = @ \ {d},
                        ![c].victims = Victims(d, old.cutoff)]
    BY <1>3 DEF ListDirectory
  <2> DEFINE new == [old EXCEPT !.pc = "unlink", !.dirs = @ \ {d},
                                !.victims = Victims(d, old.cutoff)]
  <2>2. cleaner' = [cleaner EXCEPT ![c] = new]
    BY <1>1, <2>1
  <2>3. old.pc = "list" /\ UNCHANGED <<now, disk, manifests, run>>
    BY <1>3 DEF ListDirectory
  <2>4. \A f \in Victims(d, old.cutoff) :
          /\ f \in Files \cup ManifestFiles
          /\ f[1] # Manifests => /\ f \in Files /\ f[2][1] < old.cutoff
                                 /\ Cardinality(Ahead(f)) >= RetentionCount
    BY <1>1, VictimsLemma
  <2>5. /\ new \in CleanerStates /\ new.pc = "unlink" /\ new.cutoff = old.cutoff
        /\ new.victims = Victims(d, old.cutoff)
    BY <1>1, <2>4 DEF CleanerStates
  <2> HIDE DEF new
  <2>6. old.cutoff <= now - RetentionAge
    BY <1>1, <2>3 DEF Armed
  <2> QED
    BY <1>1, <2>2, <2>3, <2>4, <2>5, <2>6 DEF Cleans, Removes, Armed, Old
<1>4. CASE Unlink(c)
  <2>1. PICK f \in old.victims :
          /\ disk' = IF old.dry \/ f[1] = Manifests THEN disk
                     ELSE [disk EXCEPT ![f] = Absent]
          /\ manifests' = IF old.dry \/ f[1] # Manifests THEN manifests
                          ELSE [manifests EXCEPT ![f[2]] = Absent]
          /\ cleaner' = [cleaner EXCEPT ![c].victims = @ \ {f}]
    BY <1>4 DEF Unlink
  <2> DEFINE new == [old EXCEPT !.victims = @ \ {f}]
  <2>2. cleaner' = [cleaner EXCEPT ![c] = new]
    BY <1>1, <2>1
  <2>3. old.pc = "unlink" /\ UNCHANGED <<now, run>>
    BY <1>4 DEF Unlink
  <2>4. /\ new \in CleanerStates /\ new.pc = "unlink" /\ new.cutoff = old.cutoff
        /\ new.victims = old.victims \ {f}
    BY <1>1, <2>3 DEF CleanerStates
  <2> HIDE DEF new
  <2>5. Removes(c)
    <3>1. CASE old.dry
      BY <2>1, <3>1 DEF Removes
    <3>2. CASE ~old.dry /\ f[1] # Manifests
      BY <1>1, <2>1, <2>3, <3>2 DEF Removes, Old
    <3>3. CASE ~old.dry /\ f[1] = Manifests
      <4>1. f[2] \in Stamps
        BY <1>1, OutputLemma DEF Files, ManifestFiles
      <4> QED
        BY <2>1, <3>3, <4>1 DEF Removes
    <3> QED
      BY <3>1, <3>2, <3>3
  <2>6. Armed(new, now) /\ Old(new)
    BY <1>1, <2>3, <2>4 DEF Armed, Old
  <2>7. /\ cleaner' \in [Cleaners -> CleanerStates] /\ cleaner'[c] = new
        /\ \A b \in Cleaners \ {c} : cleaner'[b] = cleaner[b]
    BY <1>1, <2>2, <2>4
  <2>8. \A g \in new.victims : g \in cleaner[c].victims
    BY <2>4
  <2> QED
    BY <2>3, <2>5, <2>6, <2>7, <2>8 DEF Cleans
<1>5. CASE CleanFails(c)
  <2> DEFINE new == [FreshCleaner EXCEPT !.pc = "raised"]
  <2>1. cleaner' = [cleaner EXCEPT ![c] = new] /\ UNCHANGED <<now, disk, manifests, run>>
    BY <1>5 DEF CleanFails
  <2>2. new \in CleanerStates /\ new.pc = "raised" /\ new.victims = {}
    BY FreshCleanerLemma
  <2> HIDE DEF new
  <2> QED
    BY <1>1, <2>1, <2>2 DEF Cleans, Removes, Armed, Old
<1>6. CASE DirectoryDone(c)
  <2> DEFINE new == IF old.dirs = {} THEN [FreshCleaner EXCEPT !.pc = "done"]
                    ELSE [old EXCEPT !.pc = "list"]
  <2>1. /\ old.pc = "unlink" /\ old.victims = {}
        /\ cleaner' = [cleaner EXCEPT ![c] = new] /\ UNCHANGED <<now, disk, manifests, run>>
    BY <1>1, <1>6 DEF DirectoryDone
  <2>2. /\ new \in CleanerStates /\ new.pc \in {"done", "list"} /\ new.victims = {}
        /\ new.pc = "list" => new.cutoff = old.cutoff
    <3>1. LET k == [FreshCleaner EXCEPT !.pc = "done"]
          IN k \in CleanerStates /\ k.pc = "done" /\ k.victims = {}
      BY FreshCleanerLemma
    <3>2. LET k == [old EXCEPT !.pc = "list"]
          IN /\ k \in CleanerStates /\ k.pc = "list" /\ k.victims = old.victims
             /\ k.cutoff = old.cutoff
      BY <1>1 DEF CleanerStates
    <3> QED
      BY <2>1, <3>1, <3>2
  <2> HIDE DEF new
  <2> QED
    BY <1>1, <2>1, <2>2 DEF Cleans, Removes, Armed, Old
<1> QED
  BY <1>2, <1>3, <1>4, <1>5, <1>6 DEF CleanStep

-----------------------------------------------------------------------------
\* Each part of the invariant is kept by the steps of a run.

(* While a run takes a step, no other is at work.                          *)
LEMMA OthersLemma ==
  ASSUME ~Overlap, OneAtWork, NEW r \in Runs, Moved(r)
  PROVE  OthersStay(r) /\ \A q \in Runs \ {r} : run'[q].pc \notin Working
<1>1. OthersStay(r)
  BY DEF Moved, Starts, Tries, Skips, Plans, Reuses, Dumps, Fails, Publishes, Checks, Succeeds,
         Opens, Writes, Ends, Moves, Records
<1>2. run[r].pc \in Working \/ \A q \in Runs : run[q].pc \notin Working
  BY DEF Moved, Starts, Tries, Skips, Plans, Reuses, Dumps, Fails, Publishes, Checks, Succeeds,
         Opens, Writes, Ends, Working
<1> QED
  BY <1>1, <1>2 DEF OthersStay, OneAtWork

(* A step of a run leaves the types as they are.                           *)
LEMMA MovedTypes ==
  ASSUME Types, Course, NEW r \in Runs, Moved(r)
  PROVE  Types'
<1>1. /\ run \in [Runs -> RunStates] /\ run[r] \in RunStates
      /\ run[r].stamp \in Stamps /\ run[r].results \in [Targets -> Outcomes]
      /\ disk \in [Files -> Backups \cup {Absent}] /\ now \in 0 .. MaxNow
      /\ manifests \in [Stamps -> [Targets -> Outcomes] \cup {Absent, Truncated}]
      /\ cleaner \in [Cleaners -> CleanerStates]
  BY DEF Types, RunStates
<1>2. run' \in [Runs -> RunStates] /\ UNCHANGED <<now, cleaner>>
  BY DEF Moved, Starts, Tries, Skips, Plans, Reuses, Dumps, Fails, Publishes, Checks, Succeeds,
         Opens, Writes, Ends, Moves, Records, FilesStay
<1>3. disk' \in [Files -> Backups \cup {Absent}]
  <2>1. CASE Publishes(r)
    BY <1>1, <2>1 DEF Publishes
  <2>2. CASE ~Publishes(r)
    BY <1>1, <2>2 DEF Moved, Starts, Tries, Skips, Plans, Reuses, Dumps, Fails, Checks,
         Succeeds, Opens, Writes, Ends, FilesStay
  <2> QED
    BY <2>1, <2>2
<1>4. manifests' \in [Stamps -> [Targets -> Outcomes] \cup {Absent, Truncated}]
  <2>1. CASE Opens(r)
    BY <1>1, <2>1 DEF Opens
  <2>2. CASE Writes(r)
    BY <1>1, <2>2 DEF Writes
  <2>3. CASE ~Opens(r) /\ ~Writes(r)
    BY <1>1, <2>3 DEF Moved, Starts, Tries, Skips, Plans, Reuses, Dumps, Fails, Publishes,
         Checks, Succeeds, Ends, FilesStay
  <2> QED
    BY <2>1, <2>2, <2>3
<1> QED
  BY <1>1, <1>2, <1>3, <1>4 DEF Types

(* Two runs are not at work together.                                      *)
LEMMA MovedOneAtWork ==
  ASSUME ~Overlap, OneAtWork, NEW r \in Runs, Moved(r)
  PROVE  OneAtWork'
BY OthersLemma DEF OneAtWork

(* Runs stay on their course.                                              *)
LEMMA MovedCourse ==
  ASSUME Types, Course, NEW r \in Runs, Moved(r)
  PROVE  Course'
<1> DEFINE Of(k) ==
      /\ k.pc \in {"idle", "stamp"} => k.target = 1 /\ ~k.resume
      /\ k.pc \in {"idle", "stamp", "raised", "uncaught", "killed"} =>
           \A t \in Targets : k.results[t] = "none"
      /\ k.pc \in {"reuse", "dump", "publish", "check", "stat"} => k.target \in Enabled
      /\ k.pc = "write" => k.target \notin Targets
      /\ \A t \in Targets : k.results[t] # "none" =>
           t \in Enabled /\ (k.pc # "done" => t < k.target)
      /\ k.pc \in Working => \A t \in Enabled : t < k.target => k.results[t] # "none"
      /\ k.pc = "done" => \A t \in Enabled : k.results[t] # "none"
<1>1. Of(run[r]) /\ run[r] \in RunStates
  BY DEF Course, Types
<1>2. /\ run[r].target \in Nat \ {0} /\ run[r].results \in [Targets -> Outcomes]
      /\ Targets \subseteq Nat \ {0} /\ Enabled \subseteq Targets
  BY <1>1, TargetsLemma DEF RunStates, Enabled
<1>3. OthersStay(r)
  BY DEF Moved, Starts, Tries, Skips, Plans, Reuses, Dumps, Fails, Publishes, Checks, Succeeds,
         Opens, Writes, Ends, Moves, Records
<1>4. \A t \in Targets : t < run[r].target + 1 <=> t < run[r].target \/ t = run[r].target
  <2> SUFFICES ASSUME NEW t \in Targets
               PROVE  t < run[r].target + 1 <=> t < run[r].target \/ t = run[r].target
    OBVIOUS
  <2>1. t \in Nat /\ run[r].target \in Nat
    BY <1>2
  <2> QED
    BY <2>1
<1>5. run[r].target \in Targets => run[r].target < run[r].target + 1
  BY <1>2
<1>6. Of(run'[r])
  <2>1. CASE Starts(r)
    BY <1>1, <1>2, <2>1 DEF Starts, Working
  <2>2. CASE Tries(r)
    BY <1>1, <1>2, <2>2 DEF Tries, Working
  <2>3. CASE Skips(r)
    BY <1>1, <1>2, <1>4, <1>5, <2>3 DEF Skips, Working
  <2>4. CASE Plans(r)
    BY <1>1, <1>2, <2>4 DEF Plans, Moves, Working
  <2>5. CASE Reuses(r)
    BY <1>1, <1>2, <1>4, <1>5, <2>5 DEF Reuses, Records, Working
  <2>6. CASE Dumps(r)
    BY <1>1, <1>2, <2>6 DEF Dumps, Moves, Working
  <2>7. CASE Fails(r)
    BY <1>1, <1>2, <1>4, <1>5, <2>7 DEF Fails, Records, Working
  <2>8. CASE Publishes(r)
    BY <1>1, <1>2, <2>8 DEF Publishes, Moves, Working
  <2>9. CASE Checks(r)
    BY <1>1, <1>2, <2>9 DEF Checks, Moves, Working
  <2>10. CASE Succeeds(r)
    BY <1>1, <1>2, <1>4, <1>5, <2>10 DEF Succeeds, Records, Working
  <2>11. CASE Opens(r)
    BY <1>1, <1>2, <2>11 DEF Opens, Moves, Working
  <2>12. CASE Writes(r)
    BY <1>1, <1>2, <2>12, NextTargetLemma DEF Writes, Working
  <2>13. CASE Ends(r)
    BY <1>1, <1>2, <2>13 DEF Ends, Working
  <2> QED
    BY <2>1, <2>2, <2>3, <2>4, <2>5, <2>6, <2>7, <2>8, <2>9, <2>10, <2>11, <2>12, <2>13
       DEF Moved
<1> QED
  BY <1>3, <1>6 DEF Course, OthersStay

(* The file of the target that a run works on.                             *)
LEMMA CurFileLemma ==
  ASSUME Types, Course, NEW r \in Runs,
         run[r].pc \in {"reuse", "dump", "publish", "check", "stat"}
  PROVE  /\ run[r].target \in Enabled /\ run[r].target \in Targets /\ run[r].stamp \in Stamps
         /\ CurFile(r) = Output(run[r].target, run[r].stamp)
         /\ CurFile(r) \in Files /\ CurFile(r)[2] = run[r].stamp
<1>1. /\ run[r].target \in Enabled /\ run[r].target \in Targets /\ run[r].stamp \in Stamps
  BY DEF Types, Course, RunStates, Enabled
<1> QED
  BY <1>1, OutputLemma DEF CurFile, Cur

(* A run changes a file only by publishing, and then what is no backup.    *)
LEMMA MovedDisk ==
  ASSUME Types, Course, Replaceable, NEW r \in Runs, Moved(r)
  PROVE  /\ now' = now /\ cleaner' = cleaner
         /\ \A f \in Files : \/ disk'[f] = disk[f]
                             \/ /\ Publishes(r) /\ f = CurFile(r) /\ ~Usable(f)
                                /\ disk'[f] \in Backups /\ disk'[f].of = run[r].target
         /\ \A f \in Files : Usable(f) => Usable(f)'
<1>1. now' = now /\ cleaner' = cleaner
  BY DEF Moved, Starts, Tries, Skips, Plans, Reuses, Dumps, Fails, Publishes, Checks, Succeeds,
         Opens, Writes, Ends, FilesStay
<1>2. CASE Publishes(r)
  <2>1. CurFile(r) \in Files /\ ~Usable(CurFile(r)) /\ disk \in [Files -> Backups \cup {Absent}]
    BY <1>2, CurFileLemma DEF Publishes, Replaceable, Types
  <2>2. PICK b \in Backups : b.of = run[r].target /\ disk' = [disk EXCEPT ![CurFile(r)] = b]
    BY <1>2 DEF Publishes
  <2>3. \A f \in Files : disk'[f] = IF f = CurFile(r) THEN b ELSE disk[f]
    BY <2>1, <2>2
  <2>4. \A f \in Files : Usable(f) => Usable(f)'
    BY <2>1, <2>3 DEF Usable
  <2> QED
    BY <1>1, <1>2, <2>1, <2>2, <2>3, <2>4
<1>3. CASE ~Publishes(r)
  <2>1. UNCHANGED disk
    BY <1>3 DEF Moved, Starts, Tries, Skips, Plans, Reuses, Dumps, Fails, Checks, Succeeds,
                Opens, Writes, Ends, FilesStay
  <2> QED
    BY <1>1, <2>1 DEF Usable
<1> QED
  BY <1>2, <1>3

(* A batch that is not resumed still finds only what it writes itself.     *)
LEMMA MovedNewBatch ==
  ASSUME ~Overlap, SeparateOutputs, Types, OneAtWork, Course, NewBatch, NEW r \in Runs, Moved(r)
  PROVE  NewBatch'
<1> DEFINE Of(k, files, lists) ==
      k.pc \in Working \ {"stamp"} /\ ~k.resume =>
        /\ k.pc # "reuse"
        /\ k.pc # "write" => lists[k.stamp] = Absent
        /\ \A t \in Enabled :
             \/ t > k.target
             \/ t = k.target /\ k.pc \in {"target", "dump", "publish"}
             => files[Output(t, k.stamp)] = Absent
<1>1. Of(run[r], disk, manifests) /\ run[r] \in RunStates
  BY DEF NewBatch, Types
<1>2. /\ run[r].target \in Nat \ {0} /\ run[r].stamp \in Stamps
      /\ Targets \subseteq Nat \ {0} /\ Enabled \subseteq Targets
      /\ run[r].pc \in {"idle", "stamp"} => ~run[r].resume
  BY <1>1, TargetsLemma DEF RunStates, Enabled, Course
<1>3. \A t \in Targets : t > run[r].target + 1 \/ t = run[r].target + 1 => t > run[r].target
  BY <1>2
<1>4. Of(run'[r], disk', manifests')
  <2>1. CASE Starts(r)
    BY <1>2, <2>1 DEF Starts
  <2>2. CASE Tries(r)
    <3>1. ASSUME run'[r].pc = "target", run'[r].stamp = run[r].stamp, ~Taken(run[r].stamp)
          PROVE  manifests[run[r].stamp] = Absent
                 /\ \A t \in Targets : disk[Output(t, run[r].stamp)] = Absent
      BY <3>1 DEF Taken
    <3> QED
      BY <1>2, <2>2, <3>1 DEF Tries, FilesStay
  <2>3. CASE Skips(r)
    BY <1>1, <1>2, <1>3, <2>3 DEF Skips, FilesStay, Working
  <2>4. CASE Plans(r)
    BY <1>1, <1>2, <2>4 DEF Plans, Moves, FilesStay, Working, Reusable
  <2>5. CASE Reuses(r)
    BY <1>1, <2>5 DEF Reuses, Records, Working
  <2>6. CASE Dumps(r)
    BY <1>1, <2>6 DEF Dumps, Moves, FilesStay, Working
  <2>7. CASE Fails(r)
    BY <1>1, <1>2, <1>3, <2>7 DEF Fails, Records, FilesStay, Working
  <2>8. CASE Publishes(r)
    <3>1. \A t \in Enabled : t > run[r].target => Output(t, run[r].stamp) # CurFile(r)
      BY <1>2, <2>8, CurFileLemma, OutputLemma DEF Publishes, SeparateOutputs
    <3>2. \A t \in Enabled : t > run[r].target =>
            disk'[Output(t, run[r].stamp)] = disk[Output(t, run[r].stamp)]
      BY <1>2, <2>8, <3>1, OutputLemma DEF Publishes, Types
    <3> QED
      BY <1>1, <2>8, <3>2 DEF Publishes, Moves, Working
  <2>9. CASE Checks(r)
    BY <1>1, <2>9 DEF Checks, Moves, FilesStay, Working
  <2>10. CASE Succeeds(r)
    BY <1>1, <1>2, <1>3, <2>10 DEF Succeeds, Records, FilesStay, Working
  <2>11. CASE Opens(r)
    BY <1>1, <1>2, <2>11 DEF Opens, Moves, Working
  <2>12. CASE Writes(r)
    BY <2>12 DEF Writes, Working
  <2>13. CASE Ends(r)
    BY <2>13 DEF Ends, Working
  <2> QED
    BY <2>1, <2>2, <2>3, <2>4, <2>5, <2>6, <2>7, <2>8, <2>9, <2>10, <2>11, <2>12, <2>13
       DEF Moved
<1> QED
  BY <1>4, OthersLemma DEF NewBatch

(* What a run is about to replace is no backup: it has looked, or the name *)
(* was free when it was chosen.                                            *)
LEMMA MovedReplaceable ==
  ASSUME ~Overlap, Types, OneAtWork, Course, NewBatch, Replaceable, NEW r \in Runs, Moved(r)
  PROVE  Replaceable'
<1> DEFINE Of(k, files) ==
      k.pc \in {"dump", "publish"} =>
        \/ files[Output(k.target, k.stamp)] = Absent
        \/ files[Output(k.target, k.stamp)].empty
<1>1. \A q \in Runs : run[q].pc \in {"dump", "publish"} => run[q].pc \in Working
  BY DEF Working
<1>2. Of(run[r], disk)
  BY DEF Replaceable, Usable, CurFile, Cur
<1>3. Of(run'[r], disk')
  <2>1. CASE Plans(r)
    <3>1. CASE Moves(r, "reuse")
      BY <3>1 DEF Moves
    <3>2. CASE Moves(r, "dump") /\ ~Reusable(r)
      <4>1. CASE run[r].resume
        BY <2>1, <3>2, <4>1 DEF Plans, Moves, Reusable, Usable, CurFile, Cur, FilesStay
      <4>2. CASE ~run[r].resume
        <5>1. disk[Output(run[r].target, run[r].stamp)] = Absent
          BY <2>1, <4>2 DEF Plans, NewBatch, Working
        <5> QED
          BY <2>1, <3>2, <5>1 DEF Plans, Moves, FilesStay
      <4> QED
        BY <4>1, <4>2
    <3> QED
      BY <2>1, <3>1, <3>2 DEF Plans
  <2>2. CASE Dumps(r)
    BY <1>2, <2>2 DEF Dumps, Moves, FilesStay
  <2>3. CASE ~Plans(r) /\ ~Dumps(r)
    BY <2>3 DEF Moved, Starts, Tries, Skips, Reuses, Fails, Publishes, Checks, Succeeds,
                Opens, Writes, Ends, Moves, Records
  <2> QED
    BY <2>1, <2>2, <2>3
<1>4. \A q \in Runs \ {r} : run'[q].pc \notin {"dump", "publish"}
  BY OthersLemma DEF Working
<1> QED
  BY <1>3, <1>4 DEF Replaceable, Usable, CurFile, Cur

(* A run that takes the size of a file has seen that it is not empty.      *)
LEMMA MovedKnown ==
  ASSUME ~Overlap, Types, OneAtWork, Course, Known, NEW r \in Runs, Moved(r)
  PROVE  Known'
<1> DEFINE Of(k, files) ==
      k.pc \in {"reuse", "stat"} =>
        LET f == Output(k.target, k.stamp) IN files[f] = Absent \/ ~files[f].empty
<1>1. Of(run'[r], disk')
  <2>1. CASE Plans(r)
    BY <2>1 DEF Plans, Moves, Reusable, Usable, CurFile, Cur, FilesStay
  <2>2. CASE Checks(r)
    BY <2>2 DEF Checks, Moves, Usable, CurFile, Cur, FilesStay
  <2>3. CASE ~Plans(r) /\ ~Checks(r)
    BY <2>3 DEF Moved, Starts, Tries, Skips, Reuses, Dumps, Fails, Publishes, Succeeds,
                Opens, Writes, Ends, Moves, Records
  <2> QED
    BY <2>1, <2>2, <2>3
<1>2. \A q \in Runs \ {r} : run'[q].pc \notin {"reuse", "stat"}
  BY OthersLemma DEF Working
<1> QED
  BY <1>1, <1>2 DEF Known, Usable, CurFile, Cur

(* A file is a backup of the target it is named after.                     *)
LEMMA MovedOwnBackups ==
  ASSUME SeparateOutputs, Types, Course, Replaceable, OwnBackups, NEW r \in Runs, Moved(r)
  PROVE  OwnBackups'
<1> SUFFICES ASSUME NEW t \in Enabled, NEW s \in Stamps, disk'[Output(t, s)] # Absent
             PROVE  disk'[Output(t, s)].of = t
  BY DEF OwnBackups
<1>1. t \in Targets /\ Output(t, s) \in Files
  BY OutputLemma DEF Enabled
<1>2. CASE disk'[Output(t, s)] = disk[Output(t, s)]
  BY <1>2 DEF OwnBackups
<1>3. CASE /\ Publishes(r) /\ Output(t, s) = CurFile(r)
           /\ disk'[Output(t, s)].of = run[r].target
  <2>1. /\ run[r].target \in Enabled /\ run[r].target \in Targets /\ run[r].stamp \in Stamps
        /\ CurFile(r) = Output(run[r].target, run[r].stamp)
    BY <1>3, CurFileLemma DEF Publishes
  <2>2. run[r].target = t
    BY <1>1, <1>3, <2>1, OutputLemma DEF SeparateOutputs
  <2> QED
    BY <1>3, <2>2
<1> QED
  BY <1>1, <1>2, <1>3, MovedDisk

(* What is listed stays there while runs take steps.                       *)
LEMMA ListingLemma ==
  ASSUME now' = now, \A f \in Files : Usable(f) => Usable(f)',
         NEW results \in [Targets -> Outcomes], NEW s \in Stamps, Listing(results, s)
  PROVE  Listing(results, s)'
BY OutputLemma DEF Listing, Aged

(* The outcomes of a run claim only backups that are there.                *)
LEMMA MovedReportedByRuns ==
  ASSUME Types, Course, Replaceable, Known, ReportedByRuns, NEW r \in Runs, Moved(r)
  PROVE  ReportedByRuns'
<1>1. /\ now' = now /\ \A f \in Files : Usable(f) => Usable(f)'
      /\ \A q \in Runs : /\ run[q].results \in [Targets -> Outcomes] /\ run[q].stamp \in Stamps
                         /\ Listing(run[q].results, run[q].stamp)
  BY MovedDisk DEF Types, RunStates, ReportedByRuns
<1>2. \A q \in Runs : \A results, s :
        results = run[q].results /\ s = run[q].stamp => Listing(results, s)'
  BY <1>1, ListingLemma
<1>3. OthersStay(r)
  BY DEF Moved, Starts, Tries, Skips, Plans, Reuses, Dumps, Fails, Publishes, Checks, Succeeds,
         Opens, Writes, Ends, Moves, Records
<1>4. ASSUME NEW q \in Runs PROVE Listing(run[q].results, run[q].stamp)'
  <2>1. CASE q # r
    <3>1. run'[q] = run[q]
      BY <1>3, <2>1 DEF OthersStay
    <3> QED
      BY <1>2, <3>1
  <2>2. CASE q = r /\ run'[r].results = run[r].results /\ run'[r].stamp = run[r].stamp
    BY <1>2, <2>2
  <2>3. CASE q = r /\ \A t \in Targets : run'[r].results[t] = "none"
    BY <2>3 DEF Listing
  <2>4. CASE q = r /\ (Reuses(r) \/ Succeeds(r) \/ Fails(r))
    <3>1. PICK o \in {"Reused", "Succeeded", "Failed"} :
            Records(r, o) /\ (o # "Failed" => Usable(Output(run[r].target, run[r].stamp)))
      BY <2>4 DEF Reuses, Succeeds, Fails, Known, CurFile, Cur
    <3>2. run[r].target \in Enabled /\ run[r].target \in Targets /\ run[r].stamp \in Stamps
      BY <2>4, CurFileLemma DEF Reuses, Succeeds, Fails
    <3>3. \A t \in Targets : run'[r].results[t] =
            IF t = run[r].target THEN o ELSE run[r].results[t]
      BY <1>1, <3>1, <3>2 DEF Records
    <3>4. run'[r].stamp = run[r].stamp
      BY <3>1 DEF Records
    <3>5. PICK n \in Enabled, s \in Stamps, old \in [Targets -> Outcomes] :
            n = run[r].target /\ s = run[r].stamp /\ old = run[r].results
      BY <1>1, <3>2
    <3>6. Listing(old, s)' /\ Output(n, s) \in Files
      BY <1>2, <3>2, <3>5, OutputLemma
    <3>7. o # "Failed" => Usable(Output(n, s))'
      BY <1>1, <3>1, <3>5, <3>6
    <3>8. \A t \in Targets : run'[r].results[t] \in {"Succeeded", "Reused"} =>
            t \in Enabled /\ (Aged(s)' \/ Usable(Output(t, s))')
      BY <3>1, <3>3, <3>5, <3>6, <3>7 DEF Listing
    <3> QED
      BY <2>4, <3>4, <3>5, <3>8 DEF Listing
  <2>5. \/ Reuses(r) \/ Succeeds(r) \/ Fails(r)
        \/ run'[r].results = run[r].results /\ run'[r].stamp = run[r].stamp
        \/ \A t \in Targets : run'[r].results[t] = "none"
    BY DEF Moved, Starts, Tries, Skips, Plans, Dumps, Publishes, Checks, Opens, Writes, Ends,
           Moves, Course
  <2> QED
    BY <2>1, <2>2, <2>3, <2>4, <2>5
<1> QED
  BY <1>4 DEF ReportedByRuns

(* A manifest claims only backups that are there.                          *)
LEMMA MovedReportedByManifests ==
  ASSUME Types, Course, Replaceable, ReportedByRuns, ReportedByManifests,
         NEW r \in Runs, Moved(r)
  PROVE  ReportedByManifests'
<1>1. /\ now' = now /\ \A f \in Files : Usable(f) => Usable(f)'
      /\ run[r].results \in [Targets -> Outcomes] /\ run[r].stamp \in Stamps
      /\ manifests \in [Stamps -> [Targets -> Outcomes] \cup {Absent, Truncated}]
  BY MovedDisk DEF Types, RunStates
<1>2. ASSUME NEW s \in Stamps, NEW results \in [Targets -> Outcomes],
             manifests'[s] = results
      PROVE  Listing(results, s)'
  <2>1. CASE manifests'[s] = manifests[s]
    <3>1. Listing(results, s)
      BY <1>2, <2>1 DEF ReportedByManifests
    <3> QED
      BY <1>1, <3>1, ListingLemma
  <2>2. CASE Writes(r) /\ s = run[r].stamp
    <3>1. results = run[r].results
      BY <1>1, <1>2, <2>2 DEF Writes
    <3>2. Listing(results, s)
      BY <2>2, <3>1 DEF ReportedByRuns
    <3> QED
      BY <1>1, <3>2, ListingLemma
  <2>3. CASE Opens(r) /\ s = run[r].stamp
    <3>1. manifests'[s] = Truncated
      BY <1>1, <2>3 DEF Opens
    <3> QED
      BY <1>2, <3>1
  <2> QED
    BY <1>1, <2>1, <2>2, <2>3 DEF Moved, Starts, Tries, Skips, Plans, Reuses, Dumps, Fails,
       Publishes, Checks, Succeeds, Opens, Writes, Ends, FilesStay
<1>3. Types'
  BY MovedTypes
<1>4. \A s \in Stamps : manifests'[s] \notin {Absent, Truncated} =>
        \E results \in [Targets -> Outcomes] : manifests'[s] = results
  BY <1>3 DEF Types
<1>5. \A s \in Stamps : manifests'[s] \notin {Absent, Truncated} => Listing(manifests[s], s)'
  BY <1>2, <1>4
<1> QED
  BY <1>5 DEF ReportedByManifests

(* A run takes away nothing that keeps a file from being removed.          *)
LEMMA MovedCleaning ==
  ASSUME Types, Course, Replaceable, Cleaning, NEW r \in Runs, Moved(r)
  PROVE  Cleaning'
<1>1. now' = now /\ cleaner' = cleaner /\ \A f \in Files : Usable(f) => Usable(f)'
  BY MovedDisk
<1>2. \A f \in Files : Cardinality(Ahead(f)) >= RetentionCount =>
        Cardinality(Ahead(f)') >= RetentionCount
  BY <1>1, AdditionLemma
<1> QED
  BY <1>1, <1>2 DEF Cleaning

-----------------------------------------------------------------------------
\* Each part of the invariant is kept by the steps of a cleaner.

(* A cleaner removes only what is old and has enough backups ahead of it.  *)
LEMMA CleansDisk ==
  ASSUME Types, Cleaning, NEW c \in Cleaners, Cleans(c)
  PROVE  /\ now' = now /\ run' = run
         /\ \A f \in Files : \/ disk'[f] = disk[f]
                             \/ /\ disk'[f] = Absent /\ Aged(f[2])
                                /\ Cardinality(Ahead(f)) >= RetentionCount
                                /\ \A g \in Files \ {f} : disk'[g] = disk[g]
         /\ \A s \in Stamps : manifests'[s] \in {manifests[s], Absent}
         /\ disk' \in [Files -> Backups \cup {Absent}]
         /\ manifests' \in [Stamps -> [Targets -> Outcomes] \cup {Absent, Truncated}]
<1>1. now' = now /\ run' = run /\ Removes(c)
  BY DEF Cleans
<1>2. /\ disk \in [Files -> Backups \cup {Absent}] /\ now \in Int
      /\ manifests \in [Stamps -> [Targets -> Outcomes] \cup {Absent, Truncated}]
      /\ cleaner[c] \in CleanerStates /\ cleaner[c].cutoff \in Int
  BY DEF Types, CleanerStates
<1>3. CASE UNCHANGED <<disk, manifests>>
  BY <1>1, <1>2, <1>3
<1>4. CASE UNCHANGED disk /\ \E s \in Stamps : manifests' = [manifests EXCEPT ![s] = Absent]
  BY <1>1, <1>2, <1>4
<1>5. ASSUME UNCHANGED manifests, NEW f \in Files, f \in cleaner[c].victims,
             f[1] # Manifests, cleaner[c].pc = "unlink", disk' = [disk EXCEPT ![f] = Absent]
      PROVE  /\ \A h \in Files : \/ disk'[h] = disk[h]
                                 \/ /\ disk'[h] = Absent /\ Aged(h[2])
                                    /\ Cardinality(Ahead(h)) >= RetentionCount
                                    /\ \A g \in Files \ {h} : disk'[g] = disk[g]
             /\ disk' \in [Files -> Backups \cup {Absent}]
  <2>1. /\ f[2][1] < cleaner[c].cutoff /\ cleaner[c].cutoff <= now - RetentionAge
        /\ Cardinality(Ahead(f)) >= RetentionCount
    BY <1>5 DEF Cleaning
  <2>2. f[2][1] \in Int
    BY OutputLemma, StampsLemma DEF Files
  <2>3. Aged(f[2])
    BY <1>2, <2>1, <2>2 DEF Aged
  <2> QED
    BY <1>2, <1>5, <2>1, <2>3
<1> QED
  BY <1>1, <1>2, <1>3, <1>4, <1>5 DEF Removes

(* The types.                                                              *)
LEMMA CleansTypes ==
  ASSUME Types, Cleaning, NEW c \in Cleaners, Cleans(c)
  PROVE  Types'
BY CleansDisk DEF Cleans, Types

(* What the runs know stays true.                                          *)
LEMMA CleansRuns ==
  ASSUME Types, Cleaning, NEW c \in Cleaners, Cleans(c)
  PROVE  /\ OneAtWork => OneAtWork'
         /\ Course => Course'
         /\ Course /\ NewBatch => NewBatch'
         /\ Course /\ Replaceable => Replaceable'
         /\ Course /\ Known => Known'
         /\ OwnBackups => OwnBackups'
<1>1. /\ run' = run
      /\ \A f \in Files : disk'[f] \in {disk[f], Absent}
      /\ \A s \in Stamps : manifests'[s] \in {manifests[s], Absent}
      /\ \A r \in Runs : run[r].stamp \in Stamps
  BY CleansDisk DEF Types, RunStates
<1>2. \A t \in Enabled, s \in Stamps : Output(t, s) \in Files
  BY OutputLemma DEF Enabled
<1>3. OneAtWork => OneAtWork'
  BY <1>1 DEF OneAtWork
<1>4. Course => Course'
  BY <1>1 DEF Course
<1>5. NewBatch => NewBatch'
  BY <1>1, <1>2 DEF NewBatch
<1>6. Course /\ Replaceable => Replaceable'
  BY <1>1, <1>2 DEF Replaceable, Course, Usable, CurFile, Cur
<1>7. Course /\ Known => Known'
  BY <1>1, <1>2 DEF Known, Course, Usable, CurFile, Cur
<1>8. OwnBackups => OwnBackups'
  BY <1>1, <1>2 DEF OwnBackups
<1> QED
  BY <1>3, <1>4, <1>5, <1>6, <1>7, <1>8

(* What is listed has aged when it is removed.                             *)
LEMMA CleansListing ==
  ASSUME Types, Cleaning, NEW c \in Cleaners, Cleans(c),
         NEW results \in [Targets -> Outcomes], NEW s \in Stamps, Listing(results, s)
  PROVE  Listing(results, s)'
<1> SUFFICES ASSUME NEW t \in Targets, results[t] \in {"Succeeded", "Reused"}
             PROVE  t \in Enabled /\ (Aged(s)' \/ Usable(Output(t, s))')
  BY DEF Listing
<1>1. t \in Enabled /\ (Aged(s) \/ Usable(Output(t, s)))
  BY DEF Listing
<1>2. Output(t, s) \in Files /\ Output(t, s)[2] = s
  BY OutputLemma
<1>3. now' = now /\ (disk'[Output(t, s)] = disk[Output(t, s)] \/ Aged(s))
  BY <1>2, CleansDisk
<1> QED
  BY <1>1, <1>3 DEF Aged, Usable

(* What runs and manifests claim.                                          *)
LEMMA CleansReports ==
  ASSUME Types, Cleaning, NEW c \in Cleaners, Cleans(c)
  PROVE  /\ ReportedByRuns => ReportedByRuns'
         /\ ReportedByManifests => ReportedByManifests'
<1>1. ASSUME ReportedByRuns, NEW r \in Runs PROVE Listing(run[r].results, run[r].stamp)'
  <2>1. PICK results \in [Targets -> Outcomes], s \in Stamps :
          results = run[r].results /\ s = run[r].stamp
    BY DEF Types, RunStates
  <2>2. Listing(results, s)'
    BY <1>1, <2>1, CleansListing DEF ReportedByRuns
  <2>3. run'[r].results = results /\ run'[r].stamp = s
    BY <2>1, CleansDisk
  <2> QED
    BY <2>2, <2>3 DEF Listing
<1>2. ASSUME ReportedByManifests, NEW s \in Stamps, manifests'[s] \notin {Absent, Truncated}
      PROVE  Listing(manifests[s], s)'
  <2>1. PICK results \in [Targets -> Outcomes] : results = manifests[s] /\ results = manifests'[s]
    BY <1>2, CleansDisk DEF Types
  <2>2. Listing(results, s)'
    BY <1>2, <2>1, CleansListing DEF ReportedByManifests
  <2> QED
    BY <2>1, <2>2 DEF Listing
<1> QED
  BY <1>1, <1>2 DEF ReportedByRuns, ReportedByManifests

(* What the cleaners are about to remove keeps enough backups ahead of it, *)
(* whatever another one removes first.                                     *)
LEMMA CleansCleaning ==
  ASSUME Types, Cleaning, NEW c \in Cleaners, Cleans(c)
  PROVE  Cleaning'
<1>1. ASSUME NEW f \in Files, Cardinality(Ahead(f)) >= RetentionCount
      PROVE  Cardinality(Ahead(f)') >= RetentionCount
  <2>1. CASE \A h \in Files : disk'[h] = disk[h]
    <3>1. \A h \in Files : Usable(h) => Usable(h)'
      BY <2>1 DEF Usable
    <3> QED
      BY <1>1, <3>1, AdditionLemma
  <2>2. ASSUME NEW g \in Files, disk'[g] # disk[g] PROVE Cardinality(Ahead(f)') >= RetentionCount
    <3>1. /\ Cardinality(Ahead(g)) >= RetentionCount
          /\ \A h \in Files \ {g} : disk'[h] = disk[h]
      BY <2>2, CleansDisk
    <3> QED
      BY <1>1, <3>1, RemovalLemma
  <2> QED
    BY <2>1, <2>2
<1>2. \A f \in Files : UNCHANGED disk /\ Cardinality(Ahead(f)) >= RetentionCount =>
        Cardinality(Ahead(f)') >= RetentionCount
  BY <1>1
<1>3. ASSUME NEW b \in Cleaners
      PROVE  /\ Armed(cleaner'[b], now) /\ Old(cleaner'[b])
             /\ \A f \in cleaner'[b].victims : f[1] # Manifests =>
                  Cardinality(Ahead(f)') >= RetentionCount
  <2>1. CASE b = c
    <3>1. /\ Armed(cleaner'[b], now) /\ Old(cleaner'[b])
          /\ \A f \in cleaner'[b].victims : f[1] # Manifests =>
               \/ f \in cleaner[c].victims
               \/ UNCHANGED disk /\ Cardinality(Ahead(f)) >= RetentionCount
      BY <2>1 DEF Cleans
    <3>2. \A f \in cleaner'[b].victims : f[1] # Manifests =>
            f \in Files /\ Cardinality(Ahead(f)) >= RetentionCount
      BY <3>1 DEF Old, Cleaning
    <3> QED
      BY <1>1, <3>1, <3>2
  <2>2. CASE b # c
    <3>1. cleaner'[b] = cleaner[b]
      BY <2>2 DEF Cleans
    <3>2. \A f \in cleaner[b].victims : f[1] # Manifests =>
            f \in Files /\ Cardinality(Ahead(f)) >= RetentionCount
      BY DEF Cleaning
    <3>3. Armed(cleaner[b], now) /\ Old(cleaner[b])
      BY DEF Cleaning, Armed, Old
    <3> QED
      BY <1>1, <3>1, <3>2, <3>3
  <2> QED
    BY <2>1, <2>2
<1>4. now' = now
  BY CleansDisk
<1> QED
  BY <1>3, <1>4 DEF Cleaning, Armed, Old

-----------------------------------------------------------------------------
\* The invariant holds.

(* It holds at first: what is there are the batches that were complete.    *)
LEMMA InitLemma ==
  ASSUME SeparateOutputs, Init
  PROVE  BInv
<1>1. Enabled \subseteq Targets
  BY DEF Enabled
<1>2. run = [r \in Runs |-> FreshRun] /\ cleaner = [c \in Cleaners |-> FreshCleaner]
  BY DEF Init
<1>3. \A f \in Files :
        \/ disk[f] = Absent /\ ~\E t \in Enabled, s \in Earlier : f = Output(t, s)
        \/ /\ disk[f] \in Backups /\ ~disk[f].empty /\ disk[f].of \in Enabled
           /\ \E s \in Earlier : f = Output(disk[f].of, s)
  <2> TAKE f \in Files
  <2>1. CASE \E t \in Enabled, s \in Earlier : f = Output(t, s)
    <3> DEFINE u == CHOOSE t \in Enabled : \E s \in Earlier : f = Output(t, s)
    <3>1. u \in Enabled /\ \E s \in Earlier : f = Output(u, s)
      BY <2>1
    <3>2. disk[f] = [by |-> "earlier", empty |-> FALSE, of |-> u]
      BY <2>1 DEF Init
    <3> HIDE DEF u
    <3> QED
      BY <1>1, <3>1, <3>2 DEF Backups
  <2>2. CASE ~\E t \in Enabled, s \in Earlier : f = Output(t, s)
    BY <2>2 DEF Init
  <2> QED
    BY <2>1, <2>2
<1>4. /\ manifests \in [Stamps -> [Targets -> Outcomes] \cup {Absent, Truncated}]
      /\ \A s \in Stamps : manifests[s] \notin {Absent, Truncated} =>
           /\ s \in Earlier
           /\ \A t \in Targets : manifests[s][t] \in {"Succeeded", "Reused"} => t \in Enabled
  BY DEF Init, Outcomes
<1>5. Types
  <2>1. disk \in [Files -> Backups \cup {Absent}]
    BY <1>3 DEF Init
  <2>2. now \in 0 .. MaxNow
    BY DEF Init
  <2>3. run \in [Runs -> RunStates] /\ cleaner \in [Cleaners -> CleanerStates]
    BY <1>2, FreshLemma, FreshCleanerLemma
  <2> QED
    BY <1>4, <2>1, <2>2, <2>3 DEF Types
<1>6. \A r \in Runs : /\ run[r].pc = "idle" /\ run[r].target = 1 /\ ~run[r].resume
                      /\ \A t \in Targets : run[r].results[t] = "none"
  BY <1>2, FreshLemma
<1>7. OneAtWork /\ Course /\ NewBatch /\ Replaceable /\ Known
  BY <1>6 DEF OneAtWork, Course, NewBatch, Replaceable, Known, Working
<1>8. OwnBackups
  <2> SUFFICES ASSUME NEW t \in Enabled, NEW s \in Stamps, disk[Output(t, s)] # Absent
               PROVE  disk[Output(t, s)].of = t
    BY DEF OwnBackups
  <2>1. Output(t, s) \in Files
    BY <1>1, OutputLemma
  <2>2. PICK u \in Enabled, v \in Earlier : Output(t, s) = Output(u, v) /\ u = disk[Output(t, s)].of
    BY <1>3, <2>1
  <2>3. Dir(t) = Dir(u) /\ Config[t].engine = Config[u].engine
    BY <2>2 DEF Output
  <2> QED
    BY <2>2, <2>3 DEF SeparateOutputs
<1>9. ReportedByRuns
  BY <1>6 DEF ReportedByRuns, Listing
<1>10. ReportedByManifests
  <2> SUFFICES ASSUME NEW s \in Stamps, manifests[s] \notin {Absent, Truncated},
                      NEW t \in Targets, manifests[s][t] \in {"Succeeded", "Reused"}
               PROVE  t \in Enabled /\ (Aged(s) \/ Usable(Output(t, s)))
    BY DEF ReportedByManifests, Listing
  <2>1. s \in Earlier /\ t \in Enabled /\ Output(t, s) \in Files
    BY <1>4, OutputLemma
  <2> QED
    BY <1>3, <2>1 DEF Usable
<1>11. Cleaning
  BY <1>2, FreshCleanerLemma DEF Cleaning
<1> QED
  BY <1>5, <1>7, <1>8, <1>9, <1>10, <1>11 DEF BInv

(* Time passes, and only makes files older.                                *)
LEMMA TickLemma ==
  ASSUME BInv, Tick
  PROVE  BInv'
<1>1. /\ now \in 0 .. MaxNow /\ now < MaxNow /\ now' = now + 1
      /\ UNCHANGED <<disk, manifests, run, cleaner>>
  BY DEF BInv, Types, Tick
<1>2. \A s \in Stamps : Aged(s) => Aged(s)'
  BY <1>1, StampsLemma DEF Aged
<1>3. Types'
  BY <1>1 DEF BInv, Types
<1>4. OneAtWork' /\ Course' /\ NewBatch' /\ Replaceable' /\ Known' /\ OwnBackups'
  BY <1>1 DEF BInv, OneAtWork, Course, NewBatch, Replaceable, Known, OwnBackups, Usable,
              CurFile, Cur
<1>5. ASSUME NEW results, NEW s \in Stamps, Listing(results, s)
      PROVE  Listing(results, s)'
  BY <1>1, <1>2, <1>5 DEF Listing, Usable
<1>6. ReportedByRuns'
  <2> SUFFICES ASSUME NEW r \in Runs PROVE Listing(run[r].results, run[r].stamp)'
    BY DEF ReportedByRuns
  <2>1. PICK results \in [Targets -> Outcomes], s \in Stamps :
          results = run[r].results /\ s = run[r].stamp
    BY DEF BInv, Types, RunStates
  <2>2. Listing(results, s)'
    BY <1>5, <2>1 DEF BInv, ReportedByRuns
  <2> QED
    BY <1>1, <2>1, <2>2 DEF Listing
<1>7. ReportedByManifests'
  <2> SUFFICES ASSUME NEW s \in Stamps, manifests'[s] \notin {Absent, Truncated}
               PROVE  Listing(manifests[s], s)'
    BY DEF ReportedByManifests
  <2>1. PICK results : results = manifests[s]
    OBVIOUS
  <2>2. Listing(results, s)'
    BY <1>1, <1>5, <2>1 DEF BInv, ReportedByManifests
  <2> QED
    BY <1>1, <2>1, <2>2 DEF Listing
<1>8. Cleaning'
  <2>1. \A c \in Cleaners : cleaner[c].cutoff \in Int
    BY DEF BInv, Types, CleanerStates
  <2> QED
    BY <1>1, <2>1 DEF BInv, Cleaning, Ahead, Usable
<1> QED
  BY <1>3, <1>4, <1>6, <1>7, <1>8 DEF BInv

(* Each step keeps it.                                                     *)
LEMMA NextLemma ==
  ASSUME OneByOne, BInv, [Next]_vars
  PROVE  BInv'
<1> USE DEF BInv, OneByOne
<1>1. ASSUME NEW r \in Runs, RunStep(r) PROVE BInv'
  <2>1. Moved(r)
    BY <1>1, RunStepLemma
  <2> QED
    BY <2>1, MovedTypes, MovedOneAtWork, MovedCourse, MovedNewBatch, MovedReplaceable,
       MovedKnown, MovedOwnBackups, MovedReportedByRuns, MovedReportedByManifests, MovedCleaning
<1>2. ASSUME NEW c \in Cleaners, CleanStep(c) PROVE BInv'
  <2>1. Cleans(c)
    BY <1>2, CleanStepLemma
  <2> QED
    BY <2>1, CleansTypes, CleansRuns, CleansReports, CleansCleaning
<1>3. CASE UNCHANGED vars
  <2>1. UNCHANGED <<now, disk, manifests, run, cleaner>>
    BY <1>3 DEF vars
  <2>2. Types' /\ OneAtWork' /\ Course' /\ NewBatch' /\ OwnBackups'
    BY <2>1 DEF Types, OneAtWork, Course, NewBatch, OwnBackups
  <2>3. Replaceable' /\ Known'
    BY <2>1 DEF Replaceable, Known, Usable, CurFile, Cur
  <2>4. ReportedByRuns' /\ ReportedByManifests'
    BY <2>1 DEF ReportedByRuns, ReportedByManifests, Listing, Aged, Usable
  <2>5. Cleaning'
    BY <2>1 DEF Cleaning, Ahead, Usable
  <2> QED
    BY <2>2, <2>3, <2>4, <2>5
<1> QED
  BY <1>1, <1>2, <1>3, TickLemma DEF Next

(* The invariant, when backups follow one another into separate outputs.   *)
THEOREM Invariance ==
  ASSUME OneByOne
  PROVE  Spec => []BInv
<1>1. Init => BInv
  BY InitLemma DEF OneByOne
<1>2. BInv /\ [Next]_vars => BInv'
  BY NextLemma
<1> QED
  BY <1>1, <1>2, PTL DEF Spec

-----------------------------------------------------------------------------
\* What follows from it.

(* A manifest lists as succeeded or reused only backups of that target     *)
(* which are there and not empty, unless they have aged (write_manifest    *)
(* after run_dump or reusable_backup_path).                                *)
THEOREM ManifestsAreTruthful ==
  ASSUME OneByOne
  PROVE  Spec => []ManifestTruthful
<1>1. BInv => ManifestTruthful
  <2> SUFFICES ASSUME BInv, NEW s \in Stamps, manifests[s] \notin {Absent, Truncated}, ~Aged(s),
                      NEW t \in Targets, manifests[s][t] \in {"Succeeded", "Reused"}
               PROVE  Usable(Output(t, s)) /\ disk[Output(t, s)].of = t
    BY DEF ManifestTruthful
  <2>1. t \in Enabled /\ Usable(Output(t, s))
    BY DEF BInv, ReportedByManifests, Listing
  <2> QED
    BY <2>1 DEF BInv, OwnBackups, Usable
<1> QED
  BY <1>1, Invariance, PTL

(* A batch that exits with 0 has the backup of each enabled target         *)
(* (run_backups returns 1 when any result is a failure).                   *)
THEOREM SuccessIsBackedUp ==
  ASSUME OneByOne
  PROVE  Spec => []SuccessMeansBackedUp
<1>1. BInv => SuccessMeansBackedUp
  <2> SUFFICES ASSUME BInv, NEW r \in Runs, At(r, "done"), ExitCode(r) = 0,
                      ~Aged(run[r].stamp), NEW t \in Enabled
               PROVE  Usable(Output(t, run[r].stamp))
    BY DEF SuccessMeansBackedUp
  <2>1. t \in Targets /\ run[r].results[t] \in Outcomes
    BY DEF BInv, Types, RunStates, Enabled
  <2>2. run[r].results[t] # "none" /\ run[r].results[t] # "Failed"
    BY <2>1 DEF BInv, Course, At, ExitCode
  <2>3. run[r].results[t] \in {"Succeeded", "Reused"}
    BY <2>1, <2>2 DEF Outcomes
  <2> QED
    BY <2>1, <2>3 DEF BInv, ReportedByRuns, Listing
<1> QED
  BY <1>1, Invariance, PTL

(* A backup that is not empty is never replaced (next_batch_timestamp and  *)
(* reusable_backup_path before the replace of run_dump).                   *)
THEOREM BackupsAreKept ==
  ASSUME OneByOne
  PROVE  Spec => BackupsKept
<1>1. BInv /\ [Next]_vars =>
        [\A f \in Files : Usable(f) => disk'[f] \in {disk[f], Absent}]_disk
  <2> SUFFICES ASSUME BInv, Next, NEW f \in Files, Usable(f)
               PROVE  disk'[f] \in {disk[f], Absent}
    BY DEF vars
  <2>1. ASSUME NEW r \in Runs, RunStep(r) PROVE disk'[f] = disk[f]
    BY <2>1, RunStepLemma, MovedDisk DEF BInv
  <2>2. ASSUME NEW c \in Cleaners, CleanStep(c) PROVE disk'[f] \in {disk[f], Absent}
    BY <2>2, CleanStepLemma, CleansDisk DEF BInv
  <2> QED
    BY <2>1, <2>2 DEF Next, Tick
<1> QED
  BY <1>1, Invariance, PTL DEF Spec, BackupsKept

(* A new batch never takes the name of an earlier one: only a run that     *)
(* resumes the batch opens its manifest again.                             *)
THEOREM ManifestsAreKept ==
  ASSUME OneByOne
  PROVE  Spec => ManifestsKept
<1>1. BInv /\ [Next]_vars =>
        [\A s \in Stamps : manifests[s] # Absent /\ manifests'[s] # manifests[s] =>
           \/ manifests'[s] = Absent
           \/ \E r \in Runs : /\ run[r].stamp = s
                              /\ run[r].resume \/ At(r, "write")]_manifests
  <2> SUFFICES ASSUME BInv, Next, NEW s \in Stamps, manifests[s] # Absent,
                      manifests'[s] # manifests[s], manifests'[s] # Absent
               PROVE  \E r \in Runs : run[r].stamp = s /\ (run[r].resume \/ At(r, "write"))
    BY DEF vars
  <2>1. ASSUME NEW r \in Runs, RunStep(r)
        PROVE  run[r].stamp = s /\ (run[r].resume \/ At(r, "write"))
    <3>1. Moved(r)
      BY <2>1, RunStepLemma DEF BInv
    <3>2. Opens(r) \/ Writes(r)
      BY <3>1 DEF Moved, Starts, Tries, Skips, Plans, Reuses, Dumps, Fails, Publishes, Checks,
                  Succeeds, Ends, FilesStay
    <3>3. s = run[r].stamp
      BY <3>2 DEF Opens, Writes, BInv, Types
    <3>4. CASE Opens(r)
      BY <3>3, <3>4 DEF Opens, BInv, NewBatch, Working
    <3>5. CASE Writes(r)
      BY <3>3, <3>5 DEF Writes, At
    <3> QED
      BY <3>2, <3>4, <3>5
  <2>2. ASSUME NEW c \in Cleaners, CleanStep(c) PROVE FALSE
    BY <2>2, CleanStepLemma, CleansDisk DEF BInv
  <2> QED
    BY <2>1, <2>2 DEF Next, Tick
<1> QED
  BY <1>1, Invariance, PTL DEF Spec, ManifestsKept

(* clean removes a file only if it is too old and its directory keeps      *)
(* RetentionCount newer backups, whatever other cleaners and runs do       *)
(* between listing the directory and removing the file (run_clean).        *)
THEOREM NewestAreKept ==
  ASSUME OneByOne
  PROVE  Spec => CleanKeepsNewest
<1>1. BInv /\ [Next]_vars =>
        [\A f \in Files : disk[f] # Absent /\ disk'[f] = Absent =>
           /\ Aged(f[2])
           /\ Cardinality({g \in Files : /\ g[1] = f[1] /\ g # f
                                         /\ Usable(g) /\ ~Newer(f[2], g[2])})
                >= RetentionCount]_disk
  <2> DEFINE newer(f) == {g \in Files : /\ g[1] = f[1] /\ g # f
                                        /\ Usable(g) /\ ~Newer(f[2], g[2])}
  <2> SUFFICES ASSUME BInv, Next, NEW f \in Files, disk[f] # Absent, disk'[f] = Absent
               PROVE  Aged(f[2]) /\ Cardinality(newer(f)) >= RetentionCount
    BY DEF vars
  <2>1. ASSUME NEW r \in Runs, RunStep(r) PROVE FALSE
    BY <2>1, RunStepLemma, MovedDisk DEF BInv
  <2>2. ASSUME NEW c \in Cleaners, CleanStep(c)
        PROVE  Aged(f[2]) /\ Cardinality(newer(f)) >= RetentionCount
    <3>1. Aged(f[2]) /\ Cardinality(Ahead(f)) >= RetentionCount
      BY <2>2, CleanStepLemma, CleansDisk DEF BInv
    <3>2. Ahead(f) \subseteq newer(f) /\ newer(f) \subseteq Files
      BY OrderLemma DEF Ahead
    <3>3. /\ Cardinality(Ahead(f)) \in Nat /\ Cardinality(newer(f)) \in Nat
          /\ Cardinality(Ahead(f)) <= Cardinality(newer(f))
      BY <3>2, CountLemma
    <3> HIDE DEF newer
    <3> QED
      BY <3>1, <3>3
  <2> QED
    BY <2>1, <2>2 DEF Next, Tick
<1> QED
  BY <1>1, Invariance, PTL DEF Spec, CleanKeepsNewest

===============================================================================
