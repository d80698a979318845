------------------------------ MODULE Installer -------------------------------
(***************************************************************************)
(* scripts/install.py: it installs the repository's plugin, or a           *)
(* standalone skill, in the AI clients Claude, Codex and Grok, lists what  *)
(* is installed, and removes it.                                           *)
(*                                                                         *)
(* A plugin is changed by the clients' own command lines: the script reads *)
(* what every client has, makes a plan for each, and only then executes    *)
(* one plan after the other; a client that fails does not stop the next.   *)
(* A skill is a directory that the script itself replaces, by way of a     *)
(* staging copy and two renames.  Users change their clients meanwhile.    *)
(***************************************************************************)
EXTENDS Naturals, Sequences, FiniteSets

CONSTANTS
  Orders,                    \* command lines to consider
  Found,                     \* sets of clients whose program is there
  SkillConfigured,           \* values of "STANDALONE_SKILL_NAME is set"
  MaxMeddling                \* bound: changes that users make meanwhile

Clients == {"claude", "codex", "grok"}

\* picked: --claude, --codex, --grok
OrderRecords ==
  [asset : {"plugin", "skill"}, command : {"check", "list", "apply", "remove"},
   picked : SUBSET Clients, strict : BOOLEAN, dry : BOOLEAN]

ASSUME InstallerAssumption ==
  /\ Orders \subseteq OrderRecords
  /\ \A o \in Orders : /\ o.strict => o.picked = {}
                       /\ o.dry => o.command \in {"apply", "remove"}
  /\ Found \subseteq SUBSET Clients
  /\ SkillConfigured \subseteq BOOLEAN /\ MaxMeddling \in Nat

VARIABLES
  \* the clients
  market,                    \* is the marketplace registered, and from this repository?
  plugin,                    \* their copy of the plugin: none, stale, fresh, other (another source)
  leaf,                      \* their skill: none, old, new, part; or a file, or a symlink
  staging, backup,           \* the directories used to replace it
  \* the script
  order, found, skill,       \* command line, programs found, configuration
  rooted,                    \* Codex says whose directory a marketplace is
  pc,
  todo,                      \* clients it has still to come to, in this phase
  plans,                     \* [Clients -> commands not yet run]
  outcome,                   \* what it reports of each client
  exit,                      \* "none" while it runs
  \* history
  had,                       \* plugins and skills when it started
  meddled,                   \* how often users have changed a client since
  idle                       \* clients whose program said it did what it did not

clients == <<market, plugin, leaf, staging, backup>>
given == <<order, found, skill, rooted, had>>
script == <<pc, todo, plans, outcome, exit>>
observed == <<meddled, idle>>
installVars == <<clients, given, script, observed>>

\* A plugin of Claude or Codex comes from its marketplace.
FirstPlugins == {p \in [market : [Clients -> {"none", "ours", "other"}],
                        plugin : [Clients -> {"none", "stale", "other"}]] :
  /\ p.market["grok"] = "none"
  /\ \A c \in {"claude", "codex"} : p.plugin[c] # "none" =>
       p.market[c] = IF p.plugin[c] = "stale" THEN "ours" ELSE "other"}
NoPlugins == [market |-> [c \in Clients |-> "none"], plugin |-> [c \in Clients |-> "none"]]
NoLeaf == [c \in Clients |-> "none"]

InstallInit ==
  /\ order \in Orders /\ found \in Found /\ skill \in SkillConfigured
  /\ order.asset = "plugin" => ~skill
  /\ rooted \in BOOLEAN /\ (order.asset = "skill" => rooted)
  /\ \E p \in (IF order.asset = "plugin" THEN FirstPlugins ELSE {NoPlugins}) :
       market = p.market /\ plugin = p.plugin
  /\ leaf \in (IF order.asset = "skill" /\ skill
                 THEN [Clients -> {"none", "old", "file", "link"}] ELSE {NoLeaf})
  \* a client whose program is missing is left alone: what it has does not matter
  /\ \A c \in Clients \ found : market[c] = "none" /\ plugin[c] = "none" /\ leaf[c] = "none"
  /\ staging = NoLeaf /\ backup = NoLeaf
  /\ pc = "select" /\ todo = << >>
  /\ plans = [c \in Clients |-> << >>]
  /\ outcome = [c \in Clients |-> "none"] /\ exit = "none"
  /\ had = [plugin |-> plugin, leaf |-> leaf]
  /\ meddled = [c \in Clients |-> 0] /\ idle = {}

-----------------------------------------------------------------------------
\* Selection.

Requested == IF order.picked = {} THEN Clients ELSE order.picked
Explicit == order.picked # {}
IsTarget(c) == c \in Requested \cap found

\* In the order of CLIENTS.
AppendTarget(s, c) == IF IsTarget(c) THEN Append(s, c) ELSE s
InstallTargets ==
  AppendTarget(AppendTarget(AppendTarget(<< >>, "claude"), "codex"), "grok")

ExitWith(e) == pc' = "end" /\ exit' = e

\* A SyncError that nobody handles on the way: main reports it for "global".
SyncError == ExitWith("1") /\ UNCHANGED <<clients, given, todo, plans, outcome, observed>>

Configured == order.asset = "plugin" \/ skill
Missing == ~(Requested \subseteq found)

\* select_targets: a client that was not asked for by name may be missing.
Selectable == Configured /\ InstallTargets # << >> /\ (Missing => ~Explicit /\ ~order.strict)

FirstPhase ==
  IF order.asset = "skill" THEN "skill" ELSE IF order.command = "list" THEN "list" ELSE "plan"

SelectTargets ==
  /\ pc = "select" /\ Selectable
  /\ pc' = FirstPhase /\ todo' = InstallTargets
  /\ outcome' = [c \in Clients |-> IF c \in Requested /\ c \notin found THEN "skipped" ELSE "none"]
  /\ UNCHANGED <<clients, given, plans, exit, observed>>

\* The manifests or the skill's file may be wrong too; a removal does not read them.
SelectionFails ==
  /\ pc = "select"
  /\ ~Selectable \/ order.command \in {"check", "apply"}
  /\ SyncError

\* On to the next client, or the end.
NextClient(phase) ==
  /\ todo' = Tail(todo)
  /\ IF Len(todo) > 1 THEN pc' = phase /\ exit' = exit
     ELSE ExitWith(IF \E c \in Clients : outcome'[c] = "failed" THEN "1" ELSE "0")

Report(c, o, phase) ==
  /\ outcome' = [outcome EXCEPT ![c] = o]
  /\ NextClient(phase)

-----------------------------------------------------------------------------
\* Plugins.

Current == Head(todo)

\* list_plugin
ListPlugin ==
  /\ pc = "list"
  /\ Report(Current, IF plugin[Current] = "none" THEN "absent" ELSE "installed", "list")
  /\ UNCHANGED <<clients, given, plans, observed>>

\* plan_claude, plan_codex, plan_grok.  A client's answers (its marketplaces and its
\* plugins) are taken as of one moment.
PlanClaude ==
  LET command == IF plugin["claude"] = "none" THEN "install" ELSE "update"
  IN IF market["claude"] = "none" THEN <<"register", command>> ELSE <<command>>
PlanCodex == IF market["codex"] = "none" THEN <<"register", "add">> ELSE <<"add">>
\* Faulty variant: the plugin is uninstalled first, wherever it is from.
PlanReinstall ==
  IF plugin["grok"] = "none" THEN <<"install">> ELSE <<"uninstall", "install">>
PlanGrok ==
  CASE plugin["grok"] = "none" -> <<"install">>
    [] plugin["grok"] \in {"stale", "fresh"} -> <<"update">>
    [] plugin["grok"] = "other" -> <<"uninstall", "install">>

PlanApply(c) == CASE c = "claude" -> PlanClaude [] c = "codex" -> PlanCodex [] c = "grok" -> PlanGrok
\* plan_plugin_removal
PlanRemove(c) == IF plugin[c] = "none" THEN << >> ELSE <<"uninstall">>

Plan(c) == IF order.command = "remove" THEN PlanRemove(c) ELSE PlanApply(c)

\* A marketplace of this name that is another directory's: Claude is not asked whose it
\* is, and Codex may not say.
Unnoticed(c) == c = "claude" \/ (c = "codex" /\ ~rooted)
Refused(c) ==
  c = "codex" /\ order.command # "remove" /\ market[c] = "other" /\ ~Unnoticed(c)

PlanClient ==
  /\ pc = "plan" /\ ~Refused(Current)
  /\ plans' = [plans EXCEPT ![Current] = Plan(Current)]
  /\ IF Len(todo) > 1 THEN pc' = "plan" /\ todo' = Tail(todo)
                      ELSE pc' = "execute" /\ todo' = InstallTargets
  /\ UNCHANGED <<clients, given, outcome, exit, observed>>

\* A client that cannot be asked, or answers with something else: nothing is changed.
InspectionFails ==
  /\ pc \in {"plan", "list"}
  /\ SyncError

OnlyShows == order.command = "check" \/ order.dry

ShowPlan ==
  /\ pc = "execute" /\ OnlyShows
  /\ Report(Current, IF order.command = "check" THEN "ready" ELSE "planned", "execute")
  /\ UNCHANGED <<clients, given, plans, observed>>

\* execute_plugin_removal
NotInstalled ==
  /\ pc = "execute" /\ ~OnlyShows
  /\ order.command = "remove" /\ plans[Current] = << >>
  /\ Report(Current, "absent", "execute")
  /\ UNCHANGED <<clients, given, plans, observed>>

\* What the client's own program does, and refuses.
FromMarket(c) == IF market[c] = "other" THEN "other" ELSE "fresh"
Accepted(c, command) ==
  CASE command = "register" -> market[c] = "none"
    [] command = "install" -> plugin[c] = "none" /\ (c # "grok" => market[c] # "none")
    [] command = "add" -> market[c] # "none"
    [] command \in {"update", "uninstall"} -> plugin[c] # "none"
NewPlugin(c, command) ==
  CASE command = "register" -> plugin[c]
    [] command \in {"install", "add"} -> FromMarket(c)
    [] command = "update" -> IF plugin[c] = "other" THEN "other" ELSE "fresh"
    [] command = "uninstall" -> "none"

RunCommand ==
  /\ pc = "execute" /\ ~OnlyShows /\ plans[Current] # << >>
  /\ LET command == Head(plans[Current]) IN
     /\ Accepted(Current, command)
     /\ market' = IF command = "register" THEN [market EXCEPT ![Current] = "ours"] ELSE market
     /\ plugin' = [plugin EXCEPT ![Current] = NewPlugin(Current, command)]
  /\ UNCHANGED <<leaf, staging, backup>>

Execute ==
  /\ RunCommand
  /\ plans' = [plans EXCEPT ![Current] = Tail(@)]
  /\ pc' = IF Len(plans[Current]) = 1 THEN "verify" ELSE "execute"
  /\ UNCHANGED <<given, todo, outcome, exit, observed>>

\* The program ends with success and has done nothing.
ExecuteIdly ==
  /\ pc = "execute" /\ ~OnlyShows /\ plans[Current] # << >>
  /\ plans' = [plans EXCEPT ![Current] = Tail(@)]
  /\ pc' = IF Len(plans[Current]) = 1 THEN "verify" ELSE "execute"
  /\ idle' = idle \cup {Current}
  /\ UNCHANGED <<clients, given, todo, outcome, exit, meddled>>

\* The command took effect, and then failed or took too long.
ExecuteTimesOut ==
  /\ RunCommand
  /\ Report(Current, "failed", "execute")
  /\ UNCHANGED <<given, plans, observed>>

\* The command is refused, or the program does not start.
ExecuteFails ==
  /\ pc = "execute" /\ ~OnlyShows /\ plans[Current] # << >>
  /\ Report(Current, "failed", "execute")
  /\ UNCHANGED <<clients, given, plans, observed>>

\* Faulty variant: the answer is not looked at.
VerifyNothing ==
  /\ pc = "verify"
  /\ Report(Current, IF order.command = "remove" THEN "removed" ELSE "applied", "execute")
  /\ UNCHANGED <<clients, given, plans, observed>>

\* verify_plugin: the client is asked again.
Verify ==
  /\ pc = "verify"
  /\ LET expected == order.command = "remove"
         there == plugin[Current] # "none"
     IN Report(Current, IF there = expected THEN "failed"
                        ELSE IF expected THEN "removed" ELSE "applied", "execute")
  /\ UNCHANGED <<clients, given, plans, observed>>

VerifyFails ==
  /\ pc = "verify"
  /\ Report(Current, "failed", "execute")
  /\ UNCHANGED <<clients, given, plans, observed>>

-----------------------------------------------------------------------------
\* Skills.

\* list_skill; "check" looks at no client.
ListSkill ==
  /\ pc = "skill" /\ order.command \in {"list", "check"}
  /\ Report(Current,
            IF order.command = "check" THEN "ready"
            ELSE CASE leaf[Current] \in {"old", "new"} -> "installed"
                   [] leaf[Current] = "none" -> "absent"
                   [] OTHER -> "failed", "skill")
  /\ UNCHANGED <<clients, given, plans, observed>>

\* remove_skill
RemoveSkill ==
  /\ pc = "skill" /\ order.command = "remove"
  /\ \/ /\ leaf[Current] \in {"old", "new", "part"} /\ ~order.dry
        /\ \/ leaf' = [leaf EXCEPT ![Current] = "none"] /\ Report(Current, "removed", "skill")
           \/ /\ leaf' \in {leaf, [leaf EXCEPT ![Current] = "part"]}
              /\ Report(Current, "failed", "skill")
     \/ /\ leaf[Current] \in {"old", "new", "part"} => order.dry
        /\ Report(Current, CASE leaf[Current] = "none" -> "absent"
                             [] leaf[Current] \in {"file", "link"} -> "failed"
                             [] OTHER -> "planned", "skill")
        /\ UNCHANGED leaf
  /\ UNCHANGED <<market, plugin, staging, backup, given, plans, observed>>

\* apply_skill; a directory that cannot be made ends the script.
ApplySkill ==
  /\ pc = "skill" /\ order.command = "apply"
  /\ IF order.dry THEN Report(Current, "planned", "skill") /\ UNCHANGED staging
     ELSE IF leaf[Current] = "link" THEN Report(Current, "failed", "skill") /\ UNCHANGED staging
     ELSE \/ ExitWith("crash") /\ UNCHANGED <<staging, todo, outcome>>
          \/ /\ staging' = [staging EXCEPT ![Current] = "part"]
             /\ pc' = "copy" /\ UNCHANGED <<todo, outcome, exit>>
  /\ UNCHANGED <<market, plugin, leaf, backup, given, plans, observed>>

\* replace_skill_leaf, step by step: copytree, rename, rename.
CopyToStaging ==
  /\ pc = "copy"
  /\ \/ staging' = [staging EXCEPT ![Current] = "new"] /\ pc' = "aside"
     \/ staging' \in {staging, [staging EXCEPT ![Current] = "none"]} /\ pc' = "restore"
  /\ UNCHANGED <<market, plugin, leaf, backup, given, todo, plans, outcome, exit, observed>>

MoveAside ==
  /\ pc = "aside"
  /\ \/ /\ backup' = [backup EXCEPT ![Current] = leaf[Current]]
        /\ leaf' = [leaf EXCEPT ![Current] = "none"]
        /\ pc' = "publish"
     \/ leaf[Current] # "none" /\ pc' = "restore" /\ UNCHANGED <<leaf, backup>>
  /\ UNCHANGED <<market, plugin, staging, given, todo, plans, outcome, exit, observed>>

PublishSkill ==
  /\ pc = "publish"
  /\ \/ /\ leaf' = [leaf EXCEPT ![Current] = "new"]
        /\ staging' = [staging EXCEPT ![Current] = "none"]
        /\ pc' = "tidy"
     \/ pc' = "restore" /\ UNCHANGED <<leaf, staging>>
  /\ UNCHANGED <<market, plugin, backup, given, todo, plans, outcome, exit, observed>>

\* Faulty variant: what was moved aside stays there.
RestoreNothing ==
  /\ pc = "restore"
  /\ staging' = [staging EXCEPT ![Current] = "none"]
  /\ Report(Current, "failed", "skill")
  /\ UNCHANGED <<market, plugin, leaf, backup, given, plans, observed>>

\* The except and finally clauses; an error of their own ends the script.
Restore ==
  /\ pc = "restore"
  /\ LET back == backup[Current] # "none" /\ leaf[Current] = "none" IN
     \/ /\ leaf' = IF back THEN [leaf EXCEPT ![Current] = backup[Current]] ELSE leaf
        /\ backup' = IF back THEN [backup EXCEPT ![Current] = "none"] ELSE backup
        /\ \/ staging' = [staging EXCEPT ![Current] = "none"] /\ Report(Current, "failed", "skill")
           \/ /\ staging[Current] # "none" /\ staging' = [staging EXCEPT ![Current] = "part"]
              /\ ExitWith("crash") /\ UNCHANGED <<todo, outcome>>
     \/ /\ back /\ ExitWith("crash")
        /\ staging' \in {staging, [staging EXCEPT ![Current] = "none"]}
        /\ UNCHANGED <<leaf, backup, todo, outcome>>
  /\ UNCHANGED <<market, plugin, given, plans, observed>>

\* The backup is deleted; a file cannot be (rmtree), nor always a directory.
DeleteBackup ==
  /\ pc = "tidy"
  /\ \/ /\ backup[Current] # "file"
        /\ backup' = [backup EXCEPT ![Current] = "none"]
        /\ Report(Current, "applied", "skill")
     \/ /\ backup[Current] # "none"
        /\ backup' \in {backup, [backup EXCEPT ![Current] = IF @ = "file" THEN "file" ELSE "part"]}
        /\ ExitWith("crash") /\ UNCHANGED <<todo, outcome>>
  /\ UNCHANGED <<market, plugin, leaf, staging, given, plans, observed>>

-----------------------------------------------------------------------------
\* The environment.

ScriptKilled ==
  /\ pc \notin {"select", "end"}
  /\ ExitWith("killed")
  /\ UNCHANGED <<clients, given, todo, plans, outcome, observed>>

\* A user removes the plugin from a client, or installs one of another source.
Meddle(c) ==
  /\ pc \in {"plan", "execute", "verify"} /\ IsTarget(c)
  /\ \A d \in Clients : meddled[d] < MaxMeddling
  /\ \/ plugin[c] # "none" /\ plugin' = [plugin EXCEPT ![c] = "none"] /\ UNCHANGED market
     \/ /\ plugin' = [plugin EXCEPT ![c] = "other"]
        /\ market' = IF c = "grok" THEN market ELSE [market EXCEPT ![c] = "other"]
  /\ meddled' = [meddled EXCEPT ![c] = @ + 1]
  /\ UNCHANGED <<leaf, staging, backup, given, script, idle>>

ManagePlugin ==
  \/ ListPlugin \/ PlanClient \/ InspectionFails \/ ShowPlan \/ NotInstalled
  \/ Execute \/ ExecuteIdly \/ ExecuteTimesOut \/ ExecuteFails \/ Verify \/ VerifyFails
ManageSkill ==
  \/ ListSkill \/ RemoveSkill \/ ApplySkill \/ CopyToStaging \/ MoveAside \/ PublishSkill
  \/ Restore \/ DeleteBackup
Script == SelectTargets \/ SelectionFails \/ ManagePlugin \/ ManageSkill

InstallNext == Script \/ ScriptKilled \/ \E c \in Clients : Meddle(c)
InstallSpec == InstallInit /\ [][InstallNext]_installVars

-----------------------------------------------------------------------------
\* Properties.

\* What the script reports of a client is what the client has, although its program
\* may do nothing and report success; a client it only planned for has what it had;
\* and exit code 0 means that of every client it was asked for, those not installed
\* at most left out.  Excepted: a user changed
\* the client meanwhile.  Only that there is a plugin is verified, not which one: an
\* update that did nothing passes, and so does a plugin from a marketplace of this name
\* that is another directory's, where the plan has not noticed.  execute_plugin_apply, verify_plugin,
\* execute_plugin_removal, apply_skill, remove_skill.
ReportIsTrue ==
  /\ \A c \in Clients :
       /\ outcome[c] = "applied" /\ order.asset = "plugin" /\ meddled[c] = 0 =>
            /\ plugin[c] # "none"
            /\ plugin[c] = "fresh" \/ c \in idle \/ (Unnoticed(c) /\ market[c] = "other")
       /\ outcome[c] = "removed" /\ order.asset = "plugin" /\ meddled[c] = 0 => plugin[c] = "none"
       /\ outcome[c] = "applied" /\ order.asset = "skill" => leaf[c] = "new"
       /\ outcome[c] = "removed" /\ order.asset = "skill" => leaf[c] = "none"
       /\ outcome[c] \in {"ready", "planned", "absent"} /\ meddled[c] = 0 =>
            plugin[c] = had.plugin[c] /\ leaf[c] = had.leaf[c]
  /\ exit = "0" => \A c \in Requested :
       IF IsTarget(c) THEN outcome[c] \notin {"none", "failed", "skipped"}
       ELSE ~Explicit /\ ~order.strict

\* A client that had the plugin still has it after "apply", whatever failed -- except
\* Grok with a plugin from another source, uninstalled before the new one is
\* installed, and clients whose user removed it: plan_claude, plan_codex, plan_grok.
NoPluginLost ==
  order.command = "apply" =>
    \A c \in Clients : had.plugin[c] # "none" /\ meddled[c] = 0 =>
      \/ plugin[c] # "none"
      \/ c = "grok" /\ had.plugin[c] = "other" /\ outcome[c] # "applied"

\* While a skill is replaced there is a whole copy of the old one or the new one, in
\* its place or beside it; beside it only between the two renames, or when the
\* script was killed there or could not rename it back.  A client reported as
\* failed has what it had: replace_skill_leaf.
SkillKept ==
  (order.asset = "skill" /\ order.command = "apply") =>
    \A c \in Clients :
      /\ had.leaf[c] = "old" =>
           \/ leaf[c] \in {"old", "new"}
           \/ /\ leaf[c] = "none" /\ backup[c] = "old"
              /\ exit \in {"killed", "crash"} \/ (pc \in {"publish", "restore"} /\ Current = c)
      /\ outcome[c] = "failed" =>
           leaf[c] = had.leaf[c] /\ staging[c] = "none" /\ backup[c] = "none"
===============================================================================
