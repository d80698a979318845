----------------------------- MODULE MCInstaller ------------------------------
(* Instance of Installer: command lines with and without chosen clients.      *)
EXTENDS Installer

\* All clients, with or without --strict, or two by name.
MCOrders ==
  {o \in OrderRecords :
     /\ o.picked \in {{}, {"claude", "grok"}, {"codex"}}
     /\ o.strict => o.picked = {} /\ o.command = "apply"
     /\ o.dry => o.command \in {"apply", "remove"} /\ o.picked = {}}

\* All programs, or two of them, or one.
MCFound == {Clients, {"claude", "grok"}, {"codex", "grok"}, {"grok"}, {}}
===============================================================================
