\* Two administrators, one command each, a user with two hosts.
CONSTANTS
  Commands <- MCCommands
  Hosts <- MCHosts
  Asked <- MCAsked
  First = {1}
  NoAccount = NoAccount
SPECIFICATION Spec
INVARIANTS ReportsAreTrue StopsAtOneAccount
PROPERTY OwnAccountKept
\* commands end
CHECK_DEADLOCK FALSE
