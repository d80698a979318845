\* The three clients, each in any state, and one change by a user meanwhile.
CONSTANTS
  Orders <- MCOrders
  Found <- MCFound
  SkillConfigured = {TRUE, FALSE}
  MaxMeddling = 1
SPECIFICATION InstallSpec
INVARIANTS ReportIsTrue NoPluginLost SkillKept
\* the script ends
CHECK_DEADLOCK FALSE
