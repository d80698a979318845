\* `postgres session kill`: two foreign sessions, a second database, one session
\* started meanwhile (so a pid can be reused), a wait of two polls.
CONSTANTS
  Ids <- MCIds
  OwnId = 2
  Databases = {app, other}
  TargetDb = app
  Users = {u}
  NoSession = NoSession
  NoId = NoId
  Hidden = Hidden
  Waits = {0, 2}
  PollInterval = 1
  MaxToken = 1
  MaxNow = 2
SPECIFICATION FairSpec
INVARIANTS SignalsOnlySnapshot ConfirmedExit SuccessMeansGone HonestReport ReportComplete
PROPERTIES Terminates ImplementsContract
\* the command stops when it has reported
CHECK_DEADLOCK FALSE
