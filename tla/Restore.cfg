\* Both engines, with and without --clean, ten inputs, and one act of another
\* process at any point.
CONSTANTS
  Objects <- MCObjects
  Files <- MCFiles
  NoFile = NoFile
  Engines <- MCEngines
  FirstObjects <- MCFirstObjects
  MaxActs = 1
  Chunks <- MCChunks
  Quit <- MCQuit
  Documents <- MCDocuments
  Capacity = 1
  MaxOutput = 2
SPECIFICATION FairSpec
INVARIANTS NothingDroppedUnchecked SuccessMeansRestored SuccessMeansRead OnlyTargetChanges
PROPERTY Terminates
\* the command stops when it is done
CHECK_DEADLOCK FALSE
