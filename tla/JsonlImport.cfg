\* Two tables of up to two rows, all kinds of flawed files, one act of another
\* process at any moment, and files replaced between the passes.
CONSTANTS
  TargetTables = {1, 2}
  Parents <- MCParents
  Keys = {1, 2}
  NullKey = NullKey
  Generated = {1}
  Values = {"a", "b", "c", "n", "x", "y", "misfit"}
  Documents <- MCDocuments
  Absent = Absent
  Engines <- MCEngines
  Excluded = {{}, {2}}
  BatchSize = 2
  MaxChanges = 1
SPECIFICATION ImportSpec
INVARIANTS ScanIsExact AllOrNothing ParentsWrittenFirst SuccessMeansImported
\* the command ends
CHECK_DEADLOCK FALSE
