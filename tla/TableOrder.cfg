\* Four tables: every foreign-key graph of the source, exported in part or whole,
\* and imported in part or whole under the same keys or none.
CONSTANTS
  Tables <- MCTables
  SourceKeys <- AllKeys
  TargetKeys <- NoKeys
SPECIFICATION Spec
INVARIANTS OrderIsSound CycleIsReal SameKeysAccepted
\* the command stops with its answer
CHECK_DEADLOCK FALSE
