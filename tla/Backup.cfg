\* Batches of three targets, one batch after the other: killed, resumed, started
\* again in the same second, after an earlier batch and beside a cleaner that
\* keeps one backup in each directory and those of the current second.
CONSTANTS
  Runs = {r1, r2}
  Cleaners = {c}
  Config <- MCConfig
  Absent = Absent
  Truncated = Truncated
  Earlier <- EarlierBatch
  Overlap = FALSE
  Resumes = TRUE
  RetentionCount = 1
  RetentionAge = 0
  MaxNow = 1
  MaxSeq = 1
SYMMETRY RunSymmetry
SPECIFICATION Spec
INVARIANTS ManifestTruthful SuccessMeansBackedUp
PROPERTIES BackupsKept ManifestsKept CleanKeepsNewest
\* every process ends
CHECK_DEADLOCK FALSE
