\* Two new batches started in the same second, the second before the first is done.
CONSTANTS
  Runs = {r1, r2}
  Cleaners = {}
  Config <- OneConfig
  Absent = Absent
  Truncated = Truncated
  Earlier = {}
  Overlap = TRUE
  Resumes = FALSE
  RetentionCount = 1
  RetentionAge = 1
  MaxNow = 0
  MaxSeq = 1
SPECIFICATION Spec
PROPERTY BackupsKept
\* every process ends
CHECK_DEADLOCK FALSE
