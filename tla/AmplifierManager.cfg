SPECIFICATION Spec
CONSTANTS
  N = 2
  Managed = {1}
  ResumeAutomatically = TRUE
INVARIANTS
  TypeOK
  StageAgrees
  AudibleIsAccounted
  ShutdownNeverRepeated
  UnsafeIsTouched
PROPERTIES
  NoLateStart
  EvidenceKept
  FailureSpreads
