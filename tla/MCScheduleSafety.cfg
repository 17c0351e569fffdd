SPECIFICATION Spec
CONSTANTS
  Schedules = {s1, s2}
  Workers = {w1}
  Proofs = {a1, a2}
  None = None
  HasAuthority = TRUE
  LocalOwner = FALSE
  MaxFaults = 1
  MaxCrashes = 1
SYMMETRY Symmetry
INVARIANTS
  PausedAndDeletedStay
  RunsAreAuthorized
  OncePerDueTime
PROPERTIES
  NoRunAfterPause
