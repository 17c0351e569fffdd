SPECIFICATION FairSpec
CONSTANTS
  Schedules = {s1, s2}
  Workers = {w1}
  Proofs = {a1}
  None = None
  HasAuthority = TRUE
  LocalOwner = FALSE
  MaxFaults = 0
  MaxCrashes = 1
PROPERTIES
  DueIsServed
