\* A record that is written again is not what it was.
CONSTANTS
  r1 = r1  r2 = r2
  Records = {r1, r2}
  Template = template
  Values = {0, 1, 2}
  Contents <- UpToThree
  MaxWrites = 2
  NoRecord = norecord
SPECIFICATION Spec
SYMMETRY Interchangeable
INVARIANT RetryIsFaithful
CHECK_DEADLOCK FALSE
