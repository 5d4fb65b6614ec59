\* Two records made from a template or not, each written up to twice.
CONSTANTS
  r1 = r1  r2 = r2
  Records = {r1, r2}
  Template = template
  Values = {0, 1, 2}
  Contents <- UpToThree
  MaxWrites = 2
  NoRecord = norecord
SPECIFICATION Spec
SYMMETRY Interchangeable
INVARIANT WireIsCompact
INVARIANT WireIsFaithful
INVARIANT CloneIsRaceFree
PROPERTY TemplateIsIsolated
CHECK_DEADLOCK FALSE
