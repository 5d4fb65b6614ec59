\* Two clones of a template, two edits of any of them.
CONSTANTS
  r1 = r1  r2 = r2  k1 = k1  k2 = k2
  Records = {r1, r2}
  Template = template
  Keys = {k1, k2}
  NoKey = nokey
  CustomKind <- ClonerAndRef
  MaxEdits = 2
SPECIFICATION Spec
SYMMETRY Interchangeable
INVARIANT QueuedIsFrozen
PROPERTY EditsStayPut
PROPERTY CloneIsEqual
CHECK_DEADLOCK FALSE
