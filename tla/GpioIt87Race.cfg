SPECIFICATION Spec
SYMMETRY MCSymmetry
CONSTANTS
  NoThread = NoThread
  It87ts = It87ts
  Thread = {t1, t2}
  Line = {l1, l2}
  GroupOf <- MCGroupOf
  Simple = {l1}
  Activated = TRUE
INVARIANT
  LevelSticks
