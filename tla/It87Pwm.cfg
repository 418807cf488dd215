SPECIFICATION Spec
SYMMETRY MCSymmetry
CONSTANTS
  NoThread = NoThread
  None = None
  Thread = {t1, t2}
  Channel <- MCChannel
  Pwm <- MCPwm
  Temp <- MCTemp
  Ctrl <- MCCtrl
INVARIANTS
  TypeOK
  CacheMatchesChip
  ModeHolds
  DutySurvivesModeChanges
PROPERTY
  NeverSwitchedOff
