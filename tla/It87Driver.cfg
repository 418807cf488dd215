SPECIFICATION DriverSpec
CHECK_DEADLOCK FALSE
SYMMETRY MCSymmetry
CONSTANTS
  NoChip = NoChip
  System <- MCSystem
  MaxLoads <- MCMaxLoads
  Thread = {t1, t2}
  NoThread = NoThread
  Use <- MCUse
  Power <- MCPower
  Fan <- MCFan
  In <- MCIn
  Temp <- MCTemp
INVARIANTS
  DriverTypeOK
  LoadAllOrNothing
  OffersTheSame
  WideFansAreWide
  RegistersApart
  VisibleAsNamed
  CacheCoherent
PROPERTIES
  ShowsChip
  DivisorsApart
  LimitSurvivesDivisor
  NearestSetting
  TypeSticks
