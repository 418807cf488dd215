SPECIFICATION SpecAsBuilt
CONSTANTS
  NoThread = NoThread
  Thread = {t1, t2}
  Reg <- MCReg
  UnlockedReg <- MCUnlockedReg
  Value <- MCValue
  HasBankSel = TRUE
  PowerOn <- MCPowerOn
INVARIANT
  LockedWriteLands
