CONSTANTS
  Threads = {th1}
  Mods = {m1, m2, m3}
  InitFails = {m3}
  ProtoMods = {m1}
  SigOf <- MCSigOf
  Cmds <- MCCmds
  Codes = {1, 2}
  MaxCells = 3
  MaxList = 3
SPECIFICATION Spec
INVARIANT NoDanglingHook
CHECK_DEADLOCK FALSE
