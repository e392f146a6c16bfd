CONSTANTS
  MaxLogChannels = 2
  FdNums = {3, 4}
  Threads = {t1, t2}
  BufSize = 2
  MaxMsgs = 3
  MaxAdmin = 4
  NoThread = NoThread
  VarNames = {"loglevel", "pasv_low", "pasv_high", "port"}
  VarInputs = {"flood", "info", "bogus", "0", "2000", "70000"}
  CfgLoglevel = NoCfgValue
  NoCfgValue = NoCfgValue
  PasvLowInit = 1000
  PasvHighInit = 3000
SPECIFICATION Spec
INVARIANT MemoryLogKeepsLast
INVARIANT SharedChannelFdOpen
CHECK_DEADLOCK FALSE
