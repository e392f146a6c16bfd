CONSTANTS
  Threads = {t1, t2}
  NoThread = NoThread
  Keys <- MCKeys
  Datas <- MCDatas
  BufLens <- MCBufLens
  MaxFrees = 1
SPECIFICATION Spec
PROPERTY GetSeesSet
CHECK_DEADLOCK FALSE
