CONSTANTS
  FileSizes = {0, 1, 2}
  MaxTransfers = 4
  XferlogOn = TRUE
SPECIFICATION Spec
CHECK_DEADLOCK FALSE
INVARIANT TypeOK
INVARIANT XferlogRecordsTransfers
