CONSTANTS
  MaxFlagsNum = 5
  FlagChars = {"O", "G", "A", "B"}
  InputChars = {"+", "-", "O", "G", "A", "B", "!"}
  MaxInput = 3
  SITEOP = "O"
  GADMIN = "G"
  WithVarsSet = TRUE
SPECIFICATION Spec
INVARIANT TailZero
