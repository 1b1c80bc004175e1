SPECIFICATION Spec
CONSTANTS
  MaxShort = 0
  MaxEdited = 3
  Name <- MCName
  Files <- MCFiles
  Digits <- MCDigits
  Number <- MCNumber
  Executable <- MCExecutable
  Unset = Unset
  Junk <- MCJunk
CHECK_DEADLOCK FALSE
INVARIANT
  OnlyTokensAreRead
