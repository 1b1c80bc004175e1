SPECIFICATION LiveSpec
CONSTANTS
  MaxShort = 5
  MaxEdited = 27
  Name <- MCName
  Files <- MCFiles
  Digits <- MCDigits
  Number <- MCNumber
  Executable <- MCExecutable
  Unset = Unset
  Junk <- MCJunk
CHECK_DEADLOCK FALSE
INVARIANTS
  TypeOK
  TokensOfFile
  StopsAtEOF
  AcceptedIfGrammatical
  ServersAsWritten
PROPERTIES
  Loads
  LoadProgresses
