SPECIFICATION Spec
CONSTANTS
  MaxFields = 2
  Text <- MCText
  NoText = ""
  DropFirst <- MCDropFirst
  DropLast <- MCDropLast
  Trim <- MCTrim
  Token <- MCToken
  Clean <- MCClean
  Digits <- MCDigits
  Number <- MCNumber
  Requests <- MCRequests
  Relative <- MCRelative
  Disk <- MCDisk
  NoAnswer = NoAnswer
CHECK_DEADLOCK FALSE
INVARIANTS
  TypeOK
  ErrorHasStatus
  ErrorIffMalformed
  HeadersAsSent
  AnswerAsRequested
  ThrowsOnlyOn
