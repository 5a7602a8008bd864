SPECIFICATION PathSpec
CONSTANTS
  t1 = t1
  t2 = t2
  Callers <- MCCallers
  PathChars <- MCPathChars
  PathsOf <- MCPathsOf
  PathSize = 6
  NameSize = 2
  BufTails <- MCBufTails
  FileTails <- MCFileTails
INVARIANT AnswersRight
CHECK_DEADLOCK FALSE
