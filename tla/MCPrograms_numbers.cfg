SPECIFICATION MCSpec
CONSTANTS
  t1 = t1
  t2 = t2
  t3 = t3
  Threads <- MCThreads
  Nobody = nobody
  MaxCalls = 2
  People <- MCPeople
  Phones <- MCPhones
  Ids <- MCIds
  MaxAdds = 3
  Chars <- MCChars
  Contents <- MCContents
  Texts <- MCTexts
  BufSize = 4
  FdLimit = 5
  MaxCommands = 5
  CommandRoom = 4
  Items = 2
  PipeSize = 1
INVARIANT RecordsStay
CHECK_DEADLOCK FALSE
