SPECIFICATION FairSpec
CONSTANTS
  k1 = k1
  k2 = k2
  Clients <- MCClients
  Letters <- MCLetters
  NameOf <- MCNameOf
  TextsOf <- MCTextsOf
  NameGarbage <- MCNameGarbage
  ChatGarbage <- MCChatGarbage
  NameCapacity = 1
  Capacity = 2
  ListSize = 7
  ChatSize = 6
  MaxMessages = 2
INVARIANTS MessagesKept ViewsTrue
PROPERTIES LeaversVanish AllSeeChat
CHECK_DEADLOCK FALSE
