SPECIFICATION ReaderSpec
CONSTANTS
  a = a
  b = b
  first = first
  second = second
  Chapter <- MCChapter
  Pages = {first, second}
  FirstOn <- MCFirst
  LastOn <- MCLast
  Langs = {en, es}
  Null = Null
  Partial = Partial
  RushLimit = 1
  VisibleChunk = 2
  MaxLimited = 1
  PrefetchGap = TRUE
  Rediscovers = FALSE
  Answers = {"limited", "session"}
  MaxEvents = 2
INVARIANTS
  RightLanguage
  OnePump
PROPERTIES
  CancelsWork
CHECK_DEADLOCK FALSE
