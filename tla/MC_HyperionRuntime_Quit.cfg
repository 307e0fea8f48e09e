CONSTANTS
  main = main
  worker = worker
  words = words
  blank = blank
  none = none
  Threads <- MCThreads
  Main = main
  Worker = worker
  Pages <- MCPages
  HeaderPage = 0
  SelfTestPage <- MCSelfTestPage
  HeaderBytes = 24
  NoPage = none
  Docs = {words, blank}
  EmptyDocs = {blank}
  NoDoc = none
  QueueCapacity = 2
  PageSize = 512
  RecordSize = 264
  MaxIngest = 3
  MaxUITouch = 3
SPECIFICATION Spec
PROPERTY QuitEventuallyExits
CHECK_DEADLOCK FALSE
