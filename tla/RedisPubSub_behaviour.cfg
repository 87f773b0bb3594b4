SPECIFICATION FairSpec
CONSTANTS
  Channels = 2
  MaxMessages = 3
  MaxPublish = 2
CHECK_DEADLOCK FALSE
INVARIANTS TypeOK NoGaps ErrOnceAtTheEnd HearsItself PublishedOnce
PROPERTIES BreakNoticed
