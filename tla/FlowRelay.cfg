SPECIFICATION FairSpec
CONSTANTS
  ChanCap = 2
  MaxDropped = 2
  MaxMessages = 4
PROPERTIES
  ImplementsFeed
  CompleteAtEnd
  LoggedOutStops
  SubscriberEnds
