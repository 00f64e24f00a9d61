SPECIFICATION FairSpec
CONSTANTS
  Channels = 2
  MaxStarts = 2
  MaxFrames = 2
INVARIANTS SocketOutlivesThread SubscriptionsInOrder MessagesInOrder
PROPERTIES StopReturns SubscriptionsArrive
