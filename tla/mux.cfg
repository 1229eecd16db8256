SPECIFICATION FairSpec
CONSTANTS
  MaxChannels = 2
  MaxSends <- FewSends
INVARIANTS EmptyOnlyWithoutChannels CloseReachesPeer
PROPERTIES ChannelsKeepPromise ChannelSettles CloseIsSeen UnusedSocketCloses SentIsDelivered
CHECK_DEADLOCK FALSE
