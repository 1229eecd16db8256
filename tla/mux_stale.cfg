SPECIFICATION Spec
CONSTANTS
  MaxChannels = 2
  MaxSends <- SendOne
PROPERTY NoChannelOnClosingSocket
CHECK_DEADLOCK FALSE
