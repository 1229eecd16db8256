SPECIFICATION Spec
CONSTANTS
  MaxChannels = 2
  MaxSends <- SendOne
PROPERTY NoSendAfterClose
CHECK_DEADLOCK FALSE
