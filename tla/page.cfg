CONSTANTS
  Client = {1, 2}
  Window <- MCWindow
  Stored <- MCStored
  Needs = {1}
  MaxRequests = 1
  Finger = {1, 2}
  MaxPresses = 3
  Dir = {"top"}
  File = {"f"}
  Link = {"l"}
  Nowhere = "nowhere"
  Child <- MCChild
  Parent <- MCParent
  tempPath = "top"
  Upload = {"u"}
  MaxChannels = 3
SPECIFICATION MCSpec
INVARIANTS FingersFollow ListingIsOne RowsAreHome
PROPERTIES SettingsSettle GesturesAreOwn LinksComeBack
\* a page may be closed, and a device disconnected
CHECK_DEADLOCK FALSE
