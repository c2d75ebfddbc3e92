SPECIFICATION MCFairSpec
CONSTANTS
  a = a
  b = b
  huge = huge
  Images <- MCImages
  NoImage = noimage
  Lengths <- MCLengths
  MaxArtBytes = 4
  MaxArtChunks = 3
  Writers = {w1}
  Listeners = {l1, l2}
  MaxChanges = 3
  Frontends = {f1}
  CatalogLengths <- MCCatalogLengths
  MaxFragmentPayload = 2
  MaxCommands = 3
  MaxRequests = 1
  Capacity = 2
INVARIANT BufferIsBounded
INVARIANT ReportedIconIsTheTurns
INVARIANT NothingSkipped
INVARIANT OnlyWhileConnected
INVARIANT PhoneShowsWholeCatalogs
INVARIANT CommandsInOrder
INVARIANT PhoneIsCurrentUnasked
PROPERTY ShowsWholeImages
PROPERTY ShowsWholeIcons
PROPERTY LastChangeArrives
PROPERTY RequestIsAnswered
CHECK_DEADLOCK FALSE
