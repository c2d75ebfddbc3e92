SPECIFICATION FairSpec19
CONSTANTS
  UserCommands = {204, 107}
  PacketSizes = {1, 2}
  DataBytes = {0, 208}
  Echo = TRUE
  ReadLoopsLimit = 2
  MaxPosts = 1
  MaxLost = 1
  Keywords = {85, 131}
  Junk = {0, 248}
  MaxJunk = 2
INVARIANT ConnectedMeansIdentified
INVARIANT NoCommandRepeated
INVARIANT AlertIsTruthful
PROPERTY NeverTalksOverTheEcu
PROPERTY ChallengeIsTheComplement
PROPERTY DeadEcuEndsSession
PROPERTY PendingCommandIsTaken
CHECK_DEADLOCK FALSE
