SPECIFICATION FairSpec
CONSTANTS
  Commands = {"clearfaults", "learnimmo"}
  Poll <- MCPoll
  Seeds = {4660}
  Echo = TRUE
  ReadLoopsLimit = 1
  InitLoopsLimit = 2
  MaxPosts = 1
  MaxFaults = 1
  MaxBacklog = 2
PROPERTY OneRequestAtATime
PROPERTY UnlockedBeforePolling
INVARIANT CommandsAreHonest
PROPERTY ResumesPolling
PROPERTY SessionMovesOn
CHECK_DEADLOCK FALSE
