SPECIFICATION FairSpec
CONSTANTS
  Hosts <- MCHosts
  None = None
  MaxStarts = 2
  MaxProbes = 2
  MaxPosts = 1
  MaxRenders = 2
INVARIANTS
  RightEnvelope
  CeremonyIsClosed
PROPERTIES
  FollowsStateFlow
  IframeUnmountIsFinal
  LoadingEnds
  CompletionIsTold
CHECK_DEADLOCK FALSE
