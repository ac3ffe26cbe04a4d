SPECIFICATION Spec
CONSTANTS
  Hosts <- MCWebView
  None = None
  MaxStarts = 2
  MaxProbes = 2
  MaxPosts = 1
  MaxRenders = 2
PROPERTY UnmountIsFinal
CHECK_DEADLOCK FALSE
