SPECIFICATION FairMintSpec
CONSTANTS
  Ops = {o1}
  MaxAttempts = 3
  Fields = {f1, f2}
  NoReply = NoReply
INVARIANTS
  OneUnlessUnknown
  MintedAsAllowed
  TermsFailClosed
  RefusedMeansUntouched
  SuccessIsReal
PROPERTIES
  EveryoneIsAnswered
CHECK_DEADLOCK FALSE
