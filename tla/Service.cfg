SPECIFICATION Spec
CONSTANTS
  Requests = {r1}
  NoReport = NoReport
  Envs <- MCEnvs
  Served <- MCServed
  Inputs <- MCInputs
  Replies <- MCReplies
  Tokens <- Token
INVARIANTS
  RunningCanMint
  StrictIsEnforced
  CheckTellsTheVerdict
  PresetsAgree
  AllowedOriginsRead
PROPERTIES
  EveryRequestIsAnswered
CHECK_DEADLOCK FALSE
