SPECIFICATION FairSpec
CONSTANTS
  MaxTargets = 3
  MayDiscard = TRUE
INVARIANTS AliveWhileNeeded FalseWins
PROPERTIES PromiseSpec Answered
