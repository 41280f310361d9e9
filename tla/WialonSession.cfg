SPECIFICATION FairSpec
CONSTANTS
  Fields <- FewFields
  Commands = {"L", "D", "P", "SD", "B", "M", "I"}
  MaxLines = 3
  MaxTokens = 9
INVARIANTS TypeOK NoDataBeforeLogin SharedTreeUntouched ReplyMatches 
PROPERTY Replied
CHECK_DEADLOCK FALSE
