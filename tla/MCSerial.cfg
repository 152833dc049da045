SPECIFICATION FairSpec
CONSTANTS
  FIFO = 2
  Messages <- MCMessages
  Prefix <- MCPrefix
  Levels = {1, 2, 7}
  NewLine = 0
  NoByte = 99
PROPERTIES
  LosesNothing
  CallsReturn
