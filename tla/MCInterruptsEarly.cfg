SPECIFICATION FairSpec
CONSTANTS
  NIBBLE = 2
  AllVectors = {0, 1, 2, 7, 13, 32, 33, 34, 47}
  Links <- MCLinks
  Flags = 1
  KeyCodes = {30, 57, 42, 158}
  KEYS = 3
  Lines = {0}
  Exceptions = {}
  EarlyKeys = TRUE
  NoChar = 256
PROPERTY KeyboardAnswers
