\* Every table of up to three lines.
SPECIFICATION Spec
CONSTANTS
  words = words
  NoSpeaker = NoSpeaker
  Text = {words}
  Blank = {}
  Runes <- MCRunes
  Segment = {0, 1, 2}
  Lines <- MCForward
  MaxCPS = 12
  MaxSegmentChars = 84
  GapThresholdMs = 1
  OverlapToleranceMs = 0
  IntHalf = 8
INVARIANTS
  NoOverlapMissed
  GapsExact
  OrderIrrelevant
