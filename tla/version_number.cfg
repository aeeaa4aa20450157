\* Two concurrent publishes.
SPECIFICATION WorkbenchSpec
CONSTANTS
  r1 = r1  r2 = r2  r3 = r3  r4 = r4
  alice = alice
  m1 = m1  m2 = m2  p1 = p1  p2 = p2  p3 = p3
  words = words
  None = None  NoSpeaker = NoSpeaker  NoActor = NoActor  Keep = Keep
  Request = {r1, r2, r3, r4}
  Mixes <- TwoPublishers
  Actor = {alice}
  Media <- MCMedia
  Speaker <- MCSpeaker
  Segment <- MCSegment
  Text <- MCText
  Blank = {}
  Runes <- MCRunes
  Edits <- MCEdits
  Bases = {1, 2}
  Batches <- MCOneLine
  SeedMedia <- MCSeedMedia
  SeedSegments <- MCSeedSegments
  SeedSpeakers <- MCSeedSpeakers
  MaxNow = 0
  Faults = FALSE
  MaxCPS = 12
  MaxSegmentChars = 84
  GapThresholdMs = 1000
  OverlapToleranceMs = 0
  IntHalf = 1000000
INVARIANT
  NumbersUnique
