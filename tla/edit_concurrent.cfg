\* Three concurrent edits; any store call may fail.
SPECIFICATION Spec
CONSTANTS
  r1 = r1  r2 = r2  r3 = r3
  alice = alice  bob = bob
  m1 = m1  p1 = p1  p2 = p2
  words = words  spaces = spaces
  None = None  NoSpeaker = NoSpeaker  NoActor = NoActor  Keep = Keep
  Request = {r1, r2, r3}
  Actor = {alice}
  Media <- MCMedia
  Speaker <- MCSpeaker
  Segment <- MCSegment
  Text <- MCText
  Blank <- MCBlank
  Runes <- MCRunes
  Edits <- SpokenEdits
  Bases = {1, 2}
  SeedSegments <- MCSeedSegments
  SeedMedia <- MCSeedMedia
  SeedSpeakers <- MCSeedSpeakers
  MaxNow = 0
  Faults = TRUE
  MaxCPS = 12
  MaxSegmentChars = 84
  GapThresholdMs = 1000
  OverlapToleranceMs = 0
  IntHalf = 1000000
SYMMETRY Requests
INVARIANTS
  TypeOK
  PositiveDuration
  ConflictMarkExplained
  RowAccounted
