\* Requests, crashes and restarts; any store call may fail.
SPECIFICATION RecoveryFairSpec
CONSTANTS
  r1 = r1  r2 = r2  boot = boot
  alice = alice
  m1 = m1  m2 = m2  p1 = p1
  words = words  many = many
  None = None  NoSpeaker = NoSpeaker  NoActor = NoActor  Keep = Keep
  Request = {r1, r2, boot}
  Boot = boot
  Mixes <- MCMixes
  Actor = {alice}
  Media <- MCMedia
  Speaker <- MCSpeaker
  Segment <- MCSegment
  Text <- MCText
  Blank = {}
  Runes <- MCRunes
  Edits <- MCEdits
  Bases = {1, 2}
  Batches = {}
  SeedMedia <- MCSeedMedia
  SeedSegments <- MCSeedSegments
  SeedSpeakers <- MCSeedSpeakers
  MaxNow = 0
  MaxCrashes = 2
  Faults = TRUE
  MaxCPS = 12
  MaxSegmentChars = 84
  GapThresholdMs = 1000
  OverlapToleranceMs = 0
  IntHalf = 1000000
INVARIANTS
  RecoveryTypeOK
  ConflictMarkExplained
  RowAccounted
  AnsweredStored
  RecoveredExact
PROPERTIES
  StartupEnds
  RequestsEnd
