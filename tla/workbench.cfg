\* Nine mixes of up to four requests side by side; any store call may fail.
\* ApartSpec is WorkbenchSpec for all of them but the one with two imports.
SPECIFICATION ApartSpec
CONSTANTS
  r1 = r1  r2 = r2  r3 = r3  r4 = r4
  alice = alice
  m1 = m1  m2 = m2  p1 = p1  p2 = p2  p3 = p3
  words = words
  None = None  NoSpeaker = NoSpeaker  NoActor = NoActor  Keep = Keep
  Request = {r1, r2, r3, r4}
  Mixes <- MCMixes
  Actor = {alice}
  Media <- MCMedia
  Speaker <- MCSpeaker
  Segment <- MCSegment
  Text <- MCText
  Blank = {}
  Runes <- MCRunes
  Edits <- MCEdits
  Bases = {1, 2}
  Batches <- MCBatches
  SeedMedia <- MCSeedMedia
  SeedSegments <- MCSeedSegments
  SeedSpeakers <- MCSeedSpeakers
  MaxNow = 0
  Faults = TRUE
  MaxCPS = 12
  MaxSegmentChars = 84
  GapThresholdMs = 1000
  OverlapToleranceMs = 0
  IntHalf = 1000000
SYMMETRY FirstTwo
INVARIANTS
  WorkbenchTypeOK
  PositiveDuration
  PublishedHasVersion
  WithdrawnRecorded
  SnapshotClosed
  IndexUnique
  OrphansImported
  AnsweredStored
  DiffComplete
  StatsBounded
  MetricsBacked
PROPERTIES
  FreshNumber
  HistorySpec
