\* Two editors at the page: one who submits once, and one who wants two edits
\* accepted and clicks for a list.
SPECIFICATION SessionSpec
CONSTANTS
  alice = alice  bob = bob
  m1 = m1
  words = words  more = more
  None = None  NoSpeaker = NoSpeaker  NoActor = NoActor  Keep = Keep
  Editor = {alice, bob}
  Actor = {alice, bob}
  MaxTries <- MCMaxTries
  Goal <- MCGoal
  MaxClicks <- MCMaxClicks
  Request <- MCRequest
  Line = 1
  Wants <- MCWants
  Media = {m1}
  Speaker = {}
  Segment = {1}
  Text <- MCText
  Blank = {}
  Runes <- MCRunes
  Edits <- MCEdits
  Bases = {1, 2, 3, 4}
  SeedMedia <- MCSeedMedia
  SeedSegments <- MCSeedSegments
  SeedSpeakers <- MCSeedSpeakers
  MaxNow = 0
  Faults = FALSE
  MaxCPS = 12
  MaxSegmentChars = 84
  GapThresholdMs = 1000
  OverlapToleranceMs = 0
  IntHalf = 1000000
INVARIANTS
  RefusedOnlyWhenOvertaken
  RowTraceable
  AuditTree
PROPERTY
  EveryEditLands
