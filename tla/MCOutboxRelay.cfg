SPECIFICATION FairSpec
CONSTANTS
  NumSources = 2
  MaxEvents = 3
  Batch = 2
  MaxAttempts = 2
  Poison <- MC_Poison
  MaxOutages = 2
  MaxFaults = 2
INVARIANTS
  TypeOK
  NoSilentLoss
  NoOvertaking
  DuplicatesComeFromFaults
  ShortOutageLosesNothing
PROPERTIES
  DeliversInOrder
  EventuallyPublished
