SPECIFICATION FairSpec
CONSTANTS
  lab = lab
  stack = stack
  a = a
  b = b
  Days = 2
  DayLength = 3
  FullHours <- MidnightOnly
  Four = 1
  Delay = 1
  Lab = lab
  Apps <- TwoApps
  Chain <- Shared
  Choices <- Declared
  MaxChanges = 1
INVARIANTS
  TypeOK
  TimerMarksOpenings
  DisruptsInsideEveryWindow
PROPERTY PendingRebootEnds
