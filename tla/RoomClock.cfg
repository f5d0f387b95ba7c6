CONSTANTS
  NumSlots = 4
  Minute = 2
  DefaultMinutes = 2
  PauseMinutes = 4
  LongestMeeting = 3
  TypedMinutes <- MCTypedMinutes
  RejoinPaused = FALSE
  MaxCreates = 1
  MaxTime = 15
SPECIFICATION Spec
CHECK_DEADLOCK FALSE
INVARIANTS DeadlineIsAsPromised WheelLooksInTime
