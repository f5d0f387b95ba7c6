SPECIFICATION FairSpec
CONSTANTS
  MaxTakes = 2
  MaxLength = 3
  MaxBody = 2
  MaxRestarts = 1
  NoTake = NoTake
  NoFile = NoFile
INVARIANTS UploadsAreWhole LinksLeadToTakes
PROPERTIES LinkedFilesAreFinal 
CHECK_DEADLOCK FALSE
