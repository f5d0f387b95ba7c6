CONSTANTS
  a = a
  b = b
  m = m
  NoOne = NoOne
  Guests <- MCGuests
  Moderators <- MCModerators
  Sharers <- MCSharers
  Reloaders <- MCReloaders
  StartMuted <- MCStartMuted
  MaxCommands = 3
SPECIFICATION Spec
INVARIANTS ControlsAgree MutedIsSilent
