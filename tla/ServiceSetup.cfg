SPECIFICATION SetupSpec
CONSTANTS
  Paths = {old, new}
  Options = {foreground, background}
  None = None
INVARIANTS InstalledIsRegistered Reinstalled
