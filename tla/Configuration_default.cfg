\* What a developer starts with: the required variables and no others.
SPECIFICATION ConfigSpec
CONSTANTS
  Deployments <- Bare
  NoFile = NoFile
CHECK_DEADLOCK FALSE
INVARIANT DefaultsAreAccepted
