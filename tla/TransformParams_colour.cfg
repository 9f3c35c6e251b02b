SPECIFICATION TransformSpec
CONSTANTS
  Queries <- BoundedQueries
  Contexts <- BoundedContexts
  NearMisses <- Slips
CHECK_DEADLOCK FALSE
INVARIANT AcceptedBackgroundIsAColour
