\* What the documentation of award_event_xp_for_delta says of active events.
SPECIFICATION Spec
CONSTANTS
  MaxDelta = 1
  MaxTime = 1
  BatchSize = 1
  MaxDisturbances = 1
PROPERTY ActiveEventAwards
