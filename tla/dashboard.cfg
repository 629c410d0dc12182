SPECIFICATION PageSpec
CONSTANTS
  MaxClicks = 2
  Menus <- UserMenus
  TriggerTypes <- AllTypes
  FirstSteps <- TwoSteps
  MaxStep = 3
  MaxRuns = 2
  MaxElsewhere = 1
  MaxFailures = 1
  Unknown = Unknown
INVARIANTS
  SettledIsTrue
PROPERTIES
  WebhookNotLostUnasked
  TestRunIsFollowed
CHECK_DEADLOCK FALSE
