SPECIFICATION Spec
CONSTANTS
  Definitions <- MCDefinitions
  Connections = {c1, c2}
  MaxAttempts = 3
  MaxTurns = 8
INVARIANTS SomebodyActs OverIsQuiet OneFront
PROPERTIES DecisionsStand
CHECK_DEADLOCK FALSE
