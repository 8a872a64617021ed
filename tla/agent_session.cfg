SPECIFICATION RFairSpec
CONSTANTS
  MaxStarts = 2
  MaxRequests = 1
  MaxErrors = 1
  MaxSessions = 2
  MaxLives = 2
INVARIANTS
  TurnIsBoundToItsStart
  RequestsReachTheUser
  CardMatchesSession
  TurnsAreNotForgotten
PROPERTIES
  EndsByOwnEvent
  CommandsReturn
CHECK_DEADLOCK FALSE
