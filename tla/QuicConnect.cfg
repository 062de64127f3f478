SPECIFICATION ConnectSpec
CONSTANTS
  MaxTasks = 4
  SIZE_MAX = 100
  MaxRendezvous = 3
  MaxRaced = 2
  Plans <- FirstPlans
INVARIANTS
  PlanIsRight
  SelectsBestConfirmedRoute
  SocketsAreAccountedFor
  NatThroughPunchedSocket
PROPERTIES
  ChoosesRoute
  CallReturns
