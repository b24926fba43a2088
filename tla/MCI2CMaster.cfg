SPECIFICATION Spec
CONSTANTS
  Width = 3
  Device <- MCDevice
  MainCalls <- MCMainCalls
  HandlerCalls <- MCHandlerCalls
INVARIANT TypeOK
INVARIANT WholeCallsAreTrue
INVARIANT HandlerCallsAreTrue
INVARIANT AcknowledgedIsStored
INVARIANT BusFree
PROPERTY NothingElseStored
