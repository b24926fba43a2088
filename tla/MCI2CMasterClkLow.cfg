SPECIFICATION Spec
CONSTANTS
  Width = 3
  Device <- MCDevice
  MainCalls <- MCMainCalls
  HandlerCalls <- MCHandlerCalls
INVARIANT DataChangesAtClkLow
