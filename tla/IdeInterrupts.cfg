CONSTANTS
  Capacity <- MCCapacity
  Data <- MCData
  Factory <- MCFactory
  Floating <- MCFloating
  Outcomes <- NoFault
  Table <- MCTable
  Requests <- AllRequests
  WORD <- MCWord
SPECIFICATION Spec
INVARIANT InterruptsMasked
