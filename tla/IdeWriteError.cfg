CONSTANTS
  Capacity <- MCCapacity
  Data <- MCData
  Factory <- MCFactory
  Floating <- MCFloating
  Outcomes <- WriteFaults
  Table <- MCTable
  Requests <- AllRequests
  WORD <- MCWord
SPECIFICATION Spec
INVARIANT WriteErrorReported
