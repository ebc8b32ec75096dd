CONSTANTS
  Capacity <- MCCapacity
  Data <- MCData
  Factory <- MCFactory
  Floating <- MCFloating
  Outcomes <- NoFault
  Table <- MCTable
  Requests <- WrapRequests
  WORD <- MCWord
SPECIFICATION Spec
INVARIANT InputsValid
