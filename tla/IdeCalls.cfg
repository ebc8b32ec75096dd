CONSTANTS
  Capacity <- MCCapacity
  Data <- MCData
  Factory <- MCFactory
  Floating <- MCFloating
  Outcomes <- WriteFaults
  Table <- MCTable
  Requests <- AllRequests
  WORD <- MCWord
SPECIFICATION FairSpec
INVARIANTS TypeOK CommandTaken ReadUnderDrq WriteUnderDrq QuietOnReturn ReadIsRight
PROPERTIES ImplementsBlockDevice Returns
