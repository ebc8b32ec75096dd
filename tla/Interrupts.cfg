CONSTANTS
  StubAddress <- MCStubs
  Frequencies = {50}
  Lines <- MCLines
  Exceptions <- MCExceptions
  MaxRaises = 2
SPECIFICATION FairSpec
INVARIANTS OneAtATime RightHandler EoiEndsItsOwn EveryTickCounted
PROPERTY Answered
