CONSTANTS
  Paths = {"a.txt", "b.txt"}
  Names = {"a", "b"}
  Contents <- MCContents
  Calls <- MCCalls
  Room = 4
  CONTENT = 3
  WORD <- MCWord
  Junk = 99
  MaxEdits = 2
SPECIFICATION Spec
INVARIANT CountsFiles
