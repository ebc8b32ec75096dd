CONSTANTS
  Items <- MCItems
  Keys <- MCKeys
  MaxSize = 4
  Blank = 0
SPECIFICATION ArraySpec
PROPERTIES ImplementsSortedArray Sorted
