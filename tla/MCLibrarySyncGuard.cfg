\* Nothing changes, nothing breaks, nothing fails: a library with no film in it.
CONSTANTS
  a = a  b = b  i1 = i1  i2 = i2  i3 = i3
  Libs = {a, b}
  Items = {i1, i2, i3}
  Titles = {i1}
  Page = 2
  EmptyFloor = 2
  WipeFloor = 3
  Share = 2
  AllowShrink = FALSE
  NoRow = NoRow
  NoLib = NoLib
  MaxChanges = 0
  MaxBroken = 0
  MaxErrors = 0
  MaxStops = 0
CHECK_DEADLOCK FALSE
SPECIFICATION Spec
PROPERTIES JudgedByWhatItSaw
