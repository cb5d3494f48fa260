\* Reads that fail now and then, with reads in between that do not.
CONSTANTS
  Nothing = Nothing
  Debounce = 2
  DownAfter = 2
  Queue = 1
  Prompt = TRUE
  MaxChanges = 0
  Budgets <- MCBlips
  MaxFrames = 1
SPECIFICATION Spec
PROPERTIES DownMeansInARow
