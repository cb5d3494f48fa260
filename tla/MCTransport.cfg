\* One change, one dead connection, one lost push: what is believed, and what must happen in the end.
CONSTANTS
  Nothing = Nothing
  Debounce = 2
  DownAfter = 2
  Queue = 1
  Prompt = TRUE
  MaxChanges = 1
  Budgets <- MCTroubles
  MaxFrames = 1
SPECIFICATION Spec
INVARIANTS TypeOK ListeningIsSound
PROPERTIES EventuallyTrue NeverLatched GoesQuiet
