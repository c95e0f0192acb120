SPECIFICATION RacesSpec
CONSTANTS
  h = h
  a = a
  b = b
  ht = ht
  at = at
  bt = bt
  Home = h
  Remote = {a, b}
  Thread = {ht, at, bt}
  At <- OneEach
  Calls <- Unlocked
  Evicting = {a, b}
  MaxWrites = 2
SYMMETRY Mirror
CHECK_DEADLOCK FALSE
INVARIANTS RacesCoherent MessagesExpected LocksNeverStuck DataLandsUnseen ListedOnce
PROPERTIES RacesImplementBlockMemory
