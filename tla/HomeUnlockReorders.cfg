SPECIFICATION Spec
CONSTANTS
  h = h
  a = a
  b = b
  ht = ht
  at = at
  bt = bt
  Home = h
  Remote = {a, b}
  Thread = {ht, at, bt}
  At <- OneEach
  Calls <- Blocking
  Evicting = {a, b}
  MaxWrites = 1
INVARIANTS ReaderNotInFront
CHECK_DEADLOCK FALSE
