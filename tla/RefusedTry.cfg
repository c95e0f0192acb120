SPECIFICATION Spec
CONSTANTS
  h = h
  a = a
  b = b
  ht = ht
  at = at
  bt = bt
  Home = h
  Remote = {a, b}
  Thread = {ht, at, bt}
  At <- OneEach
  Calls <- Trying
  Evicting = {}
  MaxWrites = 1
INVARIANTS CopiesCurrent
