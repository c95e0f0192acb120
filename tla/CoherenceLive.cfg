SPECIFICATION FairSpec
CONSTANTS
  h = h
  a = a
  b = b
  ht = ht
  at = at
  bt = bt
  Home = h
  Remote = {a, b}
  Thread = {ht, at, bt}
  At <- OneEach
  Calls <- Unlocked
  Evicting = {}
  MaxWrites = 2
INVARIANTS TypeOK
PROPERTIES CallsReturn
