\* Two writers in the first life, one in the life that resumes; crashes anywhere.
CONSTANTS
  first = first  second = second  w1 = w1  w2 = w2  w3 = w3  NoLife = NoLife
  Lives = {first, second}
  Writers = {w1, w2, w3}
  Home <- TwoThenOne
  Silent = {}
  MaxEvents = 4
SPECIFICATION Spec
INVARIANTS LifeUnique LogIncreases CursorCovers
CHECK_DEADLOCK FALSE
