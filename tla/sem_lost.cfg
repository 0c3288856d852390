SPECIFICATION Spec
CONSTANTS
  c1 = c1  c2 = c2  n1 = n1  p1 = p1  p2 = p2
  Callers = {c1}
  Natives = {}
  Posters = {p1}
  Initial = 0
  MaxPosts = 1
INVARIANTS CallersAreWoken
CHECK_DEADLOCK FALSE
