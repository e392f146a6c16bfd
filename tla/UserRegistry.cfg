CONSTANTS
  Starts = {0}
  Null = Null
  Users = {u1, u2}
  Threads = {t1, t2}
  Readers = {r1}
  Uids = {0, 1, 2, 3}
  Grow = 3
  Gids = {g1}
SYMMETRY Symmetry
SPECIFICATION Spec
CHECK_DEADLOCK FALSE
INVARIANT ArrayConsistent
