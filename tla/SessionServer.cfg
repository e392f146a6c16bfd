\* Both builds; three clients for two contexts, so that the table fills;
\* c3 may reset in the backlog, c1's session child may die.
CONSTANTS
  Clients = {c1, c2, c3}
  HardUserLimit = 2
  Aborting = {c3}
  Crashing = {c1}
  NoClient = NoClient
SPECIFICATION Spec
INVARIANT SlotsExclusive
PROPERTY ConnectionAnswered
CHECK_DEADLOCK FALSE
