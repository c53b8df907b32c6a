\* Two object numbers, so that two candidates can be there at once, and three
\* changes: a number can be given up, used again and given up.
CONSTANTS
  Ids = {i1, i2}
  None = None
  MaxChanges = 3
  MaxRefreshes = 2
SPECIFICATION Spec
\* Deadlock: the program may have ended.
CHECK_DEADLOCK FALSE
INVARIANTS
  CatalogIsRegistry
  StreamIsItsNode
  ListeningIsConnected
PROPERTIES
  NodeIsFound
