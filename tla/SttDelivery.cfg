\* Three utterances: one in flight, one that meets it, one after a switch.
CONSTANTS
  MaxUtterances = 3
  MaxSwitches = 2
SPECIFICATION Spec
\* Deadlock: the bounds are used up, or the main loop has ended.
CHECK_DEADLOCK FALSE
INVARIANTS
  OnePlace
  StateSettles
PROPERTIES
  ImplementsHandover
  FinishedIsSettled
