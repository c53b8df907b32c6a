\* Both threads: two utterances, two changes of settings after the start, and
\* sockets for the start, both changes and one submission.
CONSTANTS
  Stale = 2
  Settings <- MCSettings
  MaxUtterances = 2
  MaxChanges = 2
  MaxSockets = 4
SPECIFICATION Spec
\* Deadlock: with no connection, no utterance and no change of settings left
\* within the bounds, the application really has nothing to do.
CHECK_DEADLOCK FALSE
INVARIANT StateMatchesSocket
PROPERTY AnswersInTurn
