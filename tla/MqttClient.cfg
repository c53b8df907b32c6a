\* Two servers, a request beyond the first, a client more than the requests
\* can use up, and a crash anywhere.
CONSTANTS
  Servers = {s1, s2}
  Factory = s1
  None = None
  Torn = Torn
  MaxClients = 2
  MaxRequests = 2
  MaxCrashes = 1
SPECIFICATION Spec
\* Deadlock: the program may have ended, or stand where a client more than
\* MaxClients would be needed.
CHECK_DEADLOCK FALSE
INVARIANTS
  NoClientLeaks
  SettledIsKept
  StatusIsTrue
PROPERTY MutexIsGivenBack
