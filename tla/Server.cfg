\* Two requests, or three for certificates, in two runs of the program.
CONSTANTS
  Names = {language, model}
  AtStart = {model}
  Changes <- MCChanges
  Posted <- MCPosted
  Passwords <- MCPasswords
  language = language
  model = model
  NoSettings = NoSettings
  Torn = Torn
  NoFile = NoFile
  NoPassword = NoPassword
  Garbled = Garbled
  MaxRequests = 6
  MaxStarts = 2
SPECIFICATION Spec
\* Deadlock: the program has ended for the last time.
CHECK_DEADLOCK FALSE
INVARIANTS
  AnsweredIsStored
  
  NoRequestOnFreedTree
  NamedIsThere
  NothingComesBack
  PasswordFits
PROPERTIES
  ImplementsDurable
  ShutdownEnds
