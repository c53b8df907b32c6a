\* Two threads with four fields to set and requests to answer, three times in all.
CONSTANTS
  MaxItems = 20
  Threads = {main, http}
  Http = http
  Groups = {input, stt}
  Names = {state, rms}
  Settings = {language, model, tls}
  Certs = {ca, cert, key}
  Posts <- MCPosts
  NoName = none
  main = main
  http = http
  input = input
  stt = stt
  state = state
  rms = rms
  language = language
  model = model
  tls = tls
  ca = ca
  cert = cert
  key = key
  none = none
  MaxWork = 3
SPECIFICATION Spec
\* Deadlock: the bounds are used up.
CHECK_DEADLOCK FALSE
INVARIANTS
  ListsAreSound
  TreeIsCurrent
  StatusIsASnapshot

