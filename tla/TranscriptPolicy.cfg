\* NestingLimit and BufferSize are 1000 and 256 in the code.
\* One text, two changes of settings before or while it is dealt with.
CONSTANTS
  Texts <- MCTexts
  Settings <- MCSettings
  Noises <- MCNoises
  Answers <- MCAnswers
  Language <- MCLanguage
  Stamp <- MCStamp
  Name <- MCName
  Location <- MCLocation
  Serial <- MCSerial
  NestingLimit = 3
  BufferSize = 16
  MaxTexts = 1
  MaxChanges = 2
SPECIFICATION Spec
\* Deadlock: the bounds are used up, or the program has crashed.
CHECK_DEADLOCK FALSE
INVARIANTS
  VerdictIsRight
  SentencesAreKept
  TextSurvives
