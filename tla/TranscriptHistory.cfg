\* Enough transcripts to wrap the array twice, or be cleared and wrap it again.
CONSTANTS
  Size = 2
  MaxEntries = 4
  MaxDeletes = 2
SPECIFICATION Spec
INVARIANTS
  CountsAgree
PROPERTIES
  ImplementsLog
  PublishedIsRecorded
