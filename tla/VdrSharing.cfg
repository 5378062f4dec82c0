SPECIFICATION Spec
CONSTANTS
  Calls = {c1, c2}
  Tabs = {t1}
  Cats = {documents, transcripts}
  MeetingCats = {transcripts}
CHECK_DEADLOCK FALSE
INVARIANTS TypeOK  DisconnectCuts
PROPERTY ImplementsRoom
