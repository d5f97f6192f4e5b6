SPECIFICATION Spec
CONSTANTS
  Duration = 2
  Configs <- PlainYoutube
  MaxDue = 2
  MaxActs = 5
PROPERTY JumpsAreAsked
CHECK_DEADLOCK FALSE
