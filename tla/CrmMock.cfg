SPECIFICATION Spec
CONSTANTS
  Seed <- MCSeed
  SeedTags <- MCSeedTags
  Requests <- MCRequests
  Null = Null
  NoNumber = NoNumber
  FirstId = 100
  MaxCreates = 2
  MaxQueue = 2
  Texts <- MCTexts
  Blank = ""
  Strip <- MCStrip
  OptionalFields = {"email"}
  Stages = {"Lead", "Won"}
  LeadStage = "Lead"
  ActivityTypes = {"call"}
  Amounts = {0, 7}
  Dates = {"d"}
  NoDate = "none"
INVARIANTS
  MockConsistent
  TagsFindable
  SameVerdicts
PROPERTIES
  ImplementsCatalog
CHECK_DEADLOCK FALSE
