SPECIFICATION LiveSpec
CONSTANTS
  Workers = {w1, w2, w3}
  Requests <- LockingRequests
  Seed <- OneContact
  MaxId = 3
  NoRequest = NoRequest
  NoRow = NoRow
  Texts <- MCTexts
  Blank = ""
  Strip <- MCStrip
  OptionalFields <- MCFields
  Stages <- MCStages
  LeadStage = "Lead"
  ActivityTypes <- MCTypes
  Amounts = {0}
  Dates = {}
  NoDate = "none"
PROPERTY
  EveryRequestEnds
