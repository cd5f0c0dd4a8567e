SPECIFICATION Spec
CONSTANTS
  Workers = {w1, w2}
  Requests <- TwoPatches
  Seed <- OneContact
  MaxId = 1
  NoRequest = NoRequest
  NoRow = NoRow
  Texts <- MCTexts
  Blank = ""
  Strip <- MCStrip
  OptionalFields <- MCFields
  Stages <- MCStages
  LeadStage = "Lead"
  ActivityTypes <- MCTypes
  Amounts = {0}
  Dates = {}
  NoDate = "none"
PROPERTY
  PatchReplyIsStoredRow
