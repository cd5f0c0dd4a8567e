SPECIFICATION Spec
CONSTANTS
  Workers = {w1, w2}
  Requests <- StoreRequests
  Seed <- OneContact
  MaxId = 2
  NoRequest = NoRequest
  NoRow = NoRow
  Texts <- MCTexts
  Blank = ""
  Strip <- MCStrip
  OptionalFields <- MCFields
  Stages <- MCStages
  LeadStage = "Lead"
  ActivityTypes <- MCTypes
  Amounts = {0}
  Dates = {}
  NoDate = "none"
INVARIANTS
  TypeOK
  IdsContiguous
  PendingIdsFresh
  AckedCreatesStored
  RefIntegrity
  MandatoryFilled
PROPERTIES
  PatchesOnlySupplied
  ImplementsCatalog
