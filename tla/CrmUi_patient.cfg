SPECIFICATION LiveSavesSpec
CONSTANTS
  Dates = {"May"}
  Names = {"", "Cy"}
  Titles = {"", "site"}
  Stages = {"Lead", "Won"}
  FirstStage = "Lead"
  Notes = {"", "met"}
  Searches = {"", "Ada"}
  Stored <- MCStored
  Patient = TRUE
  MayLose = TRUE
  MaxTasks = 2
INVARIANTS
  ShowsOwnWrites
  NoCrossedSave
PROPERTIES
  UntouchedKept
  SubmitIsAnswered
  ClosedWhenSaved
