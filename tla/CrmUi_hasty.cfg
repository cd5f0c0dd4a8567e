SPECIFICATION Spec
CONSTANTS
  Dates = {"May"}
  Names = {"Cy"}
  Titles = {"site"}
  Stages = {"Lead"}
  FirstStage = "Lead"
  Notes = {"", "met"}
  Searches = {"", "Ada"}
  Stored <- MCStored
  Patient = FALSE
  MayLose = FALSE
  MaxTasks = 1
INVARIANTS
  ShownTogether
PROPERTIES
  AutoSelectYields
