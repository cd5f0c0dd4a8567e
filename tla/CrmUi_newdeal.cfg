SPECIFICATION Spec
CONSTANTS
  Dates = {"May"}
  Names = {"Ada"}
  Titles = {"site"}
  Stages = {"Lead", "Won"}
  FirstStage = "Lead"
  Notes = {"", "met"}
  Searches = {""}
  Stored <- MCStored
  Patient = FALSE
  MayLose = FALSE
  MaxTasks = 2
PROPERTIES
  NewDealForNamed
