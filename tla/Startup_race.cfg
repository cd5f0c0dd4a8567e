SPECIFICATION Spec
CONSTANTS
  Instances = {i1, i2}
  SeedDemoData = TRUE
  DemoSize = 2
  DemoContacts = 1
  OldDatabases <- EmptyDatabase
  MaxContacts = 3
  Nobody = Nobody
PROPERTY
  SeedsOnlyEmpty
