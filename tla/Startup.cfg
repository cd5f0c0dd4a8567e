SPECIFICATION LiveSpec
CONSTANTS
  Instances = {i1, i2, i3}
  SeedDemoData = TRUE
  DemoSize = 2
  DemoContacts = 1
  OldDatabases <- AnyDatabase
  MaxContacts = 2
  Nobody = Nobody
INVARIANTS
  NoMigrationClash
  CountersAhead
PROPERTIES
  SeedsFromScratch
  EveryBootServes
