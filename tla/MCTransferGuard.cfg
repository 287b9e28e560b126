\* The transfers of shares take the guard twice in one call.
SPECIFICATION GuardSpec
CONSTANTS
  Entries <- SomeEntries
  MaxDepth = 1
INVARIANTS TopLevelNeverRefused
