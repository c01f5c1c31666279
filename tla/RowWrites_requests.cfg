\* One request of every kind against every layout, with one write of another client's.
SPECIFICATION Spec
CONSTANTS
  Slot = {1, 2, 3, 4, 5}
  Null = Null
  Absent = Absent
  NotGiven = NotGiven
  Layouts <- SomeLayouts
  Requests <- SomeRequests
  Tables <- SomeTables
  Elsewhere <- SomeElsewhere
  MaxEdits = 1
INVARIANTS OutcomeAsAsked HiddenKept SingleWritesFound
