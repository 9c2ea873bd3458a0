SPECIFICATION MCSpec
CONSTANTS
  UserSignal = {"INT", "ALRM"}
  MaxUserSignals = 2
  Buffer = {0, 1}
  Given = {0, 2}
  MaxOptions = 1
  MaxDelay = 1
  MaxThrows = 1
  MaxAge = 14
  Root = r
  Tid = {r, t}
  MaxNode = 1
  Grades = {1}
  Busy = {t}
  MaxWaiting = 2
INVARIANTS
  EndsWithProgram
  TasksOnTime
  RowsHaveRecords
  MeasuredThere
PROPERTIES
  OutlivesProgram
  PendingEndIsSeen
