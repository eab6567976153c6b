SPECIFICATION Spec
CONSTANTS
  MaxTasks = 1
  MaxSlices = 1
  Tools <- TaskTools
  Answers <- AllAnswers
INVARIANT ReportedCancelIsFinal
