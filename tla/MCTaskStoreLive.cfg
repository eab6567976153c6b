SPECIFICATION Spec
CONSTANTS
  MaxTasks = 2
  MaxSlices = 1
  Tools = {"confirm_delete", "slow_compute"}
  Answers = {"accept"}
PROPERTIES
  CancelStopsWorker
  AnsweredTaskSettles
