SPECIFICATION Spec
CONSTANTS
  MaxTasks = 1
  MaxSlices = 1
  Tools <- TaskTools
  Answers <- AllAnswers
INVARIANTS
  IInv
  CancelledNeverSettles
  OutcomeMatchesStatus
  ReportedOutcomeIsFinal
  UnlockedReadIsSafe
  DeletedOnlyIfAccepted
  OnlyPayloadsTerminate
PROPERTIES
  FirstAnswerStands
  ImplementsLifecycle
