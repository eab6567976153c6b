SPECIFICATION Spec
CONSTANTS
  Calls <- MCCalls
  AnswerKinds <- AllAnswerKinds
INVARIANT RequiredTaskIsRefused
