SPECIFICATION Spec
CONSTANTS
  Calls <- MCCalls
  AnswerKinds <- AllAnswerKinds
INVARIANTS
  TypeOK
  CompletionWasGranted
  GrantInv
PROPERTY ByTheBookIsAccepted
