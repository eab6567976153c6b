SPECIFICATION BookSpec
CONSTANTS
  Calls <- MCCalls
  AnswerKinds <- AllAnswerKinds
PROPERTY ConversationsEnd
