SPECIFICATION ConversationSpec
CONSTANTS
  i1 = i1  i2 = i2  c1 = c1  c2 = c2
  Items = {i1, i2}
  Calls = {c1, c2}
  MaxAttempts = 2
  NoItem = NoItem
  MaxMessages = 3
  AtOnce = 2
SYMMETRY Symmetry
INVARIANTS
  ConversationTypeOK
  OneExecutorPerItem
  AttemptsAccounted
  CompletedWasVerified
  NoFalseSuccess
  OpenQuestionIsLive
PROPERTIES
  SettledIsNotRunAgain
  SetAsideIsKept
