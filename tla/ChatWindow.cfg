CONSTANTS
  Null = Null
  Models = {mock, gpt}
  DefaultModel = mock
  MaxConvs = 3
  MaxMessages = 3
SPECIFICATION Spec
INVARIANT AnswersFollowQuestions
PROPERTIES LateAnswerDropped InputComesBack
