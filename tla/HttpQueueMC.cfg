SPECIFICATION FairHttpSpec
CONSTANTS
  Queries = {q1, q2, q3}
  Urls = {u1, u2}
  Schedule = 1
  NoQuery = NoQuery
INVARIANTS HttpTypeOK NobodyIdles SuccessMeansAnswer
PROPERTIES Spaced AnswersArrive
CHECK_DEADLOCK FALSE
