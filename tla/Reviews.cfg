SPECIFICATION Spec
CONSTANTS
  Delegates = {"d"}
  MaxQuestions = 2
  MaxUnprompted = 1
  MaxRewakes = 1
INVARIANTS TypeOK AnswersMatchQuestions DoneIsAccepted ReviewsAreOfWaiters
PROPERTIES NobodyWaitsForEver
CHECK_DEADLOCK FALSE
