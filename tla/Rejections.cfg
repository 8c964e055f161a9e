SPECIFICATION Spec
CONSTANTS
  Delegates = {"d"}
  MaxQuestions = 3
  MaxUnprompted = 0
  MaxRewakes = 0
INVARIANT ReviewsCanBeRejected
CHECK_DEADLOCK FALSE
