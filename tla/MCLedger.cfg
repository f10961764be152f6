SPECIFICATION Spec
CONSTANTS
  c1 = c1
  c2 = c2
  Charges <- MCCharges
  Alike <- MCCharges
  MaxAnswers = 2
  MaxFaults = 1
  MaxEvents = 8
INVARIANTS TypeOK CountedOnce CaughtUp AnswerKept
PROPERTIES ShownAnswerStands AnswersFollow
CHECK_DEADLOCK FALSE
