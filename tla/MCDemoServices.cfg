SPECIFICATION DemoSpec
INVARIANT FlowHonoured
INVARIANT AnswersAreTrue
INVARIANT HealthyAnswers
CHECK_DEADLOCK FALSE
