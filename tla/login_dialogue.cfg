SPECIFICATION FairSpec
CONSTANTS
    Setups <- SomeSetups
    MaxSessions = 3
INVARIANTS AnswersFit OutcomeIsTrue
PROPERTY DialogueEnds
CHECK_DEADLOCK FALSE
