SPECIFICATION Spec
CONSTANTS
    Tokens = {"a", "b"}
    Newline = "newline"
    None = None
    Echo <- EchoText
    Prompt <- PromptText
    Failure <- FailureText
    Patterns <- TwoPatterns
    Prompts <- OnePrompt
    TillOccurs = {0, 2}
    MaxText = 6
    MaxChunk = 5
    MaxPauses = 1
INVARIANTS OccurrencesAreReal EveryMatchOccurs OneLineWhilePaused CommandIsWhole
CHECK_DEADLOCK FALSE
