SPECIFICATION FairSpec
CONSTANTS
    Harnesses = {"codex", "claude", "deepseek"}
    Remote = {"codex", "deepseek"}
    Topics = {t}
    Substitution = TRUE
    MaxAttempts = 3
    MaxLines = 2
    MaxErrors = 1
INVARIANT FeedbackAccounted
INVARIANT QuestionsSettled
PROPERTY SessionEnds
