SPECIFICATION Spec
CONSTANTS
    Callers = {p1, p2}
    CodeTTL = 1
    RefreshTTL = 1
    MaxTime = 2
    MaxSecrets = 2
    MaxAttempts = 2
PROPERTIES
    AnswerHonest
    ImplementsStore
