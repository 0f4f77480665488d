SPECIFICATION Spec
CONSTANTS
    NumWorks = 4
    BatchSize = 2
    Concurrencies = {2}
    MaxRuns = 2
    Answers <- MCAnswers
    Stranger = Stranger
    None = None
INVARIANTS
    WrittenIsOwn
CHECK_DEADLOCK FALSE
