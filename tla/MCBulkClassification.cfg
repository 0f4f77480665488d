SPECIFICATION Spec
CONSTANTS
    NumWorks = 4
    BatchSize = 2
    Concurrencies = {1, 2}
    MaxRuns = 2
    Answers <- MCAnswers
    Stranger = Stranger
    None = None
INVARIANTS
    ReusedAnswersFit
    UnclassifiedWasAskedAlone
PROPERTIES
    WrittenIsSupported
CHECK_DEADLOCK FALSE
