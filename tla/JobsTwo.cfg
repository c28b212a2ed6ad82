SPECIFICATION Spec
CONSTANTS
    q1 = q1
    q2 = q2
    q3 = q3
    d1 = d1
    d2 = d2
    NoDoc = NoDoc
    Questions = {q1, q2}
    Docs = {d1}
    Jobs = {1, 2}
    BatchSize = 1
    MaxPerJob = 2
    MaxDbErrors = 0
    MaxEdits = 0
    MaxChurn = 1
    MultipleChoice = {q1, q2}
    FirstRank <- MCFirstRankTwo
    FirstOccurrences <- MCFirstOccurrencesTwo
    LlmItems <- MCLlmItems
    ManualEdits <- MCManualEdits
INVARIANTS
    OneStoredWorker
PROPERTIES
    EndedJobsStay
    ImplementsLifecycle
