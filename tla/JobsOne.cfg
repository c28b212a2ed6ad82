SPECIFICATION Spec
CONSTANTS
    q1 = q1
    q2 = q2
    q3 = q3
    d1 = d1
    d2 = d2
    NoDoc = NoDoc
    Questions = {q1, q2, q3}
    Docs = {d1}
    Jobs = {1}
    BatchSize = 2
    MaxPerJob = 3
    MaxDbErrors = 1
    MaxEdits = 1
    MaxChurn = 1
    MultipleChoice = {q1, q2}
    FirstRank <- MCFirstRank
    FirstOccurrences <- MCFirstOccurrencesAlone
    LlmItems <- MCLlmItems
    ManualEdits <- MCManualEdits
INVARIANTS
    TypeOK
    CountersAddUp
    ActiveRowHasWorker
    CancelStopsAfterBatch
PROPERTIES
    EndedJobsStay
    UserFieldsStay
