SPECIFICATION FairSpec
CONSTANTS
    q1 = q1
    q2 = q2
    q3 = q3
    d1 = d1
    d2 = d2
    NoDoc = NoDoc
    Questions = {q1, q2, q3}
    Docs = {d1, d2}
    Jobs = {1}
    BatchSize = 1
    MaxPerJob = 3
    MaxDbErrors = 1
    MaxEdits = 0
    MaxChurn = 1
    MultipleChoice = {q1, q2}
    FirstRank <- MCFirstRank
    FirstOccurrences <- MCFirstOccurrences
    LlmItems <- MCLlmItems
    ManualEdits <- MCManualEdits
PROPERTIES
    DoneLeavesNothing
    OverwriteMissesFew
    JobsEnd
