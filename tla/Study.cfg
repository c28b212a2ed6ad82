SPECIFICATION Spec
CONSTANTS
    q1 = q1
    q2 = q2
    q3 = q3
    Questions = {q1, q2}
    Clients = {c1, c2}
    Pasts <- MCPasts
    Answers <- MCAnswers
    MaxAttempts = 2
    MaxChanges = 1
    ReviewLength = 2
    MaxExcludedIds = 2
    Copies <- MCCopies
    NoRow = NoRow
INVARIANTS
    TypeOK
    PlannedIsServable
    AnswersAreScheduled
    SchedulesAreSound
    ReviewsServeTheirPlan
PROPERTIES
    ReadsLastUntilCommit
CHECK_DEADLOCK FALSE
SYMMETRY Symmetric
