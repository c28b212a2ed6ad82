SPECIFICATION Spec
CONSTANTS
    q1 = q1
    q2 = q2
    o1 = o1
    o2 = o2
    Questions = {q1, q2}
    TypeOf <- AllOpen
    Topic <- MCTopic
    Position <- MCPosition
    Options = {o1, o2}
    NoOption = NoOption
    NoQuestion = NoQuestion
    FirstKeys = {NoOption}
    MinPool = 600
    MaxSims = 2
    ReviewLength = 2
    Offers <- MCOffers
    MaxSessions = 2
    MaxEvents = 0
INVARIANTS
    DoneIsAnswered
CHECK_DEADLOCK FALSE
