SPECIFICATION Spec
CONSTANTS
    d1 = d1
    d2 = d2
    x = x
    y = y
    NoDoc = NoDoc
    NoQuestion = NoQuestion
    bk = bk
    bx = bx
    by = by
    Docs = {d1, bk}
    Banks = {bk}
    BankRow <- MCBankRow
    q1 = q1
    q2 = q2
    q3 = q3
    q4 = q4
    Questions = {q1, q2, q3, q4, bx, by}
    Contents = {x, y}
    Letters = {"a"}
    Attempts = {1}
    Threads = {1}
    Printed <- MCPrinted
SYMMETRY Symmetry
INVARIANTS
    TypeOK
    OwnerContains
    StatusTellsContents
    MergedWhenQuiet
    ChainReturnsBest
    HeadingsBecomeQuestions
    RepairKeepsQuestions
PROPERTIES
    AttemptsFollow
    KeysTurnOnlyInMerges
    ImplementsCatalogue
