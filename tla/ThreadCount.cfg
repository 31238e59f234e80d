SPECIFICATION Spec
CONSTANTS
    w1 = w1
    w2 = w2
    Replies <- MCReplies
    TShow <- MCTShow
    Workers <- MCWorkers
    Scenarios <- MCScenarios
    MaxFaults = 1
SYMMETRY Symmetry
INVARIANTS
    ShortThreadExact
    DriftBounded
    LiveThreadShown
    CopiesAgree
    EditsStick
    DeletesStick
