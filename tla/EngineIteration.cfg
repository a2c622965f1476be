SPECIFICATION Spec
CONSTANTS
    c1 = c1
    c2 = c2
    c3 = c3
    Call = {c1, c2, c3}
    MaxIterations = 3
    Texts = 1
    Extras = 2
    None = None
INVARIANTS
    TypeOK
    AnswersFollowCalls
    BlocksInOrder
    FreshIndices
    ModelCallsBounded
PROPERTIES
    ImplementsRuns
SYMMETRY CallSymmetry
