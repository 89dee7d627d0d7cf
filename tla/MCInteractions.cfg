SPECIFICATION Spec
CONSTANTS
    None = None
    Interactions = {i1, i2, i3}
    Actions = {"review", "confirm"}
    Requests = {q1}
    Handlers = {h1, h2}
SYMMETRY MCSymmetry
INVARIANTS
    InteractionsTypeOK
    ForwardedOnce
    AnswersAreTrue
    AnswersAgree
    ApprovedWasShown
