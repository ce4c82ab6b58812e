SPECIFICATION MCSpec
CONSTANTS
    Panes = {1, 2, 3}
    Windows = {1, 2}
    FirstStates <- MCFirstStates
    CommandLimit = 2
    OthersLimit = 1
    Dialogues = {d1, d2}
    Clips = {c1, c2}
    Asks = {c1}
    Navigations = {n1}
    None = None
    User = User
    RequestLimit = 3
    InputPanes = {1, 2}
    QueueLimit = 2
    InputLimit = 3
INVARIANTS
    KeysOnScreen
    
    AnswersMatched
    InputInOrder
    ButtonsReleased
PROPERTY DialoguesSettle
CHECK_DEADLOCK FALSE
