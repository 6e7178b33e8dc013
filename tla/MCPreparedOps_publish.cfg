SPECIFICATION LiveSpec
CONSTANTS
    Ops = {o1, o2}
    Turned = {o2}
    Cancels = TRUE
    Closes = TRUE
    MaxHist = 1
    NoOp = NoOp
INVARIANTS TypeOK AnswerIsTrue
PROPERTIES NoLostUpdate OperationsAndCloseEnd
CHECK_DEADLOCK FALSE
