SPECIFICATION FairSpec
CONSTANT MaxRequests = 2
INVARIANTS AnswerIsOwn
PROPERTIES HandlersReturn CloseEndsClaw
CHECK_DEADLOCK FALSE
