SPECIFICATION SessionSpec
CONSTANTS
    Tab = {"t1", "t2"}
    Person = {"ann", "bob"}
    Staff = {"eve"}
    Attempts = 5
INVARIANTS SessionTypeOK SignupAllOrNothing SlugsUnique SessionsWereCommitted
PROPERTIES FormsRecover
CHECK_DEADLOCK FALSE
