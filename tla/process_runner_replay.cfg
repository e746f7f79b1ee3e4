SPECIFICATION Spec
CONSTANT Retries = 2
PROPERTY LostIsNotReplayed
CHECK_DEADLOCK FALSE
