SPECIFICATION LookupSpec
PROPERTY LookupReturns
CHECK_DEADLOCK FALSE
