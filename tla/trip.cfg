\* Records with two fields altered, from Send to either reader.
CONSTANT Offered <- Messages
SPECIFICATION Spec
INVARIANT TripIsFaithful
INVARIANT OnlyFatalRecordsPanic
INVARIANT OnlyRecordsValidate
CHECK_DEADLOCK FALSE
