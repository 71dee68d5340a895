SPECIFICATION FairSpec
PROPERTY WorldUpdated
CHECK_DEADLOCK FALSE
