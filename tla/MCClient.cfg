SPECIFICATION FairSpec
CONSTANTS
    EntityCount = 2
    MaxIp = 2
    MaxLines = 2
    Halts = {1}
INVARIANTS TypeOK ConsoleLives NoOldComponent HltHolds
PROPERTIES  ThrustsOwn ThrustTakesHold QuitEnds
CHECK_DEADLOCK FALSE
