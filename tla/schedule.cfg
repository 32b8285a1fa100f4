SPECIFICATION ScheduleSpec
CONSTANTS
    None = None
    Milestone <- MCMilestone
    Factor <- MCFactor
    Policy <- MCPolicy
    Fixed <- MCFixed
    Window = {2, 4}
    Retention = 7
    MaxPace = 2
    MaxTime = 13
    MaxEvents = 2
INVARIANT ScheduleTypeOK
PROPERTIES CrossingIsCaught SprintIsAlive
CHECK_DEADLOCK FALSE
