SPECIFICATION Spec
CONSTANTS
    Intervals <- NoneOrFour
    DefaultInterval = 2
    MinSleep = 1
    MaxSleep = 2
    MaxWork = 1
    MaxJump = 2
    MaxChanges = 2
    LastStart = 3
INVARIANTS
    TypeOK
    HandlerFollowsInterval
    WaitBounded
    NotTooSoon
PROPERTY StepReturns
